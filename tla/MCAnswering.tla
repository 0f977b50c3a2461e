----------------------------- MODULE MCAnswering -----------------------------
(* Answering for TLC: three guides and an untagged note, and the texts,    *)
(* declarations and claims that the rules tell apart.                      *)
EXTENDS Answering

MCDocOf == [a1 |-> "A", a2 |-> "A", b1 |-> "B", n1 |-> "none", n2 |-> "N"]
MCAppOf == [a1 |-> "a", a2 |-> "a", b1 |-> "b", n1 |-> "none", n2 |-> "none"]
MCSlugOf == [A |-> "a", B |-> "b", blank |-> ""]
MCHeadings == [a1 |-> {"intro"}, a2 |-> {"intro", "steps"}, b1 |-> {}, n1 |-> {"steps"}, n2 |-> {}]
MCRefs == [a1 |-> {"screen1"}, a2 |-> {"screen1", "icon2"}, b1 |-> {"screenB"},
           n1 |-> {"icon2"}, n2 |-> {}]
MCTrimOf == [tip |-> "short tip", step |-> "step", other |-> "other"] @@ ("short tip" :> "short tip")
MCFileOf == [screen1 |-> "a/1", icon2 |-> "a/2", screenB |-> "b/1", invented |-> "a/9"]
MCAppOfFile == [f \in {"a/1", "a/2"} |-> "a"] @@ ("b/1" :> "b")

Entry(id, section) == [id |-> id, section |-> section]
MCDeclarations ==
  {<<>>, <<Entry(1, "steps"), Entry(2, "intro")>>, <<Entry(2, ""), Entry(1, ""), Entry(2, "steps")>>,
   <<Entry(Process, "steps"), Entry(-2, "intro")>>, <<Entry(QA, ""), Entry(1, "intro"), Entry(1, "intro")>>}

MCReplies ==
  {<<"tip">>, <<"icon2", "short tip", "step", "tip", "screen1", "screen1">>,
   <<"tip", "invented", "step", "tip", "[[clarify]]">>,
   <<"screenB", "step", "icon2", "[[no_answer]]">>}

Claim(span, replacement, severity) == [span |-> span, replacement |-> replacement, severity |-> severity]
MCClaimLists ==
  {<<>>, <<Claim("tip", "", "minor")>>, <<Claim("tip", "short tip", "minor"), Claim("step", "", "minor")>>,
   <<Claim("short tip", "", "minor"), Claim("tip", "short tip", "minor")>>, <<Claim("step", "other", "major")>>,
   <<Claim("icon2", "", "minor")>>}
=============================================================================
