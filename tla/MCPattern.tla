----------------------------- MODULE MCPattern -----------------------------
(* Paths of one and two steps of every kind, of three steps with fewer     *)
(* tests, and alternatives.                                                *)
EXTENDS Pattern

MCTests == {<<"ELEM", "a", "">>, <<"ELEM", "a", "u">>, <<"NS", "u", "">>,
            <<"ALL", "", "">>, <<"SELF", "", "">>}
MCFewTests == {<<"ELEM", "a", "">>, <<"ALL", "", "">>, <<"SELF", "", "">>}
MCAttrs == {<<"ATTR", "a", "">>, <<"ATTR", "", "">>}

MCElements == {<<"a", "">>, <<"b", "">>, <<"a", "u">>}

MCSteps(tests, seps) == [sep : seps, test : tests]
MCPaths(tests, seps) ==
  LET first == MCSteps(tests, {"/"})
      last == MCSteps(tests \cup MCAttrs, seps)
  IN  {<<s>> : s \in MCSteps(tests \cup MCAttrs, {"/"})}
        \cup {<<s1, s2>> : s1 \in first, s2 \in last}
MCLongPaths(tests, seps) ==
  {<<s1, s2, s3>> : s1 \in MCSteps(tests, {"/"}), s2 \in MCSteps(tests, seps),
                    s3 \in MCSteps(tests \cup {<<"ATTR", "a", "">>}, seps)}

MCAlts(leads, seps) ==
  [lead : leads, steps : MCPaths(MCTests, seps) \cup MCLongPaths(MCFewTests, seps)]
MCShortAlts == [lead : {"", "/", "//", ".//"}, steps : MCPaths(MCFewTests, {"/", "//"})]

MCSelf(alt) == \A i \in DOMAIN alt.steps : alt.steps[i].test[1] = "SELF"

MCSingle(alts, mode) == {[mode |-> mode, alts |-> <<alt>>] : alt \in alts}

(* ".//." as a selector is left out: the stream does not report the        *)
(* context node for it.                                                    *)
MCConstraints ==
  {alt \in MCAlts({"", ".//"}, {"/"}) : ~(alt.lead = ".//" /\ MCSelf(alt))}

MCSomeAlts ==
  [lead : {"", "/", "//"}, steps : {<<s>> : s \in MCSteps(MCFewTests, {"/"})}]
    \cup [lead : {""}, steps : {<<s1, s2>> : s1 \in MCSteps(MCFewTests, {"/"}),
                                       s2 \in MCSteps(MCFewTests, {"//"})}]

MCTwo ==
  {[mode |-> mode, alts |-> <<a1, a2>>] :
     mode \in {"pattern", "xpath"}, a1 \in MCSomeAlts, a2 \in MCSomeAlts}

MCPatterns ==
  MCSingle(MCAlts({"", "/", "//", ".//"}, {"/", "//"}), "pattern")
    \cup MCSingle(MCShortAlts, "xpath")
    \cup MCSingle(MCConstraints, "idc")
    \cup MCTwo
=============================================================================
