---------------------------- MODULE MCToolStores ----------------------------
(* A small instance of ToolStores: the default profile and one of the user,  *)
(* two Spaces whose names give the same alias, one tool of theirs and one of *)
(* the program's own.  At first both profiles enable both tools, or the      *)
(* startup choice is a profile that is no longer there.                      *)
EXTENDS ToolStores, TLC

CONSTANTS r1, r2, def, mine, s1, s2, alias, tool, core

MCProfiles == {def, mine}
MCInitially ==
  {[defined |-> [p \in MCProfiles |-> {core, tool}], startup |-> NoFile],
   [defined |-> (def :> {core}) @@ (mine :> None), startup |-> mine]}
MCAlias == [s \in {s1, s2} |-> alias]
MCPrefix == [t \in {tool} |-> alias]
MCPreinstalled == (s1 :> {tool}) @@ (s2 :> None)

Request(kind, space, profile, tools, opts) ==
  [kind |-> kind, space |-> space, profile |-> profile, tools |-> tools, opts |-> opts]

MCAsked ==
  {Request("add", s, mine, {}, {}) : s \in {s1, s2}}
  \cup {Request(k, s1, mine, {}, {}) : k \in {"remove", "cliAdd", "reset"}}
  \cup {Request("cliRemove", s1, def, {}, {})}
  \cup {Request("save", s1, mine, ts, {}) : ts \in {{core}, {core, tool}}}
  \cup {Request("save", s1, def, {core}, {})}
  \cup {Request("author", s1, mine, {core}, os) : os \in {{}, {"overwrite", "tools"}}}
  \cup {Request("delete", s1, p, {}, {}) : p \in MCProfiles}
  \cup {Request("apply", s1, p, {}, os) : p \in MCProfiles, os \in {{"force"}, {"persist"}}}
  \cup {Request(k, s1, def, {}, {}) : k \in {"voice", "use", "start"}}
=============================================================================
