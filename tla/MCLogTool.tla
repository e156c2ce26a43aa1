----------------------------- MODULE MCLogTool ------------------------------
(* LogTool for TLC: three categories, two of them enabled by default.        *)
EXTENDS LogTool

ThreeNames == {"a", "b", "x"}     (* The server has not got x.               *)
TwoCategories == {"a", "b"}
OneDefault == {"a"}
TwoPeers == {":1.1", ":1.2"}

All == [p \in TwoPeers |-> Actions]
But(action) == [All EXCEPT ![":1.1"] = Actions \ {action}]
SomePolicies == {All, But("CategoryDisable")}

TwoServers == {[api |-> "gio", version |-> 2], [api |-> "libdbus", version |-> 1]}

Enable(S) == Option("enable", S, 0)
Disable(S) == Option("disable", S, 0)
Level(v) == Option("level", {}, v)
Backlog(v) == Option("backlog", {}, v)
Reset == Option("reset", {}, 0)
SomePrograms ==
  {<<Reset>>, <<Enable(TwoCategories), Reset>>, <<Disable({"a", "x"}), Backlog(2)>>,
   <<Option("list", {}, 0), Option("timeout", {}, 1), Disable({"a"}), Reset>>, <<Enable({"b"}), Option("follow", {}, 0)>>,
   <<Backlog(2), Level(3)>>, <<Option("print", {}, 0)>>, <<Level(9)>>, <<>>}

OnePolicy == {All}
OneProgram == {<<Disable({"a"})>>}

OtherDoes ==
  {[method |-> "CategoryEnable", names |-> TwoCategories, value |-> 0],
   [method |-> "SetCategoryLevel", names |-> {"a"}, value |-> 3],
   [method |-> "SetDefaultLevel", names |-> {}, value |-> 0]}
=============================================================================
