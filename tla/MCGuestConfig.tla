--------------------------- MODULE MCGuestConfig ---------------------------
(***************************************************************************)
(* A small configuration directory.  The contents differ from the defaults   *)
(* and from each other, and every way to be malformed is among them.         *)
(***************************************************************************)
EXTENDS GuestConfig, TLC

CONSTANTS i1, i2, c1, malformed, absent, half

MCTrimSpace(s) ==
  CASE s = " " -> "" [] s = " /x " -> "/x" [] s = " 7 " -> "7" [] OTHER -> s
MCParseUint(s) == CASE s = "3" -> 3 [] s = "7" -> 7 [] OTHER -> Bad
MCParseDuration(s) == CASE s = "3s" -> 3 [] s = "0s" -> 0 [] OTHER -> Bad

MCTemplate == [version |-> 1, mount_root |-> "/shared", host_cid |-> 2, port |-> 19090,
               timeout |-> "5s"]

Good == [version |-> 1, mount_root |-> " /x ", host_cid |-> 3, token |-> "secret"]
MCTomlFile ==
  {Bad, Good, [version |-> 1, mount_root |-> " ", port |-> 7, timeout |-> "3s"],
   [version |-> 1, timeout |-> "soon"], [host_cid |-> 7]}

Line(key, value) == [value |-> value, words |-> <<key>>, eq |-> TRUE]
Bare(words) == [value |-> "", words |-> words, eq |-> FALSE]

MCLegacyFile ==
  {Bad,
   <<Bare(<< >>), Line("token", "old"), Line("token", "older"), Line("mount_root", " "),
     Line("shell", "sh"), Line("host_cid", " 7 ")>>,
   <<Line("port", "")>>, <<Line("timeout", "0s"), Bare(<<"token">>)>>}

NoEnv == [k \in Key |-> ""]
MCGiven ==
  {[env |-> NoEnv, flags |-> << >>],
   [env |-> [NoEnv EXCEPT !.token = "env", !.host_cid = "many", !.timeout = "0s"],
    flags |-> [token |-> "", port |-> 7]]}

SomeToml == {Bad, Good}
SomeLegacy == {Bad, <<Line("token", "old"), Line("host_cid", " 7 ")>>}
=============================================================================
