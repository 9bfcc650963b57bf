------------------------------- MODULE MCRpc -------------------------------
(***************************************************************************)
(* Small instances of Rpc: configuration files with two tokens (one for the  *)
(* daemon's own identity, one for another that differs from it in its groups *)
(* only) and without, with and without a read timeout, and files a daemon    *)
(* does not start with.                                                     *)
(***************************************************************************)
EXTENDS Rpc, TLC

CONSTANTS c1, c2, malformed, absent

MCTrimSpace(s) == IF s = " secret " THEN "secret" ELSE s
MCParseUint(s) == Bad
MCParseDuration(s) == CASE s = "5s" -> 5 [] s = "0s" -> 0 [] OTHER -> Bad

Daemon == [uid |-> 0, gid |-> 0, groups |-> <<4, 0, 6>>]

Tok(token, groups) == [token |-> token, uid |-> Id(0), gid |-> Id(0), groups |-> groups]
FirstEntry == Tok(" secret ", <<6, 0, 4, 6>>)
SecondEntry(token) == Tok(token, <<4, 7>>)
FileWith(entries) == [version |-> 1, tokens |-> entries]

WithTokens == FileWith(<<FirstEntry, SecondEntry("other")>>)
OpenVersion(v) == [version |-> v, allow_v1_fallback |-> TRUE, log_level |-> "debug"]
Open == OpenVersion(1)
Patient(file) == [read_timeout |-> "0s"] @@ file

OnlyTokens == {WithTokens}
Usable == {WithTokens, Open}

\* A file that is not there or malformed, one of another version, one without
\* tokens or fallback, and tokens that are no list of distinct ones.
Unusable == {absent, malformed, OpenVersion(2), [version |-> 1],
             [read_timeout |-> "soon"] @@ WithTokens,
             FileWith(<<FirstEntry, SecondEntry("secret")>>)}

AnyFile == {WithTokens, Patient(WithTokens), Patient(Open)} \cup Unusable

\* The token of the first entry is revoked, or everything is.
Revoked == {FileWith(<<SecondEntry("other")>>), absent}

Req(version, dst, token) ==
  [version |-> version, op |-> "reflink", recursive |-> FALSE, src |-> <<"a">>, dst |-> dst,
   token |-> token]

Dst == {<<"b">>, <<"c">>}

\* Every protocol version with every token the daemon may know, not know, or know
\* after trimming, and a request without a destination.
AnyRequest == {Req(1, <<"b">>, ""), Req(2, <<"b">>, "secret"), Req(2, <<"b">>, "other"),
               Req(2, <<"b">>, " secret "), Req(2, <<"">>, "other")}

\* Calls for the same and for different destinations.
SomeRequest == {Req(2, d, "secret") : d \in Dst}
BigRequest == {Req(2, <<"b">>, " secret ")}
OneRequest == {Req(2, <<"b">>, "secret")}
MCTarget == Dst \cup {<<"">>}
OneTarget == {<<"b">>, <<"">>}
BothWays == {Req(1, <<"b">>, ""), Req(2, <<"b">>, "other")}

Symmetry == Permutations(Call)
=============================================================================
