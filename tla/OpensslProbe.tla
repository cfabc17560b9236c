---------------------------- MODULE OpensslProbe ----------------------------
(***************************************************************************)
(* probe/openssl.py and utils/shell.py: one `openssl s_client' handshake   *)
(* and what is read back from its output.  An output is described by what  *)
(* the parser can find in it:                                              *)
(*   timed_out   - the command was killed at its timeout                   *)
(*   established - "CONNECTION ESTABLISHED"                                *)
(*   proto       - a line that starts with "Protocol version:"             *)
(*   explicit    - the group on a "Negotiated TLS1.3 group:" line, or None *)
(*   temp_key    - the comma-separated tokens of a "Peer Temp Key:" line   *)
(*   phrases     - which of the phrases _error_category looks for occur    *)
(*                 anywhere, error strings included                        *)
(***************************************************************************)
EXTENDS Hosting, Naturals, Sequences

CONSTANTS
    Groups,       \* key-exchange groups, by the names openssl prints
    GroupClass,   \* registry: group -> class, or "unlisted"
    PrintedAs     \* the line openssl reports a group on

Classes == {"classical", "hybrid_pq", "pure_pq"}

\* The registry lists some of the groups, each with its class.
Registry == [Groups -> Classes \cup {"unlisted"}]

ASSUME ProbeAssumption ==
    /\ {None, "ECDH", "DH"} \cap Groups = {}
    /\ GroupClass \in Registry
    /\ PrintedAs \in [Groups -> {"negotiated", "temp_key", "ecdh_temp_key"}]

-----------------------------------------------------------------------------
(* What openssl prints (external), by how the connection went.             *)

Silence == [timed_out |-> FALSE, established |-> FALSE, proto |-> FALSE,
            explicit |-> None, temp_key |-> <<>>, phrases |-> {}]

\* A completed handshake; openssl builds that predate the "Peer Temp Key" line
\* report no group.
Completed(g) ==
    {[Silence EXCEPT !.established = TRUE, !.proto = TRUE],
     [Silence EXCEPT !.established = TRUE, !.proto = TRUE,
        !.explicit = IF PrintedAs[g] = "negotiated" THEN g ELSE None,
        !.temp_key = CASE PrintedAs[g] = "negotiated" -> <<>>
                       [] PrintedAs[g] = "temp_key" -> <<g, "bits">>
                       [] PrintedAs[g] = "ecdh_temp_key" -> <<"ECDH", g, "bits">>]}

Failing(phrases) == [Silence EXCEPT !.phrases = phrases]

\* A connection reset in the middle of a handshake: no phrase of the rules.
Reset == Failing({})

\* A server that does not accept the handshake.
Refusals == {Failing({"alert", "alert protocol version"}), Failing({"alert"}),
             Failing({"no suitable key share"}), Failing({"wrong version number"}),
             Reset}

\* A handshake that completes, but not before the command is killed.
Late(g) == {[out EXCEPT !.timed_out = TRUE] : out \in Completed(g)}

\* A congested path: no answer before the timeout, or no connection.
Disturbances == {[Silence EXCEPT !.timed_out = TRUE], Failing({"connect:errno"})}

Disturbed(out) == out.timed_out \/ "connect:errno" \in out.phrases

\* openssl resolves the name again, and fails.
LookupFailure == Failing({"bio_lookup_ex", "temporary failure in name resolution"})

-----------------------------------------------------------------------------
(* The code.                                                               *)

\* shell.run: what was printed before a timeout is dropped.
Captured(out) == IF out.timed_out THEN [Silence EXCEPT !.timed_out = TRUE] ELSE out

\* _extract_group: the explicit line first; the curve of "ECDH, P-256, 256
\* bits" is the second token.
ExtractGroup(out) ==
    CASE out.explicit # None -> out.explicit
      [] out.explicit = None /\ out.temp_key = <<>> -> None
      [] OTHER -> IF out.temp_key[1] \in {"ECDH", "DH"} /\ Len(out.temp_key) > 1
                  THEN out.temp_key[2] ELSE out.temp_key[1]

\* _error_category: the first rule that matches decides.
CategoryRules ==
    << <<{"temporary failure in name resolution", "name or service not known"}, "dns_failed">>,
       <<{"no suitable key share", "bad key share"}, "unsupported_group">>,
       <<{"alert protocol version"}, "no_tls13">>,
       <<{"alert"}, "tls_alert">>,
       <<{"wrong version number", "unsupported protocol"}, "no_tls13">>,
       <<{"connect:errno", "bio_lookup_ex"}, "tcp_error">> >>

Categories == {"dns_failed", "unsupported_group", "no_tls13", "tls_alert", "tcp_error",
               "tcp_timeout", "handshake_failed"}

ErrorCategory(out) ==
    LET hits == {i \in DOMAIN CategoryRules : CategoryRules[i][1] \cap out.phrases # {}}
    IN  CASE out.timed_out -> "tcp_timeout"
          [] ~out.timed_out /\ hits = {} -> "handshake_failed"
          [] OTHER -> CategoryRules[CHOOSE i \in hits : \A j \in hits : i <= j][2]

\* The protocol pattern not anchored to the start of a line.
HandshakeSeen_Unanchored(out) ==
    \/ out.established \/ out.proto \/ ExtractGroup(out) # None
    \/ "alert protocol version" \in out.phrases

HandshakeSeen(out) == out.established \/ out.proto \/ ExtractGroup(out) # None

\* probe: the ProbeOutcome read from an output.
Probe(out) ==
    IF HandshakeSeen(out)
    THEN [reachable |-> TRUE, group |-> ExtractGroup(out),
          tls |-> out.proto, category |-> None]
    ELSE [reachable |-> FALSE, group |-> None,
          tls |-> FALSE, category |-> ErrorCategory(out)]

=============================================================================
