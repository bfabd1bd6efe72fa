------------------------------- MODULE SshDial -------------------------------
(***************************************************************************)
(* The bastion: what the form's Fetch button reads from it, what a policy  *)
(* makes of the key it presents, and the session, listener and sockets of  *)
(* one forward from openSshTunnel() to close().                            *)
(*                                                                         *)
(* A key stands for its SHA-256 fingerprint.  A known_hosts file is lines   *)
(* of a marker, host patterns and a key; a pattern says whether it is       *)
(* negated and whether it matches the name this bastion is filed under.    *)
(***************************************************************************)
EXTENDS Naturals, Sequences

CONSTANTS
  Bastions,
  HostKeys,
  Sockets,    \* local connections a database client opens
  MaxProbes,  \* bound on the clicks on Fetch
  MaxLines,   \* bound on the lines of a known_hosts file
  PatternsPerLine, \* host patterns on each line; what matches nothing pads a shorter one
  Absent      \* no key, no pin, no reason

VARIABLES
  presents,  \* the key each bastion has; an operator may change it
  box,       \* the form: host and pin, whether a probe is on its way or its failure
             \*   on screen, whether the host is still the one last clicked for
  probes,    \* probe requests in the order they were clicked
  policy,    \* SshTunnelConfig.hostKey of the tunnel that is dialled
  dial,      \* how far openSshTunnel() and its handle have got
  client,    \* the ssh2 client
  key,       \* the key the bastion presented to it
  rejection, \* the verifier's reason
  reason,    \* what the caller was told
  sockets    \* the listener's sockets

dialVars == <<presents, box, probes, policy, dial, client, key, rejection, reason, sockets>>
form     == <<box, probes>>
tunnel   == <<policy, dial, client, key, rejection, reason, sockets>>

-----------------------------------------------------------------------------
(* Policies. *)

Pattern == [negated: BOOLEAN, matches: BOOLEAN]
Line    == [marker: {"", "@revoked", "@cert-authority"},
            patterns: [1..PatternsPerLine -> Pattern \ {[negated |-> TRUE, matches |-> FALSE]}],
            key: HostKeys]
Files   == UNION {[1..n -> Line] : n \in 0..MaxLines}

\* plainPatternsMatch(), pattern by pattern: a negation kills the line.
AfterPattern(covered, pattern) ==
  IF covered = "killed" \/ ~pattern.matches THEN covered
  ELSE IF pattern.negated THEN "killed" ELSE "yes"

ReadPatterns(patterns) ==
  LET Covered[i \in 0..Len(patterns)] ==
        IF i = 0 THEN "no" ELSE AfterPattern(Covered[i - 1], patterns[i])
  IN  Covered

MutNegationOnlySkips(patterns) ==
  \E i \in DOMAIN patterns : patterns[i].matches /\ ~patterns[i].negated

CoversHost(patterns) == ReadPatterns(patterns)[Len(patterns)] = "yes"

\* checkKnownHosts(): one pass, and a later @revoked line can still veto.
AfterLine(seen, line, presented) ==
  IF line.marker = "@cert-authority" \/ ~CoversHost(line.patterns) THEN seen
  ELSE IF line.marker = "@revoked"
  THEN [seen EXCEPT !.revoked = @ \/ line.key = presented]
  ELSE [seen EXCEPT !.sawHost = TRUE, !.accepted = @ \/ line.key = presented]

ReadLines(lines, presented) ==
  LET Seen[i \in 0..Len(lines)] ==
        IF i = 0 THEN [sawHost |-> FALSE, accepted |-> FALSE, revoked |-> FALSE]
        ELSE AfterLine(Seen[i - 1], lines[i], presented)
  IN  Seen

CheckKnownHosts(lines, presented) ==
  LET end == ReadLines(lines, presented)[Len(lines)]
  IN  IF end.revoked THEN "mismatch" ELSE IF end.accepted THEN "match"
      ELSE IF end.sawHost THEN "mismatch" ELSE "unknown"

\* verifyHostKey(): the verdict on a key; an empty pin never matches.
Verdict(p, presented) ==
  IF p.kind = "fingerprint" THEN IF p.pin = presented THEN "match" ELSE "mismatch"
                            ELSE CheckKnownHosts(p.lines, presented)

\* What a known_hosts file means, whatever the order of its lines.
NamesTheHost(patterns) ==
  /\ \E i \in DOMAIN patterns : patterns[i].matches /\ ~patterns[i].negated
  /\ \A i \in DOMAIN patterns : ~(patterns[i].matches /\ patterns[i].negated)

Vouches(line, mark, presented) ==
  line.marker = mark /\ line.key = presented /\ NamesTheHost(line.patterns)

SomeLine(lines, mark, presented) == \E i \in DOMAIN lines : Vouches(lines[i], mark, presented)

Trusts(lines, presented) == SomeLine(lines, "", presented) /\ ~SomeLine(lines, "@revoked", presented)

-----------------------------------------------------------------------------
DialInit ==
  /\ presents \in [Bastions -> HostKeys]
  /\ box = [host |-> CHOOSE b \in Bastions : TRUE, pin |-> Absent, probing |-> FALSE,
            failed |-> FALSE, same |-> FALSE]
  /\ probes = <<>>
  /\ policy \in {[kind |-> "known-hosts", lines |-> f] : f \in Files} \cup
                {[kind |-> "fingerprint", pin |-> Absent]}
  /\ dial = "none" /\ client = "none" /\ key = Absent
  /\ rejection = Absent /\ reason = Absent
  /\ sockets = {}

\* Only a form with a fingerprint policy has the button.
Pinning == policy.kind = "fingerprint"

Rekey ==
  /\ Pinning
  /\ \E b \in Bastions, k \in HostKeys : presents' = [presents EXCEPT ![b] = k]
  /\ UNCHANGED <<form, tunnel>>

-----------------------------------------------------------------------------
(* The form's side of a probe. *)

TypeHost(b) ==
  /\ Pinning /\ dial = "none" /\ b # box.host
  /\ box' = [box EXCEPT !.host = b, !.same = FALSE]
  /\ UNCHANGED <<presents, probes, tunnel>>

\* The button is disabled while a probe of this form is on its way.
CanFetch == Len(probes) < MaxProbes /\ ~box.probing

Fetch ==
  /\ Pinning /\ dial = "none" /\ CanFetch
  /\ box' = [box EXCEPT !.probing = TRUE, !.failed = FALSE, !.same = TRUE]
  /\ probes' = Append(probes, [host |-> box.host, step |-> "dialling", captured |-> Absent])
  /\ UNCHANGED <<presents, tunnel>>

\* probeHostKey(): the key is captured and refused; or none ever comes.
ProbeSees(i) ==
  /\ probes[i].step = "dialling"
  /\ probes' = [probes EXCEPT ![i].step = "answered", ![i].captured = presents[probes[i].host]]
  /\ UNCHANGED <<presents, box, tunnel>>

ProbeSeesNothing(i) ==
  /\ probes[i].step = "dialling"
  /\ probes' = [probes EXCEPT ![i].step = "answered"]
  /\ UNCHANGED <<presents, box, tunnel>>

\* The rest of fetchHostKey(): a refused probe leaves the box as it was.
ProbeArrives(i) ==
  /\ probes[i].step = "answered"
  /\ probes' = [probes EXCEPT ![i].step = "done"]
  /\ box' = IF probes[i].captured = Absent THEN [box EXCEPT !.probing = FALSE, !.failed = TRUE]
            ELSE [box EXCEPT !.probing = FALSE, !.pin = probes[i].captured]
  /\ UNCHANGED <<presents, tunnel>>

-----------------------------------------------------------------------------
(* The forward. *)

\* Saved: the tunnel is dialled with what the form says.
OpenSshTunnel ==
  /\ dial = "none"
  /\ Pinning => box.pin # Absent
  /\ policy' = IF Pinning THEN [policy EXCEPT !.pin = box.pin] ELSE policy
  /\ dial' = "connecting" /\ client' = "connecting"
  /\ UNCHANGED <<presents, form, key, rejection, reason, sockets>>

\* The hostVerifier: the reason is kept for the error ssh2 raises after it.
VerifyHostKey ==
  /\ client = "connecting"
  /\ key' = presents[box.host]
  /\ LET verdict == Verdict(policy, key')
     IN  /\ rejection' = IF verdict = "match" THEN Absent ELSE verdict
         /\ client' = IF verdict = "match" THEN "verified" ELSE "refused"
  /\ UNCHANGED <<presents, form, policy, dial, reason, sockets>>

\* The catch of the connect.
EndsTheClient == client' = "ended"

\* A transport or authentication failure, or the end of a refused handshake:
\* the client is ended and the caller told why.
DialFails ==
  /\ dial = "connecting" /\ client \in {"connecting", "verified", "refused"}
  /\ EndsTheClient /\ dial' = "failed"
  /\ reason' = IF rejection # Absent THEN rejection ELSE "transport"
  /\ UNCHANGED <<presents, form, policy, key, rejection, sockets>>

SessionReady ==
  /\ dial = "connecting" /\ client = "verified"
  /\ client' = "up" /\ dial' = "listening"
  /\ UNCHANGED <<presents, form, policy, key, rejection, reason, sockets>>

Listens ==
  /\ dial = "listening"
  /\ dial' = "open"
  /\ UNCHANGED <<presents, form, policy, client, key, rejection, reason, sockets>>

\* The throw from listen() leaves openSshTunnel() without client.end().
ListenFails ==
  /\ dial = "listening"
  /\ dial' = "unheard" /\ reason' = "transport"
  /\ UNCHANGED <<presents, form, policy, client, key, rejection, sockets>>

\* A database client connects; its channel may not open.
SocketOpens(s) ==
  /\ dial = "open" /\ s \notin sockets
  /\ sockets' = IF client = "up" THEN sockets \cup {s} ELSE sockets
  /\ UNCHANGED <<presents, form, policy, dial, client, key, rejection, reason>>

SocketCloses(s) ==
  /\ dial \in {"open", "closing"} /\ s \in sockets
  /\ sockets' = sockets \ {s}
  /\ UNCHANGED <<presents, form, policy, dial, client, key, rejection, reason>>

\* Keepalives go unanswered: the session is gone, the listener is not.
SessionDies ==
  /\ client = "up"
  /\ client' = "ended"
  /\ UNCHANGED <<presents, form, policy, dial, key, rejection, reason, sockets>>

MutSocketsStay == UNCHANGED sockets

\* close() destroys every socket first: a listener closes when none is left.
DestroysSockets == sockets' = {}

CloseForward ==
  /\ dial = "open"
  /\ dial' = "closing"
  /\ DestroysSockets
  /\ UNCHANGED <<presents, form, policy, client, key, rejection, reason>>

Closed ==
  /\ dial = "closing" /\ sockets = {}
  /\ dial' = "closed" /\ client' = "ended"
  /\ UNCHANGED <<presents, form, policy, key, rejection, reason, sockets>>

DialNext ==
  \/ Rekey \/ Fetch \/ \E b \in Bastions : TypeHost(b)
  \/ \E i \in DOMAIN probes : ProbeSees(i) \/ ProbeSeesNothing(i) \/ ProbeArrives(i)
  \/ OpenSshTunnel \/ VerifyHostKey \/ DialFails \/ SessionReady \/ Listens \/ ListenFails
  \/ \E s \in Sockets : SocketOpens(s) \/ SocketCloses(s)
  \/ SessionDies \/ CloseForward \/ Closed

DialSpec == DialInit /\ [][DialNext]_dialVars

\* Node reports the listener closed once nothing is connected to it.
DialFairness == WF_dialVars(Closed)

FairDialSpec == DialSpec /\ DialFairness

-----------------------------------------------------------------------------
\* A session comes up over a key its policy vouches for and no other, in
\* whatever order the lines of a known_hosts file stand, and a refusal is
\* reported as what it is and not as a failed handshake (the verifier's
\* captured reason).
OnlyTrustedKeysAreUp ==
  /\ client = "up" => IF Pinning THEN key = policy.pin ELSE Trusts(policy.lines, key)
  /\ dial = "failed" /\ key # Absent =>
       (reason = "transport" <=> IF Pinning THEN key = policy.pin ELSE Trusts(policy.lines, key))

\* The pin in the box is a key of the host beside it, while that host is the one
\* last asked about and has answered: probes cannot answer out of order.  (A
\* failed probe leaves the pin of the host before, with its error on screen.)
FetchedPinIsTheHosts ==
  box.same /\ ~box.probing /\ ~box.failed =>
    \E i \in DOMAIN probes : probes[i].host = box.host /\ probes[i].captured = box.pin

\* A session is up only for a forward somebody can still close; a listener that
\* could not be opened is the one way to leave it behind.
NoSessionIsLeft ==
  /\ dial \in {"failed", "closed"} => client = "ended"
  /\ dial = "unheard" => sockets = {}

\* A session is one the user vouched for, and one somebody can end
\* (ssh-tunnel.ts:150-226, known-hosts.ts:96-136, useSshHostKey.ts:48-81).
SessionsAreTrusted == OnlyTrustedKeysAreUp /\ FetchedPinIsTheHosts /\ NoSessionIsLeft

\* close() returns, whatever the sockets of the pool above it do.
CloseReturns == dial = "closing" ~> dial = "closed"

-----------------------------------------------------------------------------
(***************************************************************************)
(* The inductive invariant behind SessionsAreTrusted.                      *)
(***************************************************************************)
DialParameters ==
  /\ Bastions # {}
  /\ MaxLines \in Nat /\ PatternsPerLine \in Nat
  /\ Absent \notin HostKeys \cup {"transport", "mismatch", "unknown"}

Probe == [host: Bastions, step: {"dialling", "answered", "done"}, captured: HostKeys \cup {Absent}]

DialTypeOK ==
  /\ presents \in [Bastions -> HostKeys]
  /\ box \in [host: Bastions, pin: HostKeys \cup {Absent},
              probing: BOOLEAN, failed: BOOLEAN, same: BOOLEAN]
  /\ probes \in Seq(Probe)
  /\ policy \in [kind: {"known-hosts"}, lines: Files]
                \cup [kind: {"fingerprint"}, pin: HostKeys \cup {Absent}]
  /\ dial \in {"none", "connecting", "listening", "open", "failed", "unheard", "closing", "closed"}
  /\ client \in {"none", "connecting", "verified", "refused", "up", "ended"}
  /\ key \in HostKeys \cup {Absent}
  /\ rejection \in {Absent, "mismatch", "unknown"}
  /\ reason \in {Absent, "transport", "mismatch", "unknown"}
  /\ sockets \subseteq Sockets

\* What the verifier said of a key that was presented is still what the policy
\* says, and no session got past it otherwise.
VerdictStands ==
  /\ key = Absent => rejection = Absent /\ client \in {"none", "connecting", "ended"}
  /\ key # Absent => (rejection = Absent <=> Verdict(policy, key) = "match")
  /\ client \in {"verified", "up"} => key # Absent /\ rejection = Absent

\* How far the session has got with the dial.
DialAndSession ==
  /\ dial = "none" <=> client = "none"
  /\ dial = "none" => key = Absent
  /\ client = "connecting" => key = Absent
  /\ client \in {"connecting", "verified", "refused"} => dial = "connecting"
  /\ dial = "failed" => reason = IF rejection # Absent THEN rejection ELSE "transport"
  /\ dial \in {"failed", "closed"} => client = "ended"
  /\ dial \notin {"open", "closing"} => sockets = {}

\* One probe is on its way at most, the last; it is for the host asked about last.
OneProbe ==
  /\ \A i \in DOMAIN probes : probes[i].step # "done" => box.probing /\ i = Len(probes)
  /\ box.same => probes # <<>> /\ probes[Len(probes)].host = box.host
  /\ FetchedPinIsTheHosts

DialInv == DialTypeOK /\ VerdictStands /\ DialAndSession /\ OneProbe
=============================================================================
