---------------------------- MODULE ConnectionForm ----------------------------
(***************************************************************************)
(* What a connection's form sends, and what the server makes of it: the    *)
(* boxes prefilled from a record, the payload, the credential carried from *)
(* the adapter it replaces, the tunnel kept, removed or set, and the parts *)
(* by which the next form is filled.                                       *)
(*                                                                         *)
(* None is an absent field and an empty box.  The host stands for the other *)
(* things that name a database, its user and its name.                     *)
(***************************************************************************)
EXTENDS Naturals

CONSTANTS Hosts, Passwords, Keys, Pins, MaxEdits, None

VARIABLES
  record,   \* the connection being edited, or just saved, as the registry has it
  boxes,    \* the boxes on screen
  mode,     \* "add" or "edit"
  edits     \* boxes touched since the form was opened or emptied

formVars == <<record, boxes, mode, edits>>

-----------------------------------------------------------------------------
(* Vocabulary. *)

Drivers == {"postgres", "turso", "d1", "mysql", "null"}

DefaultPort(driver) ==
  IF driver = "postgres" THEN 5432 ELSE IF driver = "mysql" THEN 3306 ELSE None

SupportsSshTunnel(driver) == DefaultPort(driver) # None

Or(value, fallback) == IF value # None THEN value ELSE fallback

HardenSslMode(supplied) == IF supplied = "disable" THEN "disable" ELSE "require"

Ports    == {None, 6000}
SslModes == {"require", "disable"}

\* A pasted URL.  Each engine has its own TLS parameter: sslmode=disable and
\* sslmode=prefer are Postgres's, ssl-mode=DISABLED is MySQL's.
Url == [host: Hosts, port: Ports, password: Passwords \cup {None},
        tls: {None, "disable", "prefer", "DISABLED"}]

\* The sslmode a URL states, whoever's it is.
Stated(url) == IF url = None \/ url.tls \in {None, "DISABLED"} THEN None
               ELSE HardenSslMode(url.tls)

SshInput == [host: Hosts \cup {None}, key: Keys \cup {None}, password: Passwords \cup {None},
             fingerprint: Pins \cup {None}, knownHosts: Pins \cup {None}]

\* graftSshTunnel's three arms.
KeepTunnel   == [edit |-> "keep"]
DropTunnel   == [edit |-> "disable"]
SetTunnel(s) == [edit |-> "set", to |-> s]

EmptyBody(driver) ==
  [driver |-> driver, url |-> None, host |-> None, port |-> None, password |-> None,
   sslMode |-> None, token |-> None, ids |-> None, ssh |-> KeepTunnel]

\* What is absent is told from whatever may be there.
ASSUME FormAssumption ==
  /\ None \notin Hosts \cup Passwords \cup Keys \cup Pins
  /\ None \notin SslModes \cup {"prefer", "DISABLED"} /\ None \notin {3306, 5432, 6000}
  /\ None \notin Url
  /\ None \notin [kind : {"private-key", "password"}, secret : Keys \cup Passwords]
  /\ MaxEdits \in Nat

-----------------------------------------------------------------------------
(* The server. *)

\* connectionPartsOf().
PartsOf(body) ==
  [host |-> IF body.url = None THEN body.host ELSE body.url.host,
   port |-> IF body.url = None THEN body.port ELSE body.url.port,
   sslMode |-> Or(body.sslMode, Stated(body.url))]

OneOf(a, b) == (a = None) # (b = None)

ResolveAuth(input, carried) ==
  IF carried # None /\ input.key = None /\ input.password = None THEN carried
  ELSE IF input.key # None THEN [kind |-> "private-key", secret |-> input.key]
  ELSE [kind |-> "password", secret |-> input.password]

AuthIsStated(input, carried) ==
  OneOf(input.key, input.password) \/ (carried # None /\ input.key = None /\ input.password = None)

ResolveHostKey(input) ==
  IF input.fingerprint # None THEN [kind |-> "fingerprint", pin |-> input.fingerprint]
                              ELSE [kind |-> "known-hosts", pin |-> input.knownHosts]

\* resolveSshTunnelConfig(), when it does not throw.
Resolves(input, carried) ==
  /\ input.host # None
  /\ AuthIsStated(input, carried)
  /\ OneOf(input.fingerprint, input.knownHosts)

\* graftSshTunnel(): keep what runs, take it away, or set it.
GraftSshTunnel(previous, ssh) ==
  CASE ssh.edit = "keep"    -> previous
    [] ssh.edit = "disable" -> None
    [] ssh.edit = "set"     ->
         [host |-> ssh.to.host,
          auth |-> ResolveAuth(ssh.to, IF previous = None THEN None ELSE previous.auth),
          hostKey |-> ResolveHostKey(ssh.to)]

\* carryCredential(), carryMySqlCredential(), and the token of the other two: a
\* blank is not a removal, and what is carried goes where the driver reads it.
Carried(previous, next) ==
  IF next.driver \in {"turso", "d1"} THEN [next EXCEPT !.token = Or(@, previous.token)]
  ELSE IF next.driver = "null" THEN next
  ELSE LET stored == IF previous.url = None THEN previous.password ELSE previous.url.password
       IN  IF next.url = None THEN [next EXCEPT !.password = Or(@, stored)]
                              ELSE [next EXCEPT !.url.password = Or(@, stored)]

\* What a driver needs of a config; a tunnel also needs a host to forward to.
Buildable(body, tunnel) ==
  /\ CASE body.driver = "postgres" -> body.url # None \/ body.host # None
       [] body.driver = "mysql"    -> body.url # None
       [] body.driver = "turso"    -> body.url # None
       [] body.driver = "d1"       -> body.ids # None /\ body.token # None
       [] body.driver = "null"     -> TRUE
  /\ tunnel # None => SupportsSshTunnel(body.driver) /\ (body.url # None \/ body.host # None)

Accepted(previous, previousTunnel, body) ==
  /\ body.ssh.edit = "set" =>
       Resolves(body.ssh.to, IF previousTunnel = None THEN None ELSE previousTunnel.auth)
  /\ Buildable(Carried(previous, body), GraftSshTunnel(previousTunnel, body.ssh))

\* StaticAdapterFactory.rebuild() and what the record keeps of the request.
Rebuilt(previous, previousTunnel, body) ==
  [driver |-> body.driver, config |-> Carried(previous, body),
   tunnel |-> GraftSshTunnel(previousTunnel, body.ssh), parts |-> PartsOf(body)]

\* sshPartsOf(): the tunnel without its credential.
SshParts(tunnel) == [host |-> tunnel.host, auth |-> tunnel.auth.kind, hostKey |-> tunnel.hostKey]

\* What the pool of a record dials.  A connection string supplants the fields.
DialledAt(r, place, tls) ==
  [host |-> place.host, port |-> Or(place.port, DefaultPort(r.driver)),
   password |-> place.password, tls |-> tls, tunnel |-> r.tunnel]

\* resolvePostgresPoolOptions(): the TLS choice outranks the URL's.
PostgresDials(r) ==
  DialledAt(r, IF r.config.url = None THEN r.config ELSE r.config.url,
            HardenSslMode(Or(r.config.sslMode, Stated(r.config.url))))

\* resolveMySqlPoolOptions(): a URL or nothing, and its own TLS parameter.
MySqlDials(r) ==
  DialledAt(r, r.config.url, IF r.config.url.tls = "DISABLED" THEN "disable" ELSE "require")

Dials(r) ==
  CASE r.driver = "postgres" -> PostgresDials(r)
    [] r.driver = "mysql"    -> MySqlDials(r)
    [] OTHER -> [url |-> r.config.url, token |-> r.config.token, ids |-> r.config.ids]

-----------------------------------------------------------------------------
(* The form. *)

EmptyForm(driver) ==
  [driver |-> driver, useUrl |-> FALSE, url |-> None, host |-> None, port |-> None,
   password |-> None, sslMode |-> "require", sshEnabled |-> FALSE, sshHost |-> None,
   auth |-> "private-key", key |-> None, sshPassword |-> None,
   hostKey |-> "fingerprint", fingerprint |-> None, knownHosts |-> None]

\* The boxes of an edit: everything but what is secret.
FormOf(r) ==
  LET plain == [EmptyForm(r.driver) EXCEPT
                  !.host = r.parts.host, !.port = r.parts.port,
                  !.sslMode = Or(r.parts.sslMode, "require")]
      ssh == SshParts(r.tunnel)
  IN  IF r.tunnel = None THEN plain
      ELSE [plain EXCEPT
              !.sshEnabled = TRUE, !.sshHost = ssh.host, !.auth = ssh.auth,
              !.hostKey = ssh.hostKey.kind,
              !.fingerprint = IF ssh.hostKey.kind = "fingerprint" THEN ssh.hostKey.pin ELSE None,
              !.knownHosts  = IF ssh.hostKey.kind = "known-hosts" THEN ssh.hostKey.pin ELSE None]

MutHiddenBoxesSend(f) ==
  [host |-> f.sshHost, key |-> f.key, password |-> f.sshPassword,
   fingerprint |-> f.fingerprint, knownHosts |-> f.knownHosts]

\* buildSsh(): the boxes on screen, and no others.
BuildSsh(f) ==
  [host        |-> f.sshHost,
   key         |-> IF f.auth = "private-key" THEN f.key ELSE None,
   password    |-> IF f.auth = "password" THEN f.sshPassword ELSE None,
   fingerprint |-> IF f.hostKey = "fingerprint" THEN f.fingerprint ELSE None,
   knownHosts  |-> IF f.hostKey = "known-hosts" THEN f.knownHosts ELSE None]

\* sshMember(): absent where this driver has no boxes.
SshMember(f) ==
  IF ~SupportsSshTunnel(f.driver) THEN KeepTunnel
  ELSE IF f.sshEnabled THEN SetTunnel(BuildSsh(f))
  ELSE IF mode = "edit" /\ record.tunnel # None THEN DropTunnel ELSE KeepTunnel

\* buildPayload(): one entry mode or the other, never a merge.
Payload(f) ==
  LET secured == [EmptyBody(f.driver) EXCEPT !.sslMode = f.sslMode, !.ssh = SshMember(f)]
  IN  IF f.driver = "null" THEN EmptyBody(f.driver)
      ELSE IF f.useUrl THEN [secured EXCEPT !.url = f.url]
      ELSE [secured EXCEPT !.host = f.host, !.port = Or(f.port, DefaultPort(f.driver)),
                           !.password = f.password]

\* A body posted to the API, by a client that may say what no form says.
Registrations ==
  LET Tunnels == [host : Hosts, key : Keys, password : {None}, fingerprint : Pins, knownHosts : {None}]
                 \cup [host : Hosts, key : {None}, password : Passwords,
                       fingerprint : {None}, knownHosts : Pins]
      Ssh == {KeepTunnel} \cup {SetTunnel(s) : s \in Tunnels}
      Token(d) == IF d \in {"turso", "d1"} THEN Passwords ELSE {None}
      Posts(d) == [driver : {d}, url : Url, host : {None}, port : {None}, password : {None},
                   sslMode : {None}, token : Token(d), ids : Passwords \cup {None}, ssh : Ssh]
                  \cup [driver : {d}, url : {None}, host : Hosts, port : Ports,
                        password : Passwords \cup {None}, sslMode : SslModes \cup {None},
                        token : Token(d), ids : Passwords \cup {None}, ssh : Ssh]
  IN  {b \in UNION {Posts(d) : d \in Drivers} :
         /\ b.ids = IF b.driver = "d1" THEN b.token ELSE None
         /\ Accepted(EmptyBody(b.driver), None, b)}

Records == {Rebuilt(EmptyBody(b.driver), None, b) : b \in Registrations}

FormInit ==
  /\ record = None
  /\ boxes = EmptyForm("postgres") /\ mode = "add" /\ edits = 0

-----------------------------------------------------------------------------
(* The page. *)

\* The form is keyed by the record it edits: opening one drops what was typed.
OpenRecord ==
  /\ mode = "add"
  /\ \E r \in Records \cup ({record} \ {None}) : record' = r /\ boxes' = FormOf(r)
  /\ mode' = "edit" /\ edits' = 0

\* Back to an empty form for the first driver the server lists.
NoLongerEditing == boxes' = EmptyForm("postgres") /\ mode' = "add" /\ edits' = 0

Edit(f) == /\ edits < MaxEdits
           /\ boxes' = f /\ boxes' # boxes /\ edits' = edits + 1
           /\ record' = IF mode = "edit" THEN record ELSE None
           /\ UNCHANGED mode

PickDriver   == mode = "add" /\ \E d \in Drivers : Edit([boxes EXCEPT !.driver = d])
TypeHostBox  == \E h \in Hosts \cup {None} : Edit([boxes EXCEPT !.host = h])
TypePort     == \E p \in Ports : Edit([boxes EXCEPT !.port = p])
TypePassword == \E w \in Passwords : Edit([boxes EXCEPT !.password = w])
ToggleUrl    == Edit([boxes EXCEPT !.useUrl = ~@])
PickSslMode  == \E s \in SslModes : Edit([boxes EXCEPT !.sslMode = s])
ToggleSsh    == SupportsSshTunnel(boxes.driver) /\ Edit([boxes EXCEPT !.sshEnabled = ~@])

\* The watch on the URL box: a URL that states a mode moves the select.
AfterUrl(u) ==
  [boxes EXCEPT !.url = u, !.sslMode = Or(Stated(u), @)]

TypeUrl == boxes.useUrl /\ \E u \in Url \cup {None} : Edit(AfterUrl(u))

TypeSsh ==
  /\ SupportsSshTunnel(boxes.driver) /\ boxes.sshEnabled
  /\ \/ \E h \in Hosts : Edit([boxes EXCEPT !.sshHost = h])
     \/ \E a \in {"private-key", "password"} : Edit([boxes EXCEPT !.auth = a])
     \/ boxes.auth = "private-key" /\ \E k \in Keys : Edit([boxes EXCEPT !.key = k])
     \/ boxes.auth = "password" /\ \E w \in Passwords : Edit([boxes EXCEPT !.sshPassword = w])
     \/ \E k \in {"fingerprint", "known-hosts"} : Edit([boxes EXCEPT !.hostKey = k])
     \/ boxes.hostKey = "fingerprint" /\ \E n \in Pins : Edit([boxes EXCEPT !.fingerprint = n])
     \/ boxes.hostKey = "known-hosts" /\ \E n \in Pins : Edit([boxes EXCEPT !.knownHosts = n])

\* POST: nothing runs yet.  The form is emptied, its driver and entry mode stay.
SubmitAdd ==
  /\ mode = "add"
  /\ LET body == Payload(boxes)
         ok   == Accepted(EmptyBody(boxes.driver), None, body)
     IN  /\ record' = IF ok THEN Rebuilt(EmptyBody(boxes.driver), None, body) ELSE record
         /\ boxes' = IF ok THEN [EmptyForm(boxes.driver) EXCEPT !.useUrl = boxes.useUrl] ELSE boxes
         /\ edits' = IF ok THEN 0 ELSE edits
  /\ UNCHANGED mode

\* PATCH: a body that names no connection detail only renames.  An accepted edit
\* closes the form, a refused one leaves it and the record as they were.
SubmitEdit ==
  /\ mode = "edit"
  /\ LET body == Payload(boxes)
         ok   == Accepted(record.config, record.tunnel, body)
     IN  /\ record' = IF body # EmptyBody(boxes.driver) /\ ok
                      THEN Rebuilt(record.config, record.tunnel, body) ELSE record
         /\ IF ok THEN NoLongerEditing ELSE UNCHANGED <<boxes, mode, edits>>

LeaveRecord ==
  /\ mode = "edit" /\ NoLongerEditing
  /\ UNCHANGED record

FormNext ==
  \/ OpenRecord \/ LeaveRecord
  \/ PickDriver \/ TypeHostBox \/ TypePort \/ TypePassword \/ PickSslMode \/ ToggleSsh
  \/ ToggleUrl \/ TypeUrl \/ TypeSsh
  \/ SubmitAdd \/ SubmitEdit

FormSpec == FormInit /\ [][FormNext]_formVars

-----------------------------------------------------------------------------
(* What the form promises its reader. *)

\* What the boxes on screen say of a connection, a blank secret meaning the one
\* the connection has.
Shown(f, old) ==
  LET u == IF f.useUrl THEN f.url ELSE f
  IN  [host |-> u.host, port |-> Or(u.port, DefaultPort(f.driver)),
       password |-> Or(u.password, old.password), tls |-> f.sslMode,
       tunnel |-> IF ~f.sshEnabled THEN None
                  ELSE [host |-> f.sshHost,
                        auth |-> IF f.auth = "private-key" /\ f.key # None
                                 THEN [kind |-> "private-key", secret |-> f.key]
                                 ELSE IF f.auth = "password" /\ f.sshPassword # None
                                 THEN [kind |-> "password", secret |-> f.sshPassword]
                                 ELSE old.tunnel.auth,
                        hostKey |-> [kind |-> f.hostKey,
                                     pin |-> IF f.hostKey = "fingerprint" THEN f.fingerprint
                                                                          ELSE f.knownHosts]]]

Nothing == [password |-> None, tunnel |-> None]

SubmitStep == mode' = "add" /\ edits' = 0 /\ boxes' # boxes /\ (SubmitAdd \/ SubmitEdit)
SocketDrivers == {"postgres", "mysql"}

\* The connection an accepted form makes is the one its visible boxes describe:
\* host, port, password, tunnel, credential and pin, whatever was typed into
\* boxes since hidden and whatever the connection was before (carryCredential,
\* graftSshTunnel, buildPayload).  MySQL's TLS is the exception.
TheFormSaysWhatIsDialled ==
  [][SubmitStep /\ boxes.driver \in SocketDrivers =>
       LET shown  == Shown(boxes, IF mode = "add" THEN Nothing ELSE Dials(record))
           dialled == Dials(record')
       IN  IF boxes.driver = "postgres" THEN dialled = shown
           ELSE dialled = [shown EXCEPT !.tls = dialled.tls]]_formVars

\* Saving a form nobody typed in, which is how a connection is renamed, moves
\* the connection nowhere: the boxes an edit opens with are where it points.
RenamingMovesNothing ==
  [][SubmitStep /\ mode = "edit" /\ boxes = FormOf(record) => Dials(record') = Dials(record)]_formVars

\* What is saved is what the boxes say, and nothing is moved by saving boxes
\* nobody touched (ConnectionForm.vue:209-296, update-connection.use-case.ts).
SavesWhatItShows == TheFormSaysWhatIsDialled /\ RenamingMovesNothing

-----------------------------------------------------------------------------
(* What a record and the boxes over it are, between the user's steps.      *)

ServerPorts == Ports \cup {3306, 5432}
SshTunnels == [host : Hosts,
               auth : [kind : {"private-key", "password"}, secret : Keys \cup Passwords],
               hostKey : [kind : {"fingerprint", "known-hosts"}, pin : Pins]]
SshEdits == {KeepTunnel, DropTunnel} \cup {SetTunnel(s) : s \in SshInput}
Bodies  == [driver : Drivers, url : Url \cup {None}, host : Hosts \cup {None}, port : ServerPorts,
            password : Passwords \cup {None}, sslMode : SslModes \cup {None},
            token : Passwords \cup {None}, ids : Passwords \cup {None}, ssh : SshEdits]
Boxes   == [driver : Drivers, useUrl : BOOLEAN, url : Url \cup {None}, host : Hosts \cup {None},
            port : ServerPorts, password : Passwords \cup {None}, sslMode : SslModes,
            sshEnabled : BOOLEAN, sshHost : Hosts \cup {None}, auth : {"private-key", "password"},
            key : Keys \cup {None}, sshPassword : Passwords \cup {None},
            hostKey : {"fingerprint", "known-hosts"},
            fingerprint : Pins \cup {None}, knownHosts : Pins \cup {None}]

(* A record can be built, and its parts are those of its configuration.    *)
Sound(r) ==
  /\ DOMAIN r = {"driver", "config", "tunnel", "parts"}
  /\ r.config \in Bodies /\ r.driver = r.config.driver
  /\ r.tunnel \in SshTunnels \cup {None}
  /\ r.parts = PartsOf(r.config)
  /\ Buildable(r.config, r.tunnel)

FormInv ==
  /\ record = None \/ Sound(record)
  /\ boxes \in Boxes /\ edits \in 0..MaxEdits /\ mode \in {"add", "edit"}
  /\ mode = "edit" => Sound(record) /\ boxes.driver = record.driver
=============================================================================
