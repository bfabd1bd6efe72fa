------------------------- MODULE ConnectionTypes -------------------------
(***************************************************************************)
(* What a connection is made of, and how an edit changes it.  A target     *)
(* stands for everything about the database end that is not secret (host,  *)
(* port, database, user, ssl mode), a bastion for a whole tunnel, a        *)
(* credential for a password or a token: no property looks inside them.    *)
(***************************************************************************)
CONSTANTS
  Writers,       \* HTTP requests that change a connection, by the slot serving them
  Ids,           \* connection ids (UUIDs: never issued twice)
  Labels,        \* names a connection can be given
  Targets,       \* where a connection can point
  Bastions,      \* SSH tunnels a connection can be put behind
  Credentials,   \* database credentials
  Unnamed,       \* an edit whose body carries no label
  Direct,        \* no bastion in front of the connection
  NoCredential,  \* no password, no token
  Keep, Disable, \* an edit whose ssh field is absent, and one where it is null
  Blank,         \* a body whose password box is empty
  Missing,       \* no record under this id
  NoRequest      \* nothing submitted

Endpoint == [target: Targets, bastion: Bastions \cup {Direct},
             credential: Credentials \cup {NoCredential}]
Config   == [target: Targets, ssh: Bastions \cup {Keep, Disable},
             password: Credentials \cup {Blank}]

\* What a connection is to its user: a name, and what it reaches.
Entry == [label: Labels, endpoint: Endpoint]

RegisterRequest == [op: {"register"}, label: Labels, config: Config]
EditRequest     == [op: {"edit"}, id: Ids, label: Labels \cup {Unnamed}, config: Config]
DeleteRequest   == [op: {"delete"}, id: Ids]
Request         == RegisterRequest \cup EditRequest \cup DeleteRequest

\* The details that are not written as "keep" in a body are replaced as a set.
MutGraftIgnoresKeep(bastion, ssh) == IF ssh = Disable THEN Direct ELSE ssh

Graft(bastion, ssh) ==
  IF ssh = Keep THEN bastion ELSE IF ssh = Disable THEN Direct ELSE ssh

MutCarryReadsBlankAsNone(credential, password) ==
  IF password = Blank THEN NoCredential ELSE password

Carry(credential, password) ==
  IF password = Blank THEN credential ELSE password

Successor(previous, config) ==
  [target     |-> config.target,
   bastion    |-> Graft(previous.bastion, config.ssh),
   credential |-> Carry(previous.credential, config.password)]

\* A registration has no predecessor: nothing to keep means nothing.
Fresh(config) ==
  [target     |-> config.target,
   bastion    |-> Graft(Direct, config.ssh),
   credential |-> Carry(NoCredential, config.password)]

Relabelled(old, label) == IF label = Unnamed THEN old ELSE label
=============================================================================
