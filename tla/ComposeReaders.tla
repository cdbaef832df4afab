--------------------------- MODULE ComposeReaders ---------------------------
(***************************************************************************)
(* What internal/compose reads of a docker-compose.yml: the safety facts   *)
(* (Extract), the volumes (Volumes) and the literal secrets.  A document d *)
(* is a record with the set of its entries of each kind, each entry with   *)
(* the service it stands in and how it is spelled.  Order is left out:     *)
(* every reader sorts what it returns.                                     *)
(***************************************************************************)
EXTENDS Integers, FiniteSets

CONSTANTS
  SecretWord,  \* the segments of a key that contain one of secretWords
  Exempt       \* literalExemptions: <<tile, service, key>>

-----------------------------------------------------------------------------
(* `volumes:` of a service.  "short" is source:target, "bare" a target     *)
(* alone, the other forms are the `type` of a mapping.  kind is how the    *)
(* source starts: "path" with /, ./, ../ or ~, "padded" with blanks before *)
(* one of these, "disguised" with another dot or with a `${...}` that      *)
(* stands for a path.                                                      *)

Mount(Svcs, Names) ==
  [svc : Svcs, form : {"short", "bare", "bind", "volume", "tmpfs"},
   kind : {"none", "path", "padded", "disguised", "name"}, name : Names]

\* An entry of the top-level `volumes:`, and where its data is: in a volume of
\* its own, at a path of the node (`driver_opts: {o: bind, device: ...}`), or
\* elsewhere (`external:`, another driver).
TopVolume(Names) ==
  [name : Names, backing : {"own", "host path", "elsewhere"}]

\* bindSource: a bare target passes for a bind mount of that path.  The short
\* form is not trimmed here, and it is in mountSource.
BindSource(m) ==
  \/ m.form \in {"short", "bare"} /\ m.kind = "path"
  \/ m.form = "bind" /\ m.kind # "none"

\* mountSource, by kind of mount.
MountNamed(m) ==
  \/ m.form = "short" /\ m.kind \in {"disguised", "name"}
  \/ m.form = "volume" /\ m.kind # "none"

MountAnonymous(m) ==
  \/ m.form = "bare"
  \/ m.form = "volume" /\ m.kind = "none"

\* Volumes: the top-level keys, nothing that stands under them, and the named
\* sources that services mount.
Named(d) == {t.name : t \in d.top}
              \cup {m.name : m \in {x \in d.mounts : MountNamed(x)}}

AnonymousMounts(d) == {m.name : m \in {x \in d.mounts : MountAnonymous(x)}}

-----------------------------------------------------------------------------
(* `ports:` of a service.  "text" is [host:]published:container; host ""   *)
(* is every interface.                                                     *)

Port(Svcs, Numbers) ==
  [svc : Svcs, form : {"text", "suffix", "mapping", "number"},
   host : {"", "127.0.0.1", "0.0.0.0", "localhost"},
   published : Numbers, container : Numbers]

PortNumber(n) == n \in 1 .. 65535

\* parsePortEntry: a form it does not know is refused, never skipped.
Readable(p) ==
  /\ p.form = "text" /\ p.host # "localhost"
  /\ PortNumber(p.published) /\ PortNumber(p.container)

Binding(p) == [host |-> p.host, published |-> p.published]

-----------------------------------------------------------------------------
(* `environment:` of a service: a key is the sequence of the segments      *)
(* between its underscores, a value with a platform token in it a "token". *)
(* Style "elsewhere": the same setting in `command:`, `labels:` and the    *)
(* like.                                                                   *)

Env(Svcs, Keys) ==
  [svc : Svcs, key : Keys, style : {"mapping", "list", "elsewhere"},
   value : {"unset", "blank", "literal", "token"}]

SecretNamed(key) ==
  \E i \in DOMAIN key : key[i] \in SecretWord \cup {"KEY", "PWD", "PASS"}

Literal(e) == e.value = "literal"

\* LiteralSecretProblems: in either spelling of `environment:`, but for the
\* exact exemptions.
LiteralSecrets(id, d) ==
  {e \in d.env : /\ e.style # "elsewhere" /\ SecretNamed(e.key) /\ Literal(e)
                 /\ <<id, e.svc, e.key>> \notin Exempt}

-----------------------------------------------------------------------------
(* The keys that take privilege.  Capitals, the two separators of          *)
(* security_opt, a list instead of a mapping or a scalar: spelling "other".*)

Namespaces == {"network_mode", "pid", "ipc"}

\* Mutant: the keys read before #195.
ListedAtFirst == {"privileged", "cap_add", "devices"}

\* Keys whose entries are taken over one by one.
Listed ==
  {"privileged", "cap_add", "devices", "security_opt", "userns_mode",
   "group_add", "sysctls", "volumes_from", "cgroup_parent", "tmpfs",
   "ulimits", "reservations"}

\* The keys of a compose service that take privilege, whether a reader looks at
\* them or not (`reservations` stands under `deploy:`).
Privileges ==
  {"network_mode", "pid", "ipc", "uts", "cgroup", "userns_mode",
   "privileged", "cap_add", "security_opt", "group_add", "sysctls", "ulimits",
   "devices", "device_cgroup_rules", "gpus", "reservations", "runtime",
   "volumes_from", "tmpfs", "configs", "secrets", "cgroup_parent",
   "use_api_socket", "post_start"}

Option(Svcs, Values) ==
  [svc : Svcs, key : Privileges, spelling : {"usual", "other"}, value : Values]

\* "host" and the joins of another namespace; any other mode is the service's
\* own.
NamespaceTaken(o) ==
  o.key \in Namespaces /\ o.value \in {"host", "service:", "container:"}

Noted(o) == o.key \in Listed \/ NamespaceTaken(o)

\* A fact is the same whatever the spelling.
Fact(o) == [key |-> o.key, value |-> o.value]

BindFact(m) == [key |-> "bind", value |-> m.name]

Taken(d) == {Fact(o) : o \in {x \in d.options : Noted(x)}}
              \cup {BindFact(m) : m \in {x \in d.mounts : BindSource(x)}}

\* Extract returns facts and no error.  An image is "pinned" by digest,
\* "tagged", or missing, with a `build:` or without.
Extracts(d) ==
  /\ d.images # {}
  /\ \A i \in d.images : i.image \in {"pinned", "tagged"}
  /\ \A p \in d.ports : Readable(p)

Facts(d) == [images |-> {i.image : i \in d.images}, taken |-> Taken(d),
             ports  |-> {Binding(p) : p \in d.ports}]

=============================================================================
