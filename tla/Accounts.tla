------------------------------ MODULE Accounts -------------------------------
(***************************************************************************)
(* Commands that take several steps on files all sessions share: useradd,  *)
(* userdel, chattr and the login that reads /etc/passwd                    *)
(* (internal/shell/executor.go, attr.go, identity.go).                     *)
(*                                                                         *)
(* Every operation of the virtual file system holds its lock, a command    *)
(* holds none: it reads a file, works on its copy and writes the copy.     *)
(* One action stands for one such operation, so that the operations of     *)
(* commands in different sessions interleave as they do in the program.    *)
(* A file is the set of its lines; whoever writes /etc/passwd by other     *)
(* means (echo >>, rm, sed) may write anything and is not modelled.        *)
(***************************************************************************)
EXTENDS Naturals, FiniteSetsExt

CONSTANTS
  Sessions,   \* session ids
  Names,      \* account names other than root, as SanitizeUsername leaves them
  Root,       \* "root"
  Logins,     \* the names that clients log in with
  Preset,     \* the entries of Names that bootstrap writes to /etc/passwd
  FirstUid,   \* 1000
  Synth,      \* [Names -> uid]: the hash of synthIdentity, 1100 and more
  Bits,       \* the bits i and a, either of which stops a write of the whole file
  MaxUid      \* bound of the model

Uids == 0 .. MaxUid
Entries == [name : Names \cup {Root}, uid : Uids]
RootEntry == [name |-> Root, uid |-> 0]

ASSUME AccountsAssumption ==
  /\ Root \notin Names /\ Logins \subseteq Names \cup {Root}
  /\ FirstUid \in Nat \ {0} /\ MaxUid \in Nat /\ FirstUid <= MaxUid
  /\ Synth \in [Names -> Nat \ {0}]
  /\ Preset \subseteq [name : Names, uid : FirstUid .. MaxUid]
  /\ \A d, e \in Preset : d # e => d.name # e.name /\ d.uid # e.uid

VARIABLES
  passwd,   \* the lines of /etc/passwd
  shadow,   \* the names in /etc/shadow
  attrs,    \* the bits i and a of the two files
  user,     \* the identity a session logged in with, or Nobody
  at,       \* where the command of a session is, with what it has read
  meant,    \* the names the finished commands should have left in each file
  clean     \* no command was in the way of another and no write was refused so far

vars == <<passwd, shadow, attrs, user, at, meant, clean>>

Files == {"passwd", "shadow"}
Nobody == [name |-> "", uid |-> 0]
Idle == [pc |-> "idle"]

NamesIn(lines) == {e.name : e \in lines}
Protected(f) == attrs[f] \cap Bits # {}
Busy(s) == at[s].pc \in {"write passwd", "read shadow", "write shadow", "home"}

Init ==
  /\ passwd = Preset \cup {RootEntry} /\ shadow = {Root}
  /\ attrs = [f \in Files |-> {}]
  /\ user = [s \in Sessions |-> Nobody] /\ at = [s \in Sessions |-> Idle]
  /\ meant = [passwd |-> NamesIn(Preset) \cup {Root}, shadow |-> {Root}]
  /\ clean = TRUE

---------------------------------------------------------------------------
(* Sessions. *)

\* ResolveUser: the line of the name, else root, else an identity made up for it.
ResolveUser(n) ==
  CASE \E e \in passwd : e.name = n -> CHOOSE e \in passwd : e.name = n
    [] n = Root /\ Root \notin NamesIn(passwd) -> RootEntry
    [] OTHER -> [name |-> n, uid |-> Synth[n]]

Login(s, n) ==
  /\ user[s] = Nobody
  /\ user' = [user EXCEPT ![s] = ResolveUser(n)]
  /\ UNCHANGED <<passwd, shadow, attrs, at, meant, clean>>

---------------------------------------------------------------------------
(* useradd and userdel. *)

\* Bug: the next uid is counted from the lines there are.
NextUidCounted(lines) == FirstUid + Cardinality({e \in lines : e.uid >= FirstUid})

NextUid(lines) == Max({FirstUid - 1} \cup {e.uid : e \in lines}) + 1
Added(lines, n) == lines \cup {[name |-> n, uid |-> NextUid(lines)]}
Without(lines, n) == {e \in lines : e.name # n}

Working(pc, op, n, copy) == [pc |-> pc, op |-> op, name |-> n, copy |-> copy]
Proceed(s, pc, copy) ==
  at' = [at EXCEPT ![s] = Working(pc, at[s].op, at[s].name, copy)]

\* The command has read /etc/passwd and holds what it is going to write.
Begin(s, op, n, text) ==
  /\ user[s] # Nobody /\ at[s] = Idle
  /\ at' = [at EXCEPT ![s] = Working("write passwd", op, n, text)]
  /\ clean' = (clean /\ \A t \in Sessions : Busy(t) => at[t].name # n)
  /\ UNCHANGED <<passwd, shadow, attrs, user, meant>>

\* A name that is there already ends the command.
UserAdd(s, n) ==
  /\ n \notin NamesIn(passwd) /\ NextUid(passwd) <= MaxUid
  /\ Begin(s, "add", n, Added(passwd, n))

\* So does one that is not there, and root, who is not in Names.
UserDel(s, n) ==
  /\ n \in NamesIn(passwd)
  /\ Begin(s, "del", n, Without(passwd, n))

\* WriteFile fails on a file with i or a, and when the disk has no room for a
\* file that grows, which it cannot when it only loses lines; the commands
\* ignore the error.
MayFail(s, f, lines) == Protected(f) \/ ~ at[s].copy \subseteq lines

WritePasswd(s) ==
  /\ at[s].pc = "write passwd" /\ ~Protected("passwd")
  /\ passwd' = at[s].copy
  /\ Proceed(s, "read shadow", {})
  /\ clean' = (clean /\ \A t \in Sessions \ {s} : at[t].pc # "write passwd")
  /\ UNCHANGED <<shadow, attrs, user, meant>>

PasswdRefused(s) ==
  /\ at[s].pc = "write passwd" /\ MayFail(s, "passwd", passwd)
  /\ Proceed(s, "read shadow", {})
  /\ clean' = FALSE
  /\ UNCHANGED <<passwd, shadow, attrs, user, meant>>

Applied(op, names, n) == IF op = "add" THEN names \cup {n} ELSE names \ {n}

ReadShadow(s) ==
  /\ at[s].pc = "read shadow"
  /\ Proceed(s, "write shadow", Applied(at[s].op, shadow, at[s].name))
  /\ UNCHANGED <<passwd, shadow, attrs, user, meant, clean>>

\* Bug: userdel leaves the line in /etc/shadow.
WriteShadowOfAdd(s) ==
  /\ at[s].pc = "write shadow" /\ ~Protected("shadow")
  /\ shadow' = IF at[s].op = "add" THEN at[s].copy ELSE shadow
  /\ Proceed(s, "home", {})
  /\ clean' = (clean /\ \A t \in Sessions \ {s} : at[t].pc # "write shadow")
  /\ UNCHANGED <<passwd, attrs, user, meant>>

WriteShadow(s) ==
  /\ at[s].pc = "write shadow" /\ ~Protected("shadow")
  /\ shadow' = at[s].copy
  /\ Proceed(s, "home", {})
  /\ clean' = (clean /\ \A t \in Sessions \ {s} : at[t].pc # "write shadow")
  /\ UNCHANGED <<passwd, attrs, user, meant>>

ShadowRefused(s) ==
  /\ at[s].pc = "write shadow" /\ MayFail(s, "shadow", shadow)
  /\ Proceed(s, "home", {})
  /\ clean' = FALSE
  /\ UNCHANGED <<passwd, shadow, attrs, user, meant>>

\* Mkdir or RemoveAll of the home directory, when asked for, is no state of this
\* module; the command ends.
EndCommand(s) ==
  /\ at[s].pc = "home"
  /\ meant' = IF clean THEN [f \in Files |-> Applied(at[s].op, meant[f], at[s].name)] ELSE meant
  /\ at' = [at EXCEPT ![s] = Idle]
  /\ UNCHANGED <<passwd, shadow, attrs, user, clean>>

---------------------------------------------------------------------------
(* chattr on the two files, both owned by root. *)

SettingFlags(f) == [pc |-> "set flags", file |-> f, old |-> attrs[f]]

\* The command of root, or of anyone with sudo; that of others is refused and
\* changes nothing.
ReadFlags(s, f) ==
  /\ user[s] # Nobody /\ at[s] = Idle
  /\ at' = [at EXCEPT ![s] = SettingFlags(f)]
  /\ UNCHANGED <<passwd, shadow, user, attrs, meant, clean>>

\* All the bits are written, the ones the command did not name as it read them.
SetFlags(s, flags) ==
  /\ at[s].pc = "set flags"
  /\ \E b \in Bits : flags \in {at[s].old \cup {b}, at[s].old \ {b}, {b}}
  /\ attrs' = [attrs EXCEPT ![at[s].file] = flags]
  /\ at' = [at EXCEPT ![s] = Idle]
  /\ UNCHANGED <<passwd, shadow, user, meant, clean>>

Next ==
  \E s \in Sessions :
     \/ \E n \in Logins : Login(s, n)
     \/ \E n \in Names : UserAdd(s, n) \/ UserDel(s, n)
     \/ WritePasswd(s) \/ PasswdRefused(s) \/ ReadShadow(s)
     \/ WriteShadow(s) \/ ShadowRefused(s) \/ EndCommand(s)
     \/ \E f \in Files : ReadFlags(s, f)
     \/ \E flags \in SUBSET Bits : SetFlags(s, flags)

Spec == Init /\ [][Next]_vars

---------------------------------------------------------------------------
(* Properties. *)

\* However commands of different sessions overwrite each other's work, what
\* stands in /etc/passwd is always one list of accounts: no name and no uid
\* twice, and root with uid 0.
Sound(lines) ==
  /\ RootEntry \in lines
  /\ \A d, e \in lines : d # e => d.name # e.name /\ d.uid # e.uid
PasswdSound == Sound(passwd)

\* Nobody but root logs in with uid 0, and root with no other.
OnlyRootIsRoot ==
  \A s \in Sessions : user[s] # Nobody => (user[s].uid = 0 <=> user[s].name = Root)

\* The accounts stay sound, in the file and for those who are logged in.
AccountsSound == PasswdSound /\ OnlyRootIsRoot

\* As long as no two commands worked on the same name, none wrote a file that
\* another had read and was about to write, and no write was refused, commands
\* may overlap in any other way: whenever none runs, each file holds exactly
\* the accounts the commands should have left.
AccountsAgree ==
  clean /\ (\A s \in Sessions : ~Busy(s)) =>
    /\ NamesIn(passwd) = meant["passwd"]
    /\ shadow = meant["shadow"]

=============================================================================
