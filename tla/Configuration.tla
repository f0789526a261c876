--------------------------- MODULE Configuration ---------------------------
(***************************************************************************)
(* Scoped configuration, secrets and what a release is pinned with         *)
(* (deploy/src/config.rs, secrets.rs, envvars.rs, release.rs; deploy-cli/  *)
(* src/config_cmds.rs; deploy-keychain).  Definitions, saved versions,     *)
(* snapshots and pins are records of the journal; a secret's value is an   *)
(* item of the Keychain, which every runtime directory of the user shares. *)
(*                                                                         *)
(* One process at a time holds the journal, and may die or fail at any of  *)
(* its steps.  Nobody edits the Keychain's items by hand.                  *)
(***************************************************************************)
EXTENDS Naturals, FiniteSets

CONSTANTS
    Name,          \* names of variables
    Scope,         \* the scopes definitions are made at, a subset of AllScopes
    Project, Env,  \* what --project and --environment may be given as
    Given,         \* the names that --env and --build-arg are given for, per deployment
    Flags,         \* the flags of definitions: what each variable reaches
    Dep,           \* deployments, numbered
    MAX_ENTRIES,   \* of a resolved set
    MAX_VARIABLES, \* of a release's environment
    MaxSkip,       \* versions a save may skip (8)
    Simulated,     \* the runtime is a simulated one
    MaxSaves,      \* bound: items put
    MaxDefs        \* bound: definitions written

None == "none"
AllScopes == [level : {"global", "project", "app"}, env : Env \union {None}]
NoDep == 0

ASSUME ConfigurationAssumption ==
    /\ Scope \subseteq AllScopes /\ Given \in [Dep -> [cli : SUBSET Name, args : SUBSET Name]]
    /\ Flags \subseteq (SUBSET {"build", "runtime"}) \ {{}}
    /\ None \notin Env /\ Dep \subseteq Nat \ {NoDep}
    /\ {MAX_ENTRIES, MAX_VARIABLES, MaxSkip, MaxSaves, MaxDefs} \subseteq Nat
    /\ Simulated \in BOOLEAN

VARIABLES
    defs,      \* the current definition of each scope and name
    versions,  \* the highest saved version of each secret id
    snaps,     \* the configuration snapshot of each deployment
    pins,      \* what each release is pinned with
    serving,   \* the deployment of the serving release
    keychain,  \* the items, each with the number of the save it holds
    p,         \* the process that holds the journal
    runs,      \* history: the secret values each release's containers got
    saves, writes   \* bounds

configVars == <<defs, versions, snaps, pins, serving, keychain, p, runs, saves, writes>>
journal == <<defs, versions, snaps, pins, serving>>

\* Ids of secrets: a variable at a scope, or the credential of a repository.
Repo == [level |-> "repo", env |-> None]
SecretId == [scope : Scope, name : Name] \union {[scope |-> Repo, name |-> None]}
Ref(id, v) == [id |-> id, version |-> v]

NoDef == [what |-> "none", flags |-> {}, version |-> 0]
Unset == [NoDef EXCEPT !.what = "unset"]
Config(flags) == [what |-> "config", flags |-> flags, version |-> 0]
Secret(flags, v) == [what |-> "secret", flags |-> flags, version |-> v]
IsSet(d) == d.what \in {"config", "secret"}

NoPin == [env |-> {}, secrets |-> {}, snapshot |-> NoDep, of |-> NoDep]
NoProcess == [at |-> "idle"]

\* A map with one more pair.
With(f, k, v) == [x \in DOMAIN f \union {k} |-> IF x = k THEN v ELSE f[x]]

ConfigInit ==
    /\ defs = [s \in Scope |-> [n \in Name |-> NoDef]]
    /\ versions = [id \in SecretId |-> 0]
    /\ snaps = [d \in {} |-> {}] /\ pins = [d \in {} |-> NoPin] /\ serving = NoDep
    /\ keychain = [r \in {} |-> 0] /\ p = NoProcess /\ runs = {}
    /\ saves = 0 /\ writes = 0

-----------------------------------------------------------------------------
(* Resolution *)

\* The scopes that apply, and how specific each is: the application's over the
\* project's over the global ones, and an environment's over the one of all.
Order(project, env) ==
    {s \in Scope : (s.level = "project" => project # None) /\ s.env \in {None, env}}
Rank(s) == (CASE s.level = "global" -> 0 [] s.level = "project" -> 2 [] OTHER -> 4)
             + (IF s.env = None THEN 0 ELSE 1)

Entry(n, source, d) == [name |-> n, source |-> source, what |-> d.what,
                        flags |-> d.flags, version |-> d.version]

\* The most specific definition of a name; an unset takes away what is inherited.
Decides(s, n, scopes) == \A t \in scopes : Rank(t) > Rank(s) => defs[t][n] = NoDef
Resolve(project, env) ==
    LET scopes == Order(project, env) IN
    {Entry(x[2], x[1], defs[x[1]][x[2]]) : x \in {x \in scopes \X Name :
        IsSet(defs[x[1]][x[2]]) /\ Decides(x[1], x[2], scopes)}}

CommandLine == [level |-> "cli", env |-> None]

\* Values of the command line replace a name altogether.
WithCommand(entries, names, flag) ==
    {e \in entries : e.name \notin names}
       \union {Entry(n, CommandLine, Config({flag})) : n \in names}

ValidateEntries(entries) == Cardinality(entries) <= MAX_ENTRIES

Picked(entries, what, flag) == {e \in entries : e.what = what /\ flag \in e.flags}
SecretOf(e) == Ref([scope |-> e.source, name |-> e.name], e.version)
RefsOf(entries) == {SecretOf(e) : e \in {e \in entries : e.what = "secret"}}

-----------------------------------------------------------------------------
(* Definitions *)

Define(s, n, d) == defs' = [defs EXCEPT ![s][n] = d]

CanWrite == p = NoProcess /\ writes < MaxDefs

ConfigSet ==
    /\ CanWrite /\ writes' = writes + 1
    /\ \E s \in Scope, n \in Name, f \in Flags : Define(s, n, Config(f))
    /\ UNCHANGED <<versions, snaps, pins, serving, keychain, p, runs, saves>>

ConfigUnset ==
    /\ CanWrite /\ writes' = writes + 1
    /\ \E s \in Scope, n \in Name : Define(s, n, Unset)
    /\ UNCHANGED <<versions, snaps, pins, serving, keychain, p, runs, saves>>

-----------------------------------------------------------------------------
(* secret-set and repo-secret: the item, then its version, then its name *)

NextVersion(id) == versions[id] + 1

\* The Keychain.  An item is added once; a version that exists is an error.
Duplicate(r) == r \in DOMAIN keychain
AddItem(r, value) == ~Duplicate(r) /\ keychain' = With(keychain, r, value)
DeleteItem(r) == keychain' = [x \in DOMAIN keychain \ {r} |-> keychain[x]]
CopyItem(r) == keychain[r]

\* The value comes from standard input; the journal is opened after it is read.
BeginSave(id, f) ==
    p' = [at |-> "put", id |-> id, flags |-> f, version |-> NextVersion(id),
          last |-> NextVersion(id) + MaxSkip]

SecretSet ==
    /\ CanWrite /\ writes' = writes + 1
    /\ \E s \in Scope, n \in Name, f \in Flags : BeginSave([scope |-> s, name |-> n], f)
    /\ UNCHANGED <<journal, keychain, runs, saves>>

\* A credential or a webhook secret: the version is the reference.
RepoSecret ==
    /\ CanWrite /\ writes' = writes + 1 /\ BeginSave([scope |-> Repo, name |-> None], {})
    /\ UNCHANGED <<journal, keychain, runs, saves>>

\* (mutant) the Keychain's answer is not looked at
PutUnchecked ==
    /\ p.at = "put" /\ saves < MaxSaves
    /\ \/ /\ saves' = saves + 1
          /\ keychain' = With(keychain, Ref(p.id, p.version), saves')
          /\ p' = [p EXCEPT !.at = "saved"]
       \/ p' = [p EXCEPT !.at = "saved"] /\ UNCHANGED <<keychain, saves>>
    /\ UNCHANGED <<journal, runs, writes>>

\* A version is never overwritten: one that exists is skipped.
Put ==
    /\ p.at = "put" /\ saves < MaxSaves
    /\ IF Duplicate(Ref(p.id, p.version))
       THEN /\ p' = IF p.version < p.last THEN [p EXCEPT !.version = @ + 1] ELSE NoProcess
            /\ UNCHANGED <<keychain, saves>>
       ELSE \/ /\ saves' = saves + 1 /\ AddItem(Ref(p.id, p.version), saves')
               /\ p' = [p EXCEPT !.at = "saved"]
            \* the Keychain is locked or refuses
            \/ p' = NoProcess /\ UNCHANGED <<keychain, saves>>
    /\ UNCHANGED <<journal, runs, writes>>

SecretSaved ==
    /\ p.at = "saved"
    /\ \/ /\ versions' = [versions EXCEPT ![p.id] = p.version]
          /\ p' = IF p.id.scope = Repo THEN NoProcess ELSE [p EXCEPT !.at = "define"]
       \/ p' = [p EXCEPT !.at = "undo"] /\ UNCHANGED versions
    /\ UNCHANGED <<defs, snaps, pins, serving, keychain, runs, saves, writes>>

SecretDefined ==
    /\ p.at = "define"
    /\ \/ Define(p.id.scope, p.id.name, Secret(p.flags, p.version)) /\ p' = NoProcess
       \/ p' = [p EXCEPT !.at = "undo"] /\ UNCHANGED defs
    /\ UNCHANGED <<versions, snaps, pins, serving, keychain, runs, saves, writes>>

\* The item of a save that could not be recorded; a failure is ignored.
Undo ==
    /\ p.at = "undo" /\ p' = NoProcess
    /\ DeleteItem(Ref(p.id, p.version)) \/ UNCHANGED keychain
    /\ UNCHANGED <<journal, runs, saves, writes>>

-----------------------------------------------------------------------------
(* A deployment: resolve and fetch, record the snapshot, plan the pin *)

SecretsOf(d) == IF d = NoDep THEN {} ELSE {s.ref : s \in pins[d].secrets}

\* Every reference, or nothing.
Fetch(refs) == refs \subseteq DOMAIN keychain
Bundle(refs) == [r \in refs |-> CopyItem(r)]

NewDep(d) == d \notin DOMAIN snaps \union DOMAIN pins

Prepare ==
    /\ p = NoProcess
    /\ \E d \in Dep, project \in Project \union {None}, env \in Env \union {None} :
       LET g == Given[d]
           entries == WithCommand(WithCommand(Resolve(project, env), g.cli, "runtime"), g.args, "build")
           needed == RefsOf(entries) \union SecretsOf(serving)
       IN  /\ NewDep(d) /\ \A c \in Dep : c < d => ~NewDep(c)
           /\ ValidateEntries(Resolve(project, env)) /\ ValidateEntries(entries) /\ Fetch(needed)
           /\ p' = [at |-> "snapshot", dep |-> d, entries |-> entries, bundle |-> Bundle(needed)]
    /\ UNCHANGED <<journal, keychain, runs, saves, writes>>

RecordSnapshot ==
    /\ p.at = "snapshot"
    /\ \/ /\ snaps' = With(snaps, p.dep, p.entries)
          /\ p' = [p EXCEPT !.at = "plan"]
       \/ p' = NoProcess /\ UNCHANGED snaps
    /\ UNCHANGED <<defs, versions, pins, serving, keychain, runs, saves, writes>>

\* Only a run that used more than --env is pinned with its snapshot.
Extended(entries) ==
    \E e \in entries : e.source # CommandLine \/ "build" \in e.flags \/ e.what = "secret"

PinOf(d, entries) ==
    [env |-> {e.name : e \in Picked(entries, "config", "runtime")},
     secrets |-> {[name |-> e.name, ref |-> SecretOf(e)] : e \in Picked(entries, "secret", "runtime")},
     snapshot |-> IF Extended(entries) THEN d ELSE NoDep,
     of |-> d]

\* The text a pin is kept as, and when its reader takes it.
Encode(pin) ==
    [pin |-> pin,
     v |-> IF pin.secrets = {} /\ pin.snapshot = NoDep
           THEN IF pin.env = {} THEN "v1" ELSE "v2" ELSE "v3"]
Validate(env) == Cardinality(env) <= MAX_VARIABLES
Decodes(text) ==
    LET pin == text.pin IN
    /\ text.v = "v1" \/ Validate(pin.env)
    /\ text.v = "v2" => pin.env # {}
    /\ text.v = "v3" =>
         /\ \A a, b \in pin.secrets : a.name = b.name => a = b
         /\ \A a \in pin.secrets : a.name \notin pin.env
         /\ pin.secrets # {} \/ pin.snapshot # NoDep

\* (mutant) the environment is checked against the resolved set's limit only
PlanAcceptsAny(pin) == TRUE

\* The Docker backend checks the environment as a pin's reader will; the
\* simulated one does not.
PlanAccepts(pin) == Simulated \/ Validate(pin.env)

\* (mutant) the newest version is looked up
ValuesNow(pin) ==
    {[name |-> s.name, value |-> LET now == Ref(s.ref.id, versions[s.ref.id])
                                 IN  CopyItem(IF now \in DOMAIN keychain THEN now ELSE s.ref)] :
        s \in pin.secrets}

\* What the container gets: the pinned references, looked up in the bundle.
Values(pin) == {[name |-> s.name, value |-> p.bundle[s.ref]] : s \in pin.secrets}
Ran(pin) == [release |-> pin.of, values |-> Values(pin)]

\* The release is pinned and starts; or the cutover fails after it was pinned
\* and the serving release is recreated from its own pin.
Serve(d, pin) ==
    /\ pins' = With(pins, d, pin)
    /\ \/ serving' = d /\ runs' = runs \union {Ran(pin)}
       \/ /\ serving # NoDep /\ UNCHANGED serving
          /\ runs' = runs \union {Ran(pin), Ran(pins[serving])}

Plan ==
    /\ p.at = "plan" /\ p' = NoProcess
    /\ LET pin == PinOf(p.dep, p.entries)
       IN  \/ PlanAccepts(pin) /\ Serve(p.dep, pin)
           \* refused, or the build failed
           \/ UNCHANGED <<pins, serving, runs>>
    /\ UNCHANGED <<defs, versions, snaps, keychain, saves, writes>>

-----------------------------------------------------------------------------
(* rollback and restore use pinned versions *)

Needed(target) == SecretsOf(target) \union SecretsOf(serving)

RollbackBegin ==
    /\ p = NoProcess /\ serving # NoDep
    /\ \E d \in Dep, target \in DOMAIN pins :
          /\ NewDep(d) /\ \A c \in Dep : c < d => ~NewDep(c)
          /\ target # serving /\ Fetch(Needed(target))
          /\ p' = [at |-> "rollback", dep |-> d, target |-> target, bundle |-> Bundle(Needed(target))]
    /\ UNCHANGED <<journal, keychain, runs, saves, writes>>

Rollback ==
    /\ p.at = "rollback" /\ p' = NoProcess
    /\ \/ Serve(p.dep, pins[p.target]) \/ UNCHANGED <<pins, serving, runs>>
    /\ UNCHANGED <<defs, versions, snaps, keychain, saves, writes>>

\* `restore` after an interrupted cutover: a process of its own.
Restore ==
    /\ p = NoProcess /\ serving # NoDep /\ Fetch(SecretsOf(serving))
    /\ runs' = runs \union {[release |-> pins[serving].of,
                             values |-> {[name |-> s.name, value |-> CopyItem(s.ref)] : s \in pins[serving].secrets}]}
    /\ UNCHANGED <<journal, keychain, p, saves, writes>>

-----------------------------------------------------------------------------
(* Around it *)

Crash == p # NoProcess /\ p' = NoProcess /\ UNCHANGED <<journal, keychain, runs, saves, writes>>

\* Another runtime directory saves a secret of the same id: ids name the
\* scope and the variable, not the directory.  An application's id is random.
OtherRuntimeSaves ==
    /\ saves < MaxSaves /\ saves' = saves + 1
    /\ \E id \in SecretId, v \in 1 .. MaxSaves :
          /\ id.scope.level # "app" /\ \A u \in 1 .. v - 1 : Duplicate(Ref(id, u))
          /\ AddItem(Ref(id, v), saves')
    /\ UNCHANGED <<journal, p, runs, writes>>

ConfigNext ==
    \/ ConfigSet \/ ConfigUnset
    \/ SecretSet \/ RepoSecret \/ Put \/ SecretSaved \/ SecretDefined \/ Undo
    \/ Prepare \/ RecordSnapshot \/ Plan
    \/ RollbackBegin \/ Rollback \/ Restore
    \/ Crash \/ OtherRuntimeSaves

-----------------------------------------------------------------------------
(* Properties *)

CheckSaved(r) == r.version <= versions[r.id]

\* Every reference a definition, a snapshot or a pin holds.
Recorded ==
    {Ref([scope |-> x[1], name |-> x[2]], defs[x[1]][x[2]].version) :
        x \in {x \in Scope \X Name : defs[x[1]][x[2]].what = "secret"}}
    \union (UNION {RefsOf(snaps[d]) : d \in DOMAIN snaps})
    \union (UNION {SecretsOf(d) : d \in DOMAIN pins})

\* The journal can be replayed: every secret a record names was saved under
\* that version or an earlier one, every snapshot a pin names is recorded, and
\* every pin can be decoded, although more variables may be resolved than a
\* pin may hold (config.rs: apply, check_saved, check_pins; release.rs: decode).
PinsReadable ==
    /\ \A d \in DOMAIN pins :
          /\ Decodes(Encode(pins[d]))
          /\ pins[d].snapshot # NoDep => pins[d].snapshot \in DOMAIN snaps
    /\ \A r \in Recorded : CheckSaved(r)

\* Every secret that a definition, a snapshot, a pin or a repository refers to
\* is in the Keychain, through failed and interrupted saves and the undoing of
\* them ("no record ever names an item that was not saved", config_cmds.rs:
\* secret_set).
NamedIsThere ==
    /\ Recorded \subseteq DOMAIN keychain
    /\ \A id \in SecretId : id.scope = Repo /\ versions[id] > 0 => Ref(id, versions[id]) \in DOMAIN keychain

\* Whenever a release runs, as first deployed, restored after a failed cutover,
\* restored by a person or rolled back to, its secrets have the values it was
\* first given, whatever was rotated, unset or saved by another runtime in
\* between (backend.rs: effective_secrets; commands.rs: rollback, restore).
SameValues == \A a, b \in runs : a.release = b.release => a.values = b.values

=============================================================================
