------------------------- MODULE FoundationsProofs -------------------------
(***************************************************************************)
(* Theorems about what a deployment rests on: its configuration and        *)
(* secrets, the image it runs and the store of its records, for every set  *)
(* of names, scopes, deployments and texts, and every bound.               *)
(***************************************************************************)
EXTENDS Foundations, SequenceTheorems, FiniteSetTheorems, WellFoundedInduction,
        TLAPS

-----------------------------------------------------------------------------
(* Each part moves on its own *)

LEMMA PartsMove ==
    /\ FoundationsInit => StoreInit /\ ConfigInit /\ BuildInit /\ Init
    /\ [FoundationsNext]_foundationVars =>
          [StoreNext]_storeVars /\ [ConfigNext]_configVars /\ [BuildNext]_buildVars /\ [Next]_vars
BY DEF FoundationsInit, FoundationsNext, foundationVars

-----------------------------------------------------------------------------
(* Configuration: what its variables hold *)

Definition == [what : {"none", "unset", "config", "secret"},
               flags : SUBSET {"build", "runtime"}, version : Nat]
Resolved == [name : Name, source : Scope \union {CommandLine}, what : {"config", "secret"},
             flags : SUBSET {"build", "runtime"}, version : Nat]
Item == [id : SecretId, version : Nat]
PinRec == [env : SUBSET Name, secrets : SUBSET [name : Name, ref : Item],
           snapshot : Dep \union {NoDep}, of : Dep]

\* The process that holds the journal: it saves a secret, prepares a deployment
\* or rolls back.
Saving == [at : {"put", "saved", "define", "undo"}, id : SecretId,
           flags : SUBSET {"build", "runtime"}, version : Nat \ {0}, last : Nat]
Preparing(b) == [at : {"snapshot", "plan"}, dep : Dep, entries : SUBSET Resolved, bundle : {b}]
RollingBack(b) == [at : {"rollback"}, dep : Dep, target : DOMAIN pins, bundle : {b}]

ProcessTyped ==
    \/ p = NoProcess \/ p \in Saving
    \/ p \in Preparing(p.bundle) \/ p \in RollingBack(p.bundle)

ConfigTyped ==
    /\ defs \in [Scope -> [Name -> Definition]]
    /\ versions \in [SecretId -> Nat]
    /\ DOMAIN snaps \subseteq Dep /\ \A d \in DOMAIN snaps : snaps[d] \subseteq Resolved
    /\ DOMAIN pins \subseteq Dep /\ \A d \in DOMAIN pins : pins[d] \in PinRec
    /\ serving \in DOMAIN pins \union {NoDep}
    /\ DOMAIN keychain \subseteq Item
    /\ ProcessTyped

\* Nothing is named twice.
NamedOnce(entries) == \A a, b \in entries : a.name = b.name => a = b

\* Every secret of a set of entries, or of a pin, that may be recorded.
SecretsKnown(refs) == \A r \in refs : r \in DOMAIN keychain /\ CheckSaved(r)

\* The version of a repository's secret names an item.
CredentialsKept ==
    \A id \in SecretId : id.scope = Repo /\ versions[id] > 0 => Ref(id, versions[id]) \in DOMAIN keychain

\* What a pin promises: it can be read, it names a snapshot that is recorded,
\* and what it runs is the release it was pinned for.
PinRight(d) ==
    /\ Simulated \/ Decodes(Encode(pins[d]))
    /\ pins[d].snapshot # NoDep => pins[d].snapshot \in DOMAIN snaps
    /\ pins[d].of \in DOMAIN pins /\ pins[pins[d].of] = pins[d]

\* The containers of a release were given what the Keychain has under the
\* references of its pin.
RunRight(r) ==
    /\ r.release \in DOMAIN pins
    /\ r.values = {[name |-> s.name, value |-> keychain[s.ref]] : s \in pins[r.release].secrets}

BundleRight(b, refs) ==
    /\ refs \subseteq DOMAIN b
    /\ \A r \in DOMAIN b : r \in DOMAIN keychain /\ b[r] = keychain[r]

\* Where the process is decides what it can rely on: the item of a save is not
\* named by anything before it is defined, the entries it prepares can be
\* recorded, and what it fetched is what the Keychain has.
ProcessRight ==
    /\ p \in Saving =>
        /\ p.at = "put" => p.version > versions[p.id]
        /\ p.at = "saved" => p.version > versions[p.id] /\ Ref(p.id, p.version) \in DOMAIN keychain
        /\ p.at = "define" => /\ p.version = versions[p.id] /\ Ref(p.id, p.version) \in DOMAIN keychain
                              /\ p.id.scope # Repo /\ Ref(p.id, p.version) \notin Recorded
        /\ p.at = "undo" => /\ Ref(p.id, p.version) \notin Recorded
                            /\ p.id.scope = Repo => p.version > versions[p.id]
    /\ p.at \in {"snapshot", "plan"} =>
        /\ p.dep \notin DOMAIN pins
        /\ p.at = "snapshot" => p.dep \notin DOMAIN snaps
        /\ p.at = "plan" => p.dep \in DOMAIN snaps
        /\ NamedOnce(p.entries) /\ SecretsKnown(RefsOf(p.entries))
        /\ BundleRight(p.bundle, RefsOf(p.entries) \union SecretsOf(serving))
    /\ p.at = "rollback" => p.dep \notin DOMAIN pins /\ BundleRight(p.bundle, Needed(p.target))

ConfigInv ==
    /\ ConfigTyped
    /\ SecretsKnown(Recorded)
    /\ CredentialsKept
    /\ \A d \in DOMAIN pins : PinRight(d)
    /\ \A r \in runs : RunRight(r)
    /\ ProcessRight

-----------------------------------------------------------------------------
(* Configuration: entries and what is resolved *)

\* A map with one more pair.
LEMMA WithFacts ==
    ASSUME NEW k, NEW v, NEW f
    PROVE  /\ DOMAIN With(f, k, v) = DOMAIN f \union {k}
           /\ With(f, k, v)[k] = v
           /\ \A x \in DOMAIN f : x # k => With(f, k, v)[x] = f[x]
BY DEF With

\* A definition under a name is an entry (config.rs: Entry).
LEMMA EntryFields ==
    ASSUME NEW n, NEW sc, NEW d
    PROVE  /\ Entry(n, sc, d).name = n /\ Entry(n, sc, d).source = sc
           /\ Entry(n, sc, d).what = d.what /\ Entry(n, sc, d).flags = d.flags
           /\ Entry(n, sc, d).version = d.version
BY DEF Entry

\* What a scope is in: its level and its environment tell it from any other.
LEMMA ScopeIs ==
    ASSUME NEW s \in Scope
    PROVE  /\ s = [level |-> s.level, env |-> s.env] /\ s.level \in {"global", "project", "app"}
           /\ Rank(s) \in Nat /\ s # CommandLine /\ s # Repo
<1>1. s \in AllScopes
  BY ConfigurationAssumption
<1>2. s = [level |-> s.level, env |-> s.env] /\ s.level \in {"global", "project", "app"}
  BY <1>1 DEF AllScopes
<1>3. Rank(s) \in Nat
  BY <1>2 DEF Rank
<1>4. CommandLine.level = "cli" /\ Repo.level = "repo"
  BY DEF CommandLine, Repo
<1> QED BY <1>2, <1>3, <1>4

\* Of two scopes that apply, one is more specific.
LEMMA OneIsMoreSpecific ==
    ASSUME NEW pr, NEW en, NEW s \in Order(pr, en), NEW t \in Order(pr, en), Rank(s) = Rank(t)
    PROVE  s = t
<1>1. s \in Scope /\ t \in Scope /\ s.env \in {None, en} /\ t.env \in {None, en}
  BY DEF Order
<1>2. /\ s = [level |-> s.level, env |-> s.env] /\ s.level \in {"global", "project", "app"}
      /\ t = [level |-> t.level, env |-> t.env] /\ t.level \in {"global", "project", "app"}
  BY <1>1, ScopeIs
<1>3. s.level = t.level /\ (s.env = None <=> t.env = None)
  BY <1>2 DEF Rank
<1> QED BY <1>1, <1>2, <1>3

\* What is resolved are definitions that are set, one for each name, and its
\* secrets are those of definitions (config.rs: resolve).
LEMMA ResolveIs ==
    ASSUME ConfigTyped, NEW pr, NEW en
    PROVE  /\ Resolve(pr, en) \subseteq Resolved /\ NamedOnce(Resolve(pr, en))
           /\ RefsOf(Resolve(pr, en)) \subseteq Recorded
<1> DEFINE Wins(s, n) == IsSet(defs[s][n]) /\ Decides(s, n, Order(pr, en))
<1>1. ASSUME NEW e \in Resolve(pr, en)
      PROVE  \E s \in Order(pr, en), n \in Name : Wins(s, n) /\ e = Entry(n, s, defs[s][n])
  BY DEF Resolve
<1>2. Order(pr, en) \subseteq Scope
  BY DEF Order
<1>3. ASSUME NEW s \in Scope, NEW n \in Name PROVE defs[s][n] \in Definition
  BY <1>3 DEF ConfigTyped
<1>4. ASSUME NEW s \in Scope, NEW n \in Name, IsSet(defs[s][n])
      PROVE  Entry(n, s, defs[s][n]) \in Resolved
  BY <1>3, <1>4 DEF Entry, Resolved, Definition, IsSet
<1>5. Resolve(pr, en) \subseteq Resolved
  BY <1>1, <1>2, <1>4
<1>6. NamedOnce(Resolve(pr, en))
  <2> SUFFICES ASSUME NEW a \in Resolve(pr, en), NEW b \in Resolve(pr, en), a.name = b.name
               PROVE  a = b
    BY DEF NamedOnce
  <2>1. PICK s \in Order(pr, en), n \in Name : Wins(s, n) /\ a = Entry(n, s, defs[s][n])
    BY <1>1
  <2>2. PICK t \in Order(pr, en), m \in Name : Wins(t, m) /\ b = Entry(m, t, defs[t][m])
    BY <1>1
  <2>3. n = m
    BY <2>1, <2>2, EntryFields
  <2>4. Rank(s) \in Nat /\ Rank(t) \in Nat
    BY <1>2, ScopeIs
  <2>5. ~(Rank(s) > Rank(t)) /\ ~(Rank(t) > Rank(s))
    BY <2>1, <2>2, <2>3 DEF Decides, IsSet, NoDef
  <2>6. s = t
    BY <2>4, <2>5, OneIsMoreSpecific
  <2> QED BY <2>1, <2>2, <2>3, <2>6
<1>7. RefsOf(Resolve(pr, en)) \subseteq Recorded
  <2> SUFFICES ASSUME NEW e \in Resolve(pr, en), e.what = "secret" PROVE SecretOf(e) \in Recorded
    BY DEF RefsOf
  <2>1. PICK s \in Order(pr, en), n \in Name : Wins(s, n) /\ e = Entry(n, s, defs[s][n])
    BY <1>1
  <2>2. s \in Scope /\ defs[s][n].what = "secret"
    BY <1>2, <2>1, EntryFields
  <2>3. SecretOf(e) = Ref([scope |-> s, name |-> n], defs[s][n].version)
    BY <2>1, EntryFields DEF SecretOf
  <2>4. <<s, n>> \in {x \in Scope \X Name : defs[x[1]][x[2]].what = "secret"}
    BY <2>2
  <2>5. SecretOf(e) \in {Ref([scope |-> x[1], name |-> x[2]], defs[x[1]][x[2]].version) :
                           x \in {x \in Scope \X Name : defs[x[1]][x[2]].what = "secret"}}
    BY <2>3, <2>4
  <2> QED BY <2>5 DEF Recorded
<1> QED BY <1>5, <1>6, <1>7

\* Values of the command line replace a name, and name no secret (with_command).
LEMMA WithCommandIs ==
    ASSUME NEW entries, entries \subseteq Resolved, NamedOnce(entries),
           NEW names, names \subseteq Name, NEW flag \in {"build", "runtime"}
    PROVE  /\ WithCommand(entries, names, flag) \subseteq Resolved
           /\ NamedOnce(WithCommand(entries, names, flag))
           /\ RefsOf(WithCommand(entries, names, flag)) \subseteq RefsOf(entries)
<1> DEFINE kept == {e \in entries : e.name \notin names}
           fromCli == {Entry(n, CommandLine, Config({flag})) : n \in names}
<1>1. WithCommand(entries, names, flag) = kept \union fromCli
  BY DEF WithCommand
<1>2. ASSUME NEW n \in names
      PROVE  /\ Entry(n, CommandLine, Config({flag})) \in Resolved
             /\ Entry(n, CommandLine, Config({flag})).name = n
             /\ Entry(n, CommandLine, Config({flag})).what = "config"
  <2>1. n \in Name /\ {flag} \in SUBSET {"build", "runtime"}
    OBVIOUS
  <2> QED BY <2>1 DEF Entry, Config, Resolved
<1>3. \A e \in fromCli : e \in Resolved /\ e.name \in names /\ e.what = "config"
  BY <1>2
<1>4. \A a, b \in fromCli : a.name = b.name => a = b
  BY <1>2
<1> HIDE DEF fromCli
<1>5. NamedOnce(kept \union fromCli)
  BY <1>3, <1>4 DEF NamedOnce
<1>6. RefsOf(kept \union fromCli) \subseteq RefsOf(entries)
  BY <1>3 DEF RefsOf
<1> QED BY <1>1, <1>3, <1>5, <1>6

\* A pin of what was prepared can be read again, if the plan accepts it
\* (apply_to, plan_release, encode, decode).
LEMMA PinIs ==
    ASSUME NEW d \in Dep, NEW entries, entries \subseteq Resolved, NamedOnce(entries),
           SecretsKnown(RefsOf(entries)), DOMAIN keychain \subseteq Item,
           NEW pin, pin = PinOf(d, entries), PlanAccepts(pin)
    PROVE  /\ pin \in PinRec /\ pin.of = d /\ pin.snapshot \in {d, NoDep}
           /\ {s.ref : s \in pin.secrets} \subseteq RefsOf(entries)
           /\ Simulated \/ Decodes(Encode(pin))
<1>1. /\ pin.of = d /\ pin.snapshot \in {d, NoDep}
      /\ pin.env = {e.name : e \in Picked(entries, "config", "runtime")}
      /\ pin.secrets = {[name |-> e.name, ref |-> SecretOf(e)] : e \in Picked(entries, "secret", "runtime")}
  BY DEF PinOf
<1>2. \A e \in entries : e.name \in Name
  BY DEF Resolved
<1>3. \A w_ \in {"config", "secret"} : \A e \in Picked(entries, w_, "runtime") : e \in entries /\ e.what = w_
  BY DEF Picked
<1>4. \A s \in pin.secrets : \E e \in entries : e.what = "secret" /\ s = [name |-> e.name, ref |-> SecretOf(e)]
  BY <1>1, <1>3
<1>5. {s.ref : s \in pin.secrets} \subseteq RefsOf(entries)
  BY <1>4 DEF RefsOf
<1>6. pin \in PinRec
  <2>1. pin.env \subseteq Name
    BY <1>1, <1>2, <1>3
  <2>2. \A s \in pin.secrets : s \in [name : Name, ref : Item]
    BY <1>2, <1>4 DEF SecretsKnown, RefsOf
  <2>3. pin.snapshot \in Dep \union {NoDep}
    BY <1>1
  <2>4. pin = [env |-> pin.env, secrets |-> pin.secrets, snapshot |-> pin.snapshot, of |-> pin.of]
    BY DEF PinOf
  <2> QED BY <1>1, <2>1, <2>2, <2>3, <2>4 DEF PinRec
<1>7. \A a, b \in pin.secrets : a.name = b.name => a = b
  BY <1>4 DEF NamedOnce
<1>8. \A a \in pin.secrets : a.name \notin pin.env
  <2> SUFFICES ASSUME NEW a \in pin.secrets, a.name \in pin.env PROVE FALSE
    OBVIOUS
  <2>1. PICK e \in entries : e.what = "secret" /\ a.name = e.name
    BY <1>4
  <2>2. PICK f \in entries : f.what = "config" /\ a.name = f.name
    BY <1>1, <1>3
  <2> QED BY <2>1, <2>2 DEF NamedOnce
<1>9. Simulated \/ Decodes(Encode(pin))
  BY <1>7, <1>8 DEF PlanAccepts, Decodes, Encode
<1> QED BY <1>1, <1>5, <1>6, <1>9

-----------------------------------------------------------------------------
(* Configuration: what a step must preserve *)

\* Every reference on record was saved, and the Keychain's item does not change;
\* snapshots and pins are only added.
OnlyAdds ==
    /\ \A r \in Recorded : r \in DOMAIN keychain' /\ keychain'[r] = keychain[r]
    /\ \A id \in SecretId : versions'[id] >= versions[id]
    /\ DOMAIN snaps \subseteq DOMAIN snaps'
    /\ \A d \in DOMAIN pins : d \in DOMAIN pins' /\ pins'[d] = pins[d]

\* The three kinds of reference on record, one by one.
DefinedAs(r) == \E s \in Scope, n \in Name :
    defs[s][n].what = "secret" /\ r = Ref([scope |-> s, name |-> n], defs[s][n].version)
InSnapshot(r) == \E d \in DOMAIN snaps : r \in RefsOf(snaps[d])
InPin(r) == \E d \in DOMAIN pins : r \in SecretsOf(d)
OnRecord == \A r : r \in Recorded <=> DefinedAs(r) \/ InSnapshot(r) \/ InPin(r)

LEMMA RecordedIs == OnRecord /\ OnRecord'
<1>1. OnRecord
  <2> DEFINE D == {Ref([scope |-> x[1], name |-> x[2]], defs[x[1]][x[2]].version) :
                     x \in {x \in Scope \X Name : defs[x[1]][x[2]].what = "secret"}}
             S == {RefsOf(snaps[d]) : d \in DOMAIN snaps}
             P == {SecretsOf(d) : d \in DOMAIN pins}
  <2>1. Recorded = D \union (UNION S) \union (UNION P)
    BY DEF Recorded
  <2>2. ASSUME NEW r PROVE r \in D <=> DefinedAs(r)
    <3>1. ASSUME r \in D PROVE DefinedAs(r)
      BY <3>1 DEF DefinedAs
    <3>2. ASSUME NEW s \in Scope, NEW n \in Name, defs[s][n].what = "secret",
                 r = Ref([scope |-> s, name |-> n], defs[s][n].version)
          PROVE  r \in D
      <4>1. <<s, n>> \in {x \in Scope \X Name : defs[x[1]][x[2]].what = "secret"}
        BY <3>2
      <4> QED BY <3>2, <4>1
    <3> QED BY <3>1, <3>2 DEF DefinedAs
  <2>3. \A r : r \in UNION S <=> InSnapshot(r)
    BY DEF InSnapshot
  <2>4. \A r : r \in UNION P <=> InPin(r)
    BY DEF InPin
  <2> HIDE DEF D, S, P
  <2>5. ASSUME NEW r PROVE r \in Recorded <=> DefinedAs(r) \/ InSnapshot(r) \/ InPin(r)
    <3>1. r \in Recorded <=> r \in D \/ r \in UNION S \/ r \in UNION P
      BY <2>1
    <3>2. r \in D <=> DefinedAs(r)
      BY <2>2
    <3>3. r \in UNION S <=> InSnapshot(r)
      BY <2>3
    <3>4. r \in UNION P <=> InPin(r)
      BY <2>4
    <3> QED BY <3>1, <3>2, <3>3, <3>4
  <2> QED BY <2>5 DEF OnRecord
<1> QED BY <1>1, PTL

\* The references of a pin are on record.
LEMMA PinnedIsRecorded ==
    ASSUME ConfigTyped
    PROVE  /\ \A d \in DOMAIN pins : \A s \in pins[d].secrets : s.ref \in Recorded
           /\ \A d \in DOMAIN pins \union {NoDep} : SecretsOf(d) \subseteq Recorded
<1>1. \A d \in DOMAIN pins : d # NoDep
  BY ConfigurationAssumption DEF ConfigTyped
<1>2. ASSUME NEW d \in DOMAIN pins, NEW s \in pins[d].secrets PROVE s.ref \in Recorded
  <2>1. s.ref \in SecretsOf(d)
    BY <1>1 DEF SecretsOf
  <2> QED BY <2>1, RecordedIs DEF OnRecord, InPin
<1>3. ASSUME NEW d \in DOMAIN pins \union {NoDep} PROVE SecretsOf(d) \subseteq Recorded
  BY <1>2 DEF SecretsOf
<1> QED BY <1>2, <1>3

\* Such a step keeps what was on record known, and every pin and every run right.
LEMMA AddingKeeps ==
    ASSUME ConfigInv, OnlyAdds, versions' \in [SecretId -> Nat]
    PROVE  /\ \A r \in Recorded : r \in DOMAIN keychain' /\ r.version <= versions'[r.id]
           /\ \A d \in DOMAIN pins : PinRight(d)'
           /\ \A r \in runs : RunRight(r)'
<1> USE DEF ConfigInv
<1>1. ASSUME NEW r \in Recorded PROVE r \in DOMAIN keychain' /\ r.version <= versions'[r.id]
  <2>1. r \in DOMAIN keychain /\ r.version <= versions[r.id]
    BY DEF SecretsKnown, CheckSaved
  <2>2. r.id \in SecretId /\ r.version \in Nat
    BY <2>1 DEF ConfigTyped, Item
  <2>3. versions[r.id] \in Nat /\ versions'[r.id] \in Nat /\ versions'[r.id] >= versions[r.id]
    BY <2>2 DEF ConfigTyped, OnlyAdds
  <2> QED BY <2>1, <2>2, <2>3 DEF OnlyAdds
<1>2. ASSUME NEW d \in DOMAIN pins PROVE PinRight(d)'
  <2>1. PinRight(d)
    OBVIOUS
  <2>2. pins'[d] = pins[d] /\ DOMAIN snaps \subseteq DOMAIN snaps'
    BY DEF OnlyAdds
  <2>3. pins[d].of \in DOMAIN pins /\ pins[pins[d].of] = pins[d]
    BY <2>1 DEF PinRight
  <2>4. pins[d].of \in DOMAIN pins' /\ pins'[pins[d].of] = pins[d]
    BY <2>3 DEF OnlyAdds
  <2> QED BY <2>1, <2>2, <2>4 DEF PinRight
<1>3. ASSUME NEW r \in runs PROVE RunRight(r)'
  <2>1. /\ r.release \in DOMAIN pins
        /\ r.values = {[name |-> s.name, value |-> keychain[s.ref]] : s \in pins[r.release].secrets}
    BY DEF RunRight
  <2>2. r.release \in DOMAIN pins' /\ pins'[r.release] = pins[r.release]
    BY <2>1 DEF OnlyAdds
  <2>3. \A s \in pins[r.release].secrets : keychain'[s.ref] = keychain[s.ref]
    BY <2>1, PinnedIsRecorded DEF OnlyAdds
  <2>4. {[name |-> s.name, value |-> keychain'[s.ref]] : s \in pins[r.release].secrets}
          = {[name |-> s.name, value |-> keychain[s.ref]] : s \in pins[r.release].secrets}
    BY <2>3
  <2> QED BY <2>1, <2>2, <2>4 DEF RunRight
<1> QED BY <1>1, <1>2, <1>3

\* What a definition, a snapshot or a pin adds to the references on record.
LEMMA DefinitionRecords ==
    ASSUME ConfigTyped, NEW s \in Scope, NEW n \in Name, NEW d,
           Define(s, n, d), UNCHANGED <<snaps, pins>>
    PROVE  \A r \in Recorded' : \/ r \in Recorded
                                \/ d.what = "secret" /\ r = Ref([scope |-> s, name |-> n], d.version)
<1> SUFFICES ASSUME NEW r \in Recorded'
             PROVE  \/ r \in Recorded
                    \/ d.what = "secret" /\ r = Ref([scope |-> s, name |-> n], d.version)
  OBVIOUS
<1>1. /\ defs \in [Scope -> [Name -> Definition]]
      /\ defs' = [defs EXCEPT ![s] = [defs[s] EXCEPT ![n] = d]]
  BY DEF Define, ConfigTyped
<1>2. \A t \in Scope, m \in Name : defs'[t][m] = IF t = s /\ m = n THEN d ELSE defs[t][m]
  BY <1>1
<1>3. DefinedAs(r)' \/ InSnapshot(r)' \/ InPin(r)'
  BY RecordedIs DEF OnRecord
<1>4. CASE DefinedAs(r)'
  <2>1. PICK t \in Scope, m \in Name : defs'[t][m].what = "secret"
                                       /\ r = Ref([scope |-> t, name |-> m], defs'[t][m].version)
    BY <1>4 DEF DefinedAs
  <2>2. CASE t = s /\ m = n
    BY <1>2, <2>1, <2>2
  <2>3. CASE ~(t = s /\ m = n)
    BY <1>2, <2>1, <2>3, RecordedIs DEF OnRecord, DefinedAs
  <2> QED BY <2>2, <2>3
<1>5. CASE InSnapshot(r)'
  BY <1>5, RecordedIs DEF OnRecord, InSnapshot
<1>6. CASE InPin(r)'
  BY <1>6, RecordedIs DEF OnRecord, InPin, SecretsOf
<1> QED BY <1>3, <1>4, <1>5, <1>6

LEMMA SnapshotRecords ==
    ASSUME NEW k, NEW entries, snaps' = With(snaps, k, entries), UNCHANGED <<defs, pins>>
    PROVE  Recorded' \subseteq Recorded \union RefsOf(entries)
<1> SUFFICES ASSUME NEW r \in Recorded' PROVE r \in Recorded \union RefsOf(entries)
  OBVIOUS
<1>1. DefinedAs(r)' \/ InSnapshot(r)' \/ InPin(r)'
  BY RecordedIs DEF OnRecord
<1>2. CASE DefinedAs(r)'
  BY <1>2, RecordedIs DEF OnRecord, DefinedAs
<1>3. CASE InSnapshot(r)'
  <2>1. PICK x \in DOMAIN snaps' : r \in RefsOf(snaps'[x])
    BY <1>3 DEF InSnapshot
  <2>2. /\ DOMAIN snaps' = DOMAIN snaps \union {k} /\ snaps'[k] = entries
        /\ \A y \in DOMAIN snaps : y # k => snaps'[y] = snaps[y]
    BY DEF With
  <2>3. CASE x = k
    BY <2>1, <2>2, <2>3
  <2>4. CASE x # k
    <3>1. x \in DOMAIN snaps /\ r \in RefsOf(snaps[x])
      BY <2>1, <2>2, <2>4
    <3> QED BY <3>1, RecordedIs DEF OnRecord, InSnapshot
  <2> QED BY <2>3, <2>4
<1>4. CASE InPin(r)'
  BY <1>4, RecordedIs DEF OnRecord, InPin, SecretsOf
<1> QED BY <1>1, <1>2, <1>3, <1>4

LEMMA PinRecords ==
    ASSUME ConfigTyped, NEW k \in Dep, NEW pin, pins' = With(pins, k, pin), UNCHANGED <<defs, snaps>>
    PROVE  Recorded' \subseteq Recorded \union {s.ref : s \in pin.secrets}
<1> SUFFICES ASSUME NEW r \in Recorded' PROVE r \in Recorded \union {s.ref : s \in pin.secrets}
  OBVIOUS
<1>0. k # NoDep /\ \A x \in DOMAIN pins : x # NoDep
  BY ConfigurationAssumption DEF ConfigTyped
<1>1. DefinedAs(r)' \/ InSnapshot(r)' \/ InPin(r)'
  BY RecordedIs DEF OnRecord
<1>2. CASE DefinedAs(r)'
  BY <1>2, RecordedIs DEF OnRecord, DefinedAs
<1>3. CASE InSnapshot(r)'
  BY <1>3, RecordedIs DEF OnRecord, InSnapshot
<1>4. CASE InPin(r)'
  <2>1. PICK x \in DOMAIN pins' : r \in SecretsOf(x)'
    BY <1>4 DEF InPin
  <2>2. /\ DOMAIN pins' = DOMAIN pins \union {k} /\ pins'[k] = pin
        /\ \A y \in DOMAIN pins : y # k => pins'[y] = pins[y]
    BY DEF With
  <2>3. x # NoDep
    BY <1>0, <2>1, <2>2
  <2>4. r \in {s.ref : s \in pins'[x].secrets}
    BY <2>1, <2>3 DEF SecretsOf
  <2>5. CASE x = k
    BY <2>2, <2>4, <2>5
  <2>6. CASE x # k
    <3>1. x \in DOMAIN pins /\ r \in SecretsOf(x)
      BY <2>1, <2>2, <2>3, <2>4, <2>6 DEF SecretsOf
    <3> QED BY <3>1, RecordedIs DEF OnRecord, InPin
  <2> QED BY <2>5, <2>6
<1> QED BY <1>1, <1>2, <1>3, <1>4

\* Nothing else adds one.
LEMMA NothingRecords ==
    ASSUME UNCHANGED <<defs, snaps, pins>>
    PROVE  Recorded' = Recorded
BY DEF Recorded, RefsOf, SecretsOf

\* The process has ended, or given up.
LEMMA NoProcessIs == NoProcess.at = "idle" /\ NoProcess \notin Saving
BY DEF NoProcess, Saving

\* What is left to show of a step that ends the process and adds.
LEMMA EndsRight ==
    ASSUME p' = NoProcess
    PROVE  ProcessRight'
BY NoProcessIs DEF ProcessRight

\* The process is in one of its four activities, and `at` says which.
LEMMA ProcessIs ==
    ASSUME ProcessTyped
    PROVE  /\ p = NoProcess <=> p.at = "idle"
           /\ p \in Saving <=> p.at \in {"put", "saved", "define", "undo"}
           /\ p.at \in {"snapshot", "plan"} <=> p \in Preparing(p.bundle)
           /\ p.at = "rollback" <=> p \in RollingBack(p.bundle)
BY DEF ProcessTyped, NoProcess, Saving, Preparing, RollingBack

LEMMA SavingMoves ==
    ASSUME p \in Saving, NEW a \in {"put", "saved", "define", "undo"}, NEW v \in Nat \ {0}
    PROVE  /\ [p EXCEPT !.at = a] \in Saving
           /\ [p EXCEPT !.at = a].at = a /\ [p EXCEPT !.at = a].id = p.id
           /\ [p EXCEPT !.at = a].version = p.version
           /\ [p EXCEPT !.version = v] \in Saving
           /\ [p EXCEPT !.version = v].at = p.at /\ [p EXCEPT !.version = v].id = p.id
           /\ [p EXCEPT !.version = v].version = v
<1>1. p = [at |-> p.at, id |-> p.id, flags |-> p.flags, version |-> p.version, last |-> p.last]
  BY DEF Saving
<1> QED BY <1>1 DEF Saving

-----------------------------------------------------------------------------
(* Configuration: each step *)

\* Only the process moves.
LEMMA ProcessMoves ==
    ASSUME ConfigInv, UNCHANGED <<defs, versions, snaps, pins, serving, keychain, runs>>,
           ProcessTyped', ProcessRight'
    PROVE  ConfigInv'
<1> USE DEF ConfigInv
<1>1. ConfigTyped'
  BY DEF ConfigTyped
<1>2. OnlyAdds
  <2>1. \A r \in Recorded : r \in DOMAIN keychain
    BY DEF SecretsKnown
  <2>2. \A id \in SecretId : versions[id] \in Nat
    BY DEF ConfigTyped
  <2> QED BY <2>1, <2>2 DEF OnlyAdds
<1>3. Recorded' = Recorded
  BY NothingRecords
<1>4. /\ \A r \in Recorded : r \in DOMAIN keychain' /\ r.version <= versions'[r.id]
      /\ \A d \in DOMAIN pins : PinRight(d)'
      /\ \A r \in runs : RunRight(r)'
  BY <1>1, <1>2, AddingKeeps DEF ConfigTyped
<1>5. SecretsKnown(Recorded)'
  BY <1>3, <1>4 DEF SecretsKnown, CheckSaved
<1>6. CredentialsKept'
  BY DEF CredentialsKept
<1> QED BY <1>1, <1>4, <1>5, <1>6

\* The process ends, and a definition changes: one that names a secret names one
\* that is saved (config_cmds.rs: set, unset, secret_set).
LEMMA DefinesRight ==
    ASSUME ConfigInv, NEW s \in Scope, NEW n \in Name, NEW d \in Definition,
           Define(s, n, d), p' = NoProcess,
           UNCHANGED <<versions, snaps, pins, serving, keychain, runs>>,
           d.what = "secret" => LET r == Ref([scope |-> s, name |-> n], d.version)
                                IN  r \in DOMAIN keychain /\ CheckSaved(r)
    PROVE  ConfigInv'
<1> USE DEF ConfigInv
<1>1. ConfigTyped'
  <2>1. defs' \in [Scope -> [Name -> Definition]]
    BY DEF Define, ConfigTyped
  <2> QED BY <2>1 DEF ConfigTyped, ProcessTyped
<1>2. OnlyAdds
  <2>1. \A r \in Recorded : r \in DOMAIN keychain
    BY DEF SecretsKnown
  <2>2. \A id \in SecretId : versions[id] \in Nat
    BY DEF ConfigTyped
  <2> QED BY <2>1, <2>2 DEF OnlyAdds
<1>3. /\ \A r \in Recorded : r \in DOMAIN keychain' /\ r.version <= versions'[r.id]
      /\ \A e \in DOMAIN pins : PinRight(e)'
      /\ \A r \in runs : RunRight(r)'
  BY <1>1, <1>2, AddingKeeps DEF ConfigTyped
<1>4. SecretsKnown(Recorded)'
  <2>1. \A r \in Recorded' : \/ r \in Recorded
                             \/ d.what = "secret" /\ r = Ref([scope |-> s, name |-> n], d.version)
    BY DefinitionRecords
  <2> QED BY <1>3, <2>1 DEF SecretsKnown, CheckSaved
<1>5. CredentialsKept'
  BY DEF CredentialsKept
<1> QED BY <1>1, <1>3, <1>4, <1>5, EndsRight

LEMMA Defines ==
    ASSUME ConfigInv, ConfigSet \/ ConfigUnset
    PROVE  ConfigInv'
<1>1. p' = NoProcess /\ UNCHANGED <<versions, snaps, pins, serving, keychain, runs>>
  BY DEF ConfigSet, ConfigUnset, CanWrite
<1>2. CASE ConfigSet
  <2>1. PICK s \in Scope, n \in Name, f \in Flags : Define(s, n, Config(f))
    BY <1>2 DEF ConfigSet
  <2>2. Config(f) \in Definition /\ Config(f).what = "config"
    BY ConfigurationAssumption DEF Config, Definition
  <2> QED BY <1>1, <2>1, <2>2, DefinesRight
<1>3. CASE ConfigUnset
  <2>1. PICK s \in Scope, n \in Name : Define(s, n, Unset)
    BY <1>3 DEF ConfigUnset
  <2>2. Unset \in Definition /\ Unset.what = "unset"
    BY DEF Unset, NoDef, Definition
  <2> QED BY <1>1, <2>1, <2>2, DefinesRight
<1> QED BY <1>2, <1>3

\* A save begins after the highest saved version (next_version, secret_set, repo_secret).
LEMMA BeginsSave ==
    ASSUME ConfigInv, SecretSet \/ RepoSecret
    PROVE  ConfigInv'
<1> USE DEF ConfigInv
<1>1. \E id \in SecretId, f \in SUBSET {"build", "runtime"} : BeginSave(id, f)
  <2>1. CASE SecretSet
    <3>1. PICK s \in Scope, n \in Name, f \in Flags : BeginSave([scope |-> s, name |-> n], f)
      BY <2>1 DEF SecretSet
    <3>2. [scope |-> s, name |-> n] \in SecretId /\ f \in SUBSET {"build", "runtime"}
      BY ConfigurationAssumption DEF SecretId
    <3> QED BY <3>1, <3>2
  <2>2. CASE RepoSecret
    <3>1. BeginSave([scope |-> Repo, name |-> None], {})
      BY <2>2 DEF RepoSecret
    <3>2. [scope |-> Repo, name |-> None] \in SecretId
      BY DEF SecretId
    <3> QED BY <3>1, <3>2
  <2> QED BY <2>1, <2>2
<1>2. PICK id \in SecretId, f \in SUBSET {"build", "runtime"} : BeginSave(id, f)
  BY <1>1
<1>3. versions[id] \in Nat /\ MaxSkip \in Nat
  BY ConfigurationAssumption DEF ConfigTyped
<1>4. /\ p' \in Saving /\ p'.at = "put" /\ p'.id = id /\ p'.version = versions[id] + 1
  BY <1>2, <1>3 DEF BeginSave, NextVersion, Saving
<1>5. UNCHANGED <<defs, versions, snaps, pins, serving, keychain, runs>>
  BY DEF SecretSet, RepoSecret, journal
<1>6. ProcessRight'
  BY <1>3, <1>4, <1>5 DEF ProcessRight
<1> QED BY <1>4, <1>5, <1>6, ProcessMoves DEF ProcessTyped

\* An item is added under a version that has none.
LEMMA ItemAdded ==
    ASSUME ConfigInv, NEW r \in Item, r \notin DOMAIN keychain, NEW v, keychain' = With(keychain, r, v),
           UNCHANGED <<defs, versions, snaps, pins, serving, runs>>, ProcessTyped'
    PROVE  /\ DOMAIN keychain' = DOMAIN keychain \union {r}
           /\ \A x \in DOMAIN keychain : keychain'[x] = keychain[x]
           /\ Recorded' = Recorded
           /\ ProcessRight' => ConfigInv'
<1> USE DEF ConfigInv
<1>1. DOMAIN keychain' = DOMAIN keychain \union {r} /\ \A x \in DOMAIN keychain : keychain'[x] = keychain[x]
  BY DEF With
<1>2. ConfigTyped'
  BY <1>1 DEF ConfigTyped
<1>3. OnlyAdds
  <2>1. \A x \in Recorded : x \in DOMAIN keychain
    BY DEF SecretsKnown
  <2>2. \A id \in SecretId : versions[id] \in Nat
    BY DEF ConfigTyped
  <2> QED BY <1>1, <2>1, <2>2 DEF OnlyAdds
<1>4. Recorded' = Recorded
  BY NothingRecords
<1>5. /\ \A x \in Recorded : x \in DOMAIN keychain' /\ x.version <= versions'[x.id]
      /\ \A d \in DOMAIN pins : PinRight(d)'
      /\ \A x \in runs : RunRight(x)'
  BY <1>2, <1>3, AddingKeeps DEF ConfigTyped
<1>6. SecretsKnown(Recorded)'
  BY <1>4, <1>5 DEF SecretsKnown, CheckSaved
<1>7. CredentialsKept'
  BY <1>1 DEF CredentialsKept
<1> QED BY <1>1, <1>2, <1>4, <1>5, <1>6, <1>7

LEMMA Puts ==
    ASSUME ConfigInv, Put
    PROVE  ConfigInv'
<1> USE DEF ConfigInv
<1>1. p \in Saving /\ p.at = "put"
  BY ProcessIs DEF Put, ConfigTyped
<1>2. /\ p.id \in SecretId /\ p.version \in Nat \ {0} /\ versions[p.id] \in Nat
      /\ p.version > versions[p.id]
  BY <1>1 DEF Saving, ConfigTyped, ProcessRight
<1>3. UNCHANGED <<defs, versions, snaps, pins, serving, runs>>
  BY DEF Put, journal
<1>4. CASE p' = NoProcess /\ UNCHANGED keychain
  BY <1>3, <1>4, EndsRight, ProcessMoves DEF ProcessTyped
<1>5. CASE p' = [p EXCEPT !.version = @ + 1] /\ UNCHANGED keychain
  <2>1. p.version + 1 \in Nat \ {0} /\ p.version + 1 > versions[p.id]
    BY <1>2
  <2>2. p' \in Saving /\ p'.at = "put" /\ p'.id = p.id /\ p'.version = p.version + 1
    BY <1>1, <1>5, <2>1, SavingMoves
  <2>3. ProcessRight'
    BY <1>3, <2>1, <2>2 DEF ProcessRight
  <2> QED BY <1>3, <1>5, <2>2, <2>3, ProcessMoves DEF ProcessTyped
<1>6. CASE AddItem(Ref(p.id, p.version), saves') /\ p' = [p EXCEPT !.at = "saved"]
  <2>1. Ref(p.id, p.version) \in Item
    BY <1>2 DEF Ref, Item
  <2>2. p' \in Saving /\ p'.at = "saved" /\ p'.id = p.id /\ p'.version = p.version
    BY <1>1, <1>2, <1>6, SavingMoves
  <2>3. Ref(p.id, p.version) \notin DOMAIN keychain /\ keychain' = With(keychain, Ref(p.id, p.version), saves')
    BY <1>6 DEF AddItem, Duplicate
  <2>4. Ref(p.id, p.version) \in DOMAIN keychain'
    BY <2>3 DEF With
  <2>5. ProcessRight'
    BY <1>2, <1>3, <2>2, <2>4 DEF ProcessRight
  <2> QED BY <1>3, <2>1, <2>2, <2>3, <2>5, ItemAdded DEF ProcessTyped
<1> QED BY <1>4, <1>5, <1>6 DEF Put

\* Another runtime adds an item, which changes none that the process relies on.
LEMMA OthersSave ==
    ASSUME ConfigInv, OtherRuntimeSaves
    PROVE  ConfigInv'
<1> USE DEF ConfigInv
<1>1. PICK id \in SecretId, v \in 1 .. MaxSaves : AddItem(Ref(id, v), saves')
  BY DEF OtherRuntimeSaves
<1>2. Ref(id, v) \in Item /\ MaxSaves \in Nat
  BY ConfigurationAssumption DEF Ref, Item
<1>3. Ref(id, v) \notin DOMAIN keychain /\ keychain' = With(keychain, Ref(id, v), saves')
  BY <1>1 DEF AddItem, Duplicate
<1>4. UNCHANGED <<defs, versions, snaps, pins, serving, runs, p>>
  BY DEF OtherRuntimeSaves, journal
<1>5. ProcessTyped'
  BY <1>4 DEF ConfigTyped, ProcessTyped, Preparing, RollingBack
<1>6. /\ DOMAIN keychain' = DOMAIN keychain \union {Ref(id, v)}
      /\ \A x \in DOMAIN keychain : keychain'[x] = keychain[x]
      /\ Recorded' = Recorded
      /\ ProcessRight' => ConfigInv'
  BY <1>2, <1>3, <1>4, <1>5, ItemAdded
<1>7. \A refs : SecretsKnown(refs) => SecretsKnown(refs)'
  BY <1>4, <1>6 DEF SecretsKnown, CheckSaved
<1>8. \A b, refs : BundleRight(b, refs) => BundleRight(b, refs)'
  BY <1>6 DEF BundleRight
<1>9. SecretsOf(serving)' = SecretsOf(serving) /\ Needed(p.target)' = Needed(p.target)
  BY <1>4 DEF SecretsOf, Needed
<1>10. ProcessRight'
  BY <1>4, <1>6, <1>7, <1>8, <1>9 DEF ProcessRight, CheckSaved
<1> QED BY <1>6, <1>10

\* Nothing on record names a version past the highest saved one.
LEMMA RecordedIsOlder ==
    ASSUME ConfigInv, NEW id \in SecretId, NEW v \in Nat, v > versions[id]
    PROVE  Ref(id, v) \notin Recorded
<1>1. Ref(id, v).id = id /\ Ref(id, v).version = v /\ versions[id] \in Nat
  BY DEF Ref, ConfigInv, ConfigTyped
<1> QED BY <1>1 DEF ConfigInv, SecretsKnown, CheckSaved

LEMMA Saved ==
    ASSUME ConfigInv, SecretSaved
    PROVE  ConfigInv'
<1> USE DEF ConfigInv
<1>1. p \in Saving /\ p.at = "saved"
  BY ProcessIs DEF SecretSaved, ConfigTyped
<1>2. /\ p.id \in SecretId /\ p.version \in Nat \ {0} /\ versions[p.id] \in Nat
      /\ p.version > versions[p.id] /\ Ref(p.id, p.version) \in DOMAIN keychain
  BY <1>1 DEF Saving, ConfigTyped, ProcessRight
<1>3. UNCHANGED <<defs, snaps, pins, serving, keychain, runs>>
  BY DEF SecretSaved
<1>4. Ref(p.id, p.version) \notin Recorded /\ Recorded' = Recorded
  BY <1>2, <1>3, RecordedIsOlder, NothingRecords
<1>5. CASE p' = [p EXCEPT !.at = "undo"] /\ UNCHANGED versions
  <2>1. p' \in Saving /\ p'.at = "undo" /\ p'.id = p.id /\ p'.version = p.version
    BY <1>1, <1>2, <1>5, SavingMoves
  <2>2. ProcessRight'
    BY <1>2, <1>4, <1>5, <2>1 DEF ProcessRight
  <2> QED BY <1>3, <1>5, <2>1, <2>2, ProcessMoves DEF ProcessTyped
<1>6. CASE /\ versions' = [versions EXCEPT ![p.id] = p.version]
           /\ p' = IF p.id.scope = Repo THEN NoProcess ELSE [p EXCEPT !.at = "define"]
  <2>1. versions' \in [SecretId -> Nat] /\ versions'[p.id] = p.version
        /\ \A id \in SecretId : id # p.id => versions'[id] = versions[id]
    BY <1>2, <1>6 DEF ConfigTyped
  <2>2. \A id \in SecretId : versions'[id] >= versions[id]
    <3>1. \A id \in SecretId : versions[id] \in Nat
      BY DEF ConfigTyped
    <3> QED BY <1>2, <2>1, <3>1
  <2>3. OnlyAdds
    <3>1. \A x \in Recorded : x \in DOMAIN keychain
      BY DEF SecretsKnown
    <3> QED BY <1>3, <2>2, <3>1 DEF OnlyAdds
  <2>4. /\ \A x \in Recorded : x \in DOMAIN keychain' /\ x.version <= versions'[x.id]
        /\ \A d \in DOMAIN pins : PinRight(d)'
        /\ \A x \in runs : RunRight(x)'
    BY <2>1, <2>3, AddingKeeps
  <2>5. SecretsKnown(Recorded)'
    BY <1>4, <2>4 DEF SecretsKnown, CheckSaved
  <2>6. CredentialsKept'
    <3> SUFFICES ASSUME NEW id \in SecretId, id.scope = Repo, versions'[id] > 0
                 PROVE  Ref(id, versions'[id]) \in DOMAIN keychain'
      BY DEF CredentialsKept
    <3>1. CASE id = p.id
      BY <1>2, <1>3, <2>1, <3>1
    <3>2. CASE id # p.id
      BY <1>3, <2>1, <3>2 DEF CredentialsKept
    <3> QED BY <3>1, <3>2
  <2>7. ProcessTyped' /\ ProcessRight'
    <3>1. CASE p.id.scope = Repo
      BY <1>6, <3>1, EndsRight DEF ProcessTyped
    <3>2. CASE p.id.scope # Repo
      <4>1. p' = [p EXCEPT !.at = "define"]
        BY <1>6, <3>2
      <4>2. p' \in Saving /\ p'.at = "define" /\ p'.id = p.id /\ p'.version = p.version
        BY <1>1, <1>2, <4>1, SavingMoves
      <4> QED BY <1>2, <1>3, <1>4, <2>1, <3>2, <4>2 DEF ProcessRight, ProcessTyped
    <3> QED BY <3>1, <3>2
  <2>8. ConfigTyped'
    BY <1>3, <2>1, <2>7 DEF ConfigTyped
  <2> QED BY <1>3, <2>4, <2>5, <2>6, <2>7, <2>8
<1> QED BY <1>5, <1>6 DEF SecretSaved

LEMMA SecretIsDefined ==
    ASSUME ConfigInv, SecretDefined
    PROVE  ConfigInv'
<1> USE DEF ConfigInv
<1>1. p \in Saving /\ p.at = "define"
  BY ProcessIs DEF SecretDefined, ConfigTyped
<1>2. /\ p.id \in SecretId /\ p.version \in Nat \ {0} /\ versions[p.id] \in Nat
      /\ p.version = versions[p.id] /\ Ref(p.id, p.version) \in DOMAIN keychain
      /\ p.id.scope # Repo /\ Ref(p.id, p.version) \notin Recorded
      /\ p.flags \in SUBSET {"build", "runtime"}
  BY <1>1 DEF Saving, ConfigTyped, ProcessRight
<1>3. UNCHANGED <<versions, snaps, pins, serving, keychain, runs>>
  BY DEF SecretDefined
<1>4. CASE Define(p.id.scope, p.id.name, Secret(p.flags, p.version)) /\ p' = NoProcess
  <2>1. p.id \in [scope : Scope, name : Name]
    BY <1>2 DEF SecretId
  <2>2. p.id.scope \in Scope /\ p.id.name \in Name /\ p.id = [scope |-> p.id.scope, name |-> p.id.name]
    BY <2>1
  <2>3. /\ Secret(p.flags, p.version) \in Definition
        /\ Secret(p.flags, p.version).version = p.version
    BY <1>2 DEF Secret, Definition
  <2>4. CheckSaved(Ref(p.id, p.version))
    BY <1>2 DEF CheckSaved, Ref
  <2> QED BY <1>2, <1>3, <1>4, <2>2, <2>3, <2>4, DefinesRight
<1>5. CASE p' = [p EXCEPT !.at = "undo"] /\ UNCHANGED defs
  <2>1. p' \in Saving /\ p'.at = "undo" /\ p'.id = p.id /\ p'.version = p.version
    BY <1>1, <1>2, <1>5, SavingMoves
  <2>2. Recorded' = Recorded
    BY <1>3, <1>5, NothingRecords
  <2>3. ProcessRight'
    BY <1>2, <2>1, <2>2 DEF ProcessRight
  <2> QED BY <1>3, <1>5, <2>1, <2>3, ProcessMoves DEF ProcessTyped
<1> QED BY <1>4, <1>5 DEF SecretDefined

\* What is undone is on no record (secret_set, repo_secret).
LEMMA Undoes ==
    ASSUME ConfigInv, Undo
    PROVE  ConfigInv'
<1> USE DEF ConfigInv
<1>1. p \in Saving /\ p.at = "undo"
  BY ProcessIs DEF Undo, ConfigTyped
<1> DEFINE gone == Ref(p.id, p.version)
<1>2. /\ p.id \in SecretId /\ p.version \in Nat \ {0} /\ versions[p.id] \in Nat
      /\ gone \notin Recorded /\ (p.id.scope = Repo => p.version > versions[p.id])
  BY <1>1 DEF Saving, ConfigTyped, ProcessRight
<1>3. UNCHANGED <<defs, versions, snaps, pins, serving, runs>> /\ p' = NoProcess
  BY DEF Undo, journal
<1>4. CASE UNCHANGED keychain
  BY <1>3, <1>4, EndsRight, ProcessMoves DEF ProcessTyped
<1>5. CASE DeleteItem(gone)
  <2>1. DOMAIN keychain' = DOMAIN keychain \ {gone} /\ \A x \in DOMAIN keychain' : keychain'[x] = keychain[x]
    BY <1>5 DEF DeleteItem
  <2>2. OnlyAdds
    <3>1. \A x \in Recorded : x \in DOMAIN keychain
      BY DEF SecretsKnown
    <3>2. \A id \in SecretId : versions[id] \in Nat
      BY DEF ConfigTyped
    <3> HIDE DEF gone
    <3> QED BY <1>2, <1>3, <2>1, <3>1, <3>2 DEF OnlyAdds
  <2>3. ConfigTyped'
    BY <1>3, <2>1 DEF ConfigTyped, ProcessTyped
  <2>4. /\ \A x \in Recorded : x \in DOMAIN keychain' /\ x.version <= versions'[x.id]
        /\ \A d \in DOMAIN pins : PinRight(d)'
        /\ \A x \in runs : RunRight(x)'
    BY <2>2, <2>3, AddingKeeps DEF ConfigTyped
  <2>5. SecretsKnown(Recorded)'
    <3>1. Recorded' = Recorded
      BY <1>3, NothingRecords
    <3> QED BY <2>4, <3>1 DEF SecretsKnown, CheckSaved
  <2>6. CredentialsKept'
    <3> SUFFICES ASSUME NEW id \in SecretId, id.scope = Repo, versions[id] > 0
                 PROVE  Ref(id, versions[id]) \in DOMAIN keychain'
      BY <1>3 DEF CredentialsKept
    <3>1. Ref(id, versions[id]) \in DOMAIN keychain
      BY DEF CredentialsKept
    <3>2. Ref(id, versions[id]) # gone
      BY <1>2 DEF Ref
    <3> HIDE DEF gone
    <3> QED BY <2>1, <3>1, <3>2
  <2> QED BY <1>3, <2>3, <2>4, <2>5, <2>6, EndsRight
<1> QED BY <1>4, <1>5 DEF Undo

LEMMA Crashes ==
    ASSUME ConfigInv, Crash
    PROVE  ConfigInv'
<1>1. UNCHANGED <<defs, versions, snaps, pins, serving, keychain, runs>> /\ p' = NoProcess
  BY DEF Crash, journal
<1> QED BY <1>1, EndsRight, ProcessMoves DEF ProcessTyped

\* A deployment fetches every secret it may need and the serving release's
\* (prepare, fetch_bundle).
LEMMA Prepares ==
    ASSUME ConfigInv, Prepare
    PROVE  ConfigInv'
<1> USE DEF ConfigInv
<1>1. p = NoProcess /\ UNCHANGED <<defs, versions, snaps, pins, serving, keychain, runs>>
  BY DEF Prepare, journal
<1>2. PICK d \in Dep, project \in Project \union {None}, env \in Env \union {None} :
        LET g == Given[d]
            entries == WithCommand(WithCommand(Resolve(project, env), g.cli, "runtime"), g.args, "build")
            needed == RefsOf(entries) \union SecretsOf(serving)
        IN  /\ NewDep(d) /\ Fetch(needed)
            /\ p' = [at |-> "snapshot", dep |-> d, entries |-> entries, bundle |-> Bundle(needed)]
  BY DEF Prepare
<1> DEFINE base == Resolve(project, env)
           given1 == WithCommand(base, Given[d].cli, "runtime")
           entries == WithCommand(given1, Given[d].args, "build")
           needed == RefsOf(entries) \union SecretsOf(serving)
<1>3. base \subseteq Resolved /\ NamedOnce(base) /\ RefsOf(base) \subseteq Recorded
  BY ResolveIs
<1>4. Given[d].cli \subseteq Name /\ Given[d].args \subseteq Name
  BY ConfigurationAssumption
<1> HIDE DEF base
<1>5. given1 \subseteq Resolved /\ NamedOnce(given1) /\ RefsOf(given1) \subseteq Recorded
  BY <1>3, <1>4, WithCommandIs
<1> HIDE DEF given1
<1>6. entries \subseteq Resolved /\ NamedOnce(entries) /\ RefsOf(entries) \subseteq Recorded
  BY <1>4, <1>5, WithCommandIs
<1>7. /\ NewDep(d) /\ Fetch(needed)
      /\ p' = [at |-> "snapshot", dep |-> d, entries |-> entries, bundle |-> Bundle(needed)]
  BY <1>2 DEF base, given1
<1> HIDE DEF entries
<1>8. PICK E, F : E = entries /\ F = needed
  OBVIOUS
<1>9. /\ E \subseteq Resolved /\ NamedOnce(E) /\ RefsOf(E) \subseteq Recorded /\ SecretsKnown(RefsOf(E))
      /\ F = RefsOf(E) \union SecretsOf(serving)
  BY <1>6, <1>8 DEF SecretsKnown
<1> HIDE DEF needed
<1>10. /\ NewDep(d) /\ Fetch(F)
       /\ p' = [at |-> "snapshot", dep |-> d, entries |-> E, bundle |-> Bundle(F)]
  BY <1>7, <1>8
<1>11. PICK B : B = Bundle(F)
  OBVIOUS
<1>12. p' = [at |-> "snapshot", dep |-> d, entries |-> E, bundle |-> B]
  BY <1>10, <1>11
<1>13. BundleRight(B, F)
  BY <1>10, <1>11 DEF BundleRight, Bundle, Fetch, CopyItem
<1>14. d \notin DOMAIN snaps /\ d \notin DOMAIN pins
  BY <1>10 DEF NewDep
<1>15. ProcessTyped'
  <2>1. p' \in [at : {"snapshot", "plan"}, dep : Dep, entries : SUBSET Resolved, bundle : {p'.bundle}]
    BY <1>9, <1>12
  <2> QED BY <2>1 DEF ProcessTyped, Preparing
<1>16. SecretsKnown(RefsOf(E))' /\ BundleRight(B, F)' /\ F = RefsOf(E) \union SecretsOf(serving)'
  BY <1>1, <1>9, <1>13 DEF SecretsKnown, CheckSaved, BundleRight, SecretsOf
<1>17. ProcessRight'
  BY <1>1, <1>9, <1>12, <1>14, <1>16 DEF ProcessRight, Saving
<1> QED BY <1>1, <1>15, <1>17, ProcessMoves

\* A rollback fetches what its target's pin and the serving one name.
LEMMA BeginsRollback ==
    ASSUME ConfigInv, RollbackBegin
    PROVE  ConfigInv'
<1> USE DEF ConfigInv
<1>1. p = NoProcess /\ UNCHANGED <<defs, versions, snaps, pins, serving, keychain, runs>>
  BY DEF RollbackBegin, journal
<1>2. PICK d \in Dep, t \in DOMAIN pins :
        /\ NewDep(d) /\ Fetch(Needed(t))
        /\ p' = [at |-> "rollback", dep |-> d, target |-> t, bundle |-> Bundle(Needed(t))]
  BY DEF RollbackBegin
<1>3. PICK B : B = Bundle(Needed(t))
  OBVIOUS
<1>4. p' = [at |-> "rollback", dep |-> d, target |-> t, bundle |-> B]
  BY <1>2, <1>3
<1>5. BundleRight(B, Needed(t))
  BY <1>2, <1>3 DEF BundleRight, Bundle, Fetch, CopyItem
<1>6. d \notin DOMAIN pins
  BY <1>2 DEF NewDep
<1>7. ProcessTyped'
  <2>1. p' \in [at : {"rollback"}, dep : Dep, target : DOMAIN pins', bundle : {p'.bundle}]
    BY <1>1, <1>4
  <2> QED BY <2>1 DEF ProcessTyped, RollingBack
<1>8. BundleRight(B, Needed(t))'
  BY <1>1, <1>5 DEF BundleRight, Needed, SecretsOf
<1>9. ProcessRight'
  BY <1>1, <1>4, <1>6, <1>8 DEF ProcessRight, Saving
<1> QED BY <1>1, <1>7, <1>9, ProcessMoves

\* The snapshot is recorded before the release is pinned with it (commands.rs: deploy).
LEMMA RecordsSnapshot ==
    ASSUME ConfigInv, RecordSnapshot
    PROVE  ConfigInv'
<1> USE DEF ConfigInv
<1>1. p \in Preparing(p.bundle) /\ p.at = "snapshot"
  BY ProcessIs DEF RecordSnapshot, ConfigTyped
<1>2. UNCHANGED <<defs, versions, pins, serving, keychain, runs>>
  BY DEF RecordSnapshot
<1>3. CASE p' = NoProcess /\ UNCHANGED snaps
  BY <1>2, <1>3, EndsRight, ProcessMoves DEF ProcessTyped
<1>4. CASE snaps' = With(snaps, p.dep, p.entries) /\ p' = [p EXCEPT !.at = "plan"]
  <2>1. /\ p.dep \in Dep /\ p.entries \subseteq Resolved
        /\ p.dep \notin DOMAIN pins /\ p.dep \notin DOMAIN snaps
        /\ NamedOnce(p.entries) /\ SecretsKnown(RefsOf(p.entries))
        /\ BundleRight(p.bundle, RefsOf(p.entries) \union SecretsOf(serving))
    BY <1>1 DEF Preparing, ProcessRight
  <2>2. PICK d, E, B : d = p.dep /\ E = p.entries /\ B = p.bundle
    OBVIOUS
  <2>3. p = [at |-> p.at, dep |-> d, entries |-> E, bundle |-> B]
    BY <1>1, <2>2 DEF Preparing
  <2>4. p' = [at |-> "plan", dep |-> d, entries |-> E, bundle |-> B]
    BY <1>4, <2>3
  <2>5. /\ DOMAIN snaps' = DOMAIN snaps \union {d} /\ snaps'[d] = E
        /\ \A x \in DOMAIN snaps : snaps'[x] = snaps[x]
    BY <1>4, <2>1, <2>2 DEF With
  <2>6. Recorded' \subseteq Recorded \union RefsOf(E)
    BY <1>2, <1>4, <2>2, SnapshotRecords
  <2>7. ProcessTyped'
    <3>1. p' \in [at : {"snapshot", "plan"}, dep : Dep, entries : SUBSET Resolved, bundle : {p'.bundle}]
      BY <2>1, <2>2, <2>4
    <3> QED BY <3>1 DEF ProcessTyped, Preparing
  <2>8. ConfigTyped'
    BY <1>2, <2>1, <2>2, <2>5, <2>7 DEF ConfigTyped
  <2>9. OnlyAdds
    <3>1. \A x \in Recorded : x \in DOMAIN keychain
      BY DEF SecretsKnown
    <3>2. \A id \in SecretId : versions[id] \in Nat
      BY DEF ConfigTyped
    <3> QED BY <1>2, <2>5, <3>1, <3>2 DEF OnlyAdds
  <2>10. /\ \A x \in Recorded : x \in DOMAIN keychain' /\ x.version <= versions'[x.id]
         /\ \A y \in DOMAIN pins : PinRight(y)'
         /\ \A x \in runs : RunRight(x)'
    BY <2>8, <2>9, AddingKeeps DEF ConfigTyped
  <2>11. SecretsKnown(RefsOf(E))' /\ BundleRight(B, RefsOf(E) \union SecretsOf(serving))'
    BY <1>2, <2>1, <2>2 DEF SecretsKnown, CheckSaved, BundleRight, SecretsOf
  <2>12. SecretsKnown(Recorded)'
    BY <2>6, <2>10, <2>11 DEF SecretsKnown, CheckSaved
  <2>13. ProcessRight'
    BY <1>2, <2>1, <2>2, <2>4, <2>5, <2>11 DEF ProcessRight, Saving
  <2>14. CredentialsKept'
    BY <1>2 DEF CredentialsKept
  <2> QED BY <1>2, <2>8, <2>10, <2>12, <2>13, <2>14
<1> QED BY <1>3, <1>4 DEF RecordSnapshot

\* A new release is pinned and run with what was fetched, or the serving one is
\* recreated from its own pin (plan_release, effective_secrets).
LEMMA ServesRight ==
    ASSUME ConfigInv, NEW d \in Dep, d \notin DOMAIN pins, NEW pin \in PinRec,
           Serve(d, pin), p' = NoProcess, UNCHANGED <<defs, versions, snaps, keychain>>,
           Simulated \/ Decodes(Encode(pin)),
           pin.snapshot # NoDep => pin.snapshot \in DOMAIN snaps,
           pin.of = d \/ (pin.of \in DOMAIN pins /\ pins[pin.of] = pin),
           SecretsKnown({s.ref : s \in pin.secrets}),
           BundleRight(p.bundle, {s.ref : s \in pin.secrets} \union SecretsOf(serving))
    PROVE  ConfigInv'
<1> USE DEF ConfigInv
<1>1. pins' = With(pins, d, pin)
  BY DEF Serve
<1>2. /\ DOMAIN pins' = DOMAIN pins \union {d} /\ pins'[d] = pin
      /\ \A x \in DOMAIN pins : pins'[x] = pins[x]
  BY <1>1 DEF With
<1>3. \/ serving' = d /\ runs' = runs \union {Ran(pin)}
      \/ serving # NoDep /\ serving' = serving /\ runs' = runs \union {Ran(pin), Ran(pins[serving])}
  BY DEF Serve
<1>4. ConfigTyped'
  BY <1>2, <1>3 DEF ConfigTyped, ProcessTyped
<1>5. OnlyAdds
  <2>1. \A x \in Recorded : x \in DOMAIN keychain
    BY DEF SecretsKnown
  <2>2. \A id \in SecretId : versions[id] \in Nat
    BY DEF ConfigTyped
  <2> QED BY <1>2, <2>1, <2>2 DEF OnlyAdds
<1>6. /\ \A x \in Recorded : x \in DOMAIN keychain' /\ x.version <= versions'[x.id]
      /\ \A y \in DOMAIN pins : PinRight(y)'
      /\ \A x \in runs : RunRight(x)'
  BY <1>4, <1>5, AddingKeeps DEF ConfigTyped
<1>7. SecretsKnown(Recorded)'
  <2>1. Recorded' \subseteq Recorded \union {s.ref : s \in pin.secrets}
    BY <1>1, PinRecords
  <2> QED BY <1>6, <2>1 DEF SecretsKnown, CheckSaved
<1>8. PinRight(d)'
  <2>1. pin.of \in DOMAIN pins' /\ pins'[pin.of] = pin
    BY <1>2
  <2> QED BY <1>2, <2>1 DEF PinRight
<1>9. ASSUME NEW q, NEW e, e = Ran(q), q.of \in DOMAIN pins', pins'[q.of] = q,
             \A s \in q.secrets : s.ref \in DOMAIN p.bundle
      PROVE  RunRight(e)'
  <2>1. \A s \in q.secrets : p.bundle[s.ref] = keychain[s.ref]
    BY <1>9 DEF BundleRight
  <2>2. {[name |-> s.name, value |-> p.bundle[s.ref]] : s \in q.secrets}
          = {[name |-> s.name, value |-> keychain[s.ref]] : s \in q.secrets}
    BY <2>1
  <2>3. e.release = q.of /\ e.values = {[name |-> s.name, value |-> keychain[s.ref]] : s \in q.secrets}
    BY <1>9, <2>2 DEF Ran, Values
  <2> QED BY <1>9, <2>3 DEF RunRight
<1>10. \A r \in runs' : RunRight(r)'
  <2> SUFFICES ASSUME NEW r \in runs' PROVE RunRight(r)'
    OBVIOUS
  <2>1. pin.of \in DOMAIN pins' /\ pins'[pin.of] = pin
    BY <1>2
  <2>2. \A s \in pin.secrets : s.ref \in DOMAIN p.bundle
    BY DEF BundleRight
  <2>3. CASE r = Ran(pin)
    BY <1>9, <2>1, <2>2, <2>3
  <2>4. CASE serving # NoDep /\ r = Ran(pins[serving])
    <3>1. serving \in DOMAIN pins
      BY <2>4 DEF ConfigTyped
    <3>2. pins[serving].of \in DOMAIN pins' /\ pins'[pins[serving].of] = pins[serving]
      BY <1>2, <3>1 DEF PinRight
    <3>3. \A s \in pins[serving].secrets : s.ref \in DOMAIN p.bundle
      BY <2>4 DEF BundleRight, SecretsOf
    <3> QED BY <1>9, <2>4, <3>2, <3>3
  <2> QED BY <1>3, <1>6, <2>3, <2>4
<1>11. CredentialsKept'
  BY DEF CredentialsKept
<1> QED BY <1>2, <1>4, <1>6, <1>7, <1>8, <1>10, <1>11, EndsRight

\* The plan is refused, or its release is served.
LEMMA Plans ==
    ASSUME ConfigInv, Plan
    PROVE  ConfigInv'
<1> USE DEF ConfigInv
<1>1. p \in Preparing(p.bundle) /\ p.at = "plan"
  BY ProcessIs DEF Plan, ConfigTyped
<1>2. UNCHANGED <<defs, versions, snaps, keychain>> /\ p' = NoProcess
  BY DEF Plan
<1>3. CASE UNCHANGED <<pins, serving, runs>>
  BY <1>2, <1>3, EndsRight, ProcessMoves DEF ProcessTyped
<1>4. CASE PlanAccepts(PinOf(p.dep, p.entries)) /\ Serve(p.dep, PinOf(p.dep, p.entries))
  <2>1. /\ p.dep \in Dep /\ p.entries \subseteq Resolved /\ p.dep \notin DOMAIN pins
        /\ p.dep \in DOMAIN snaps /\ NamedOnce(p.entries) /\ SecretsKnown(RefsOf(p.entries))
        /\ BundleRight(p.bundle, RefsOf(p.entries) \union SecretsOf(serving))
    BY <1>1 DEF Preparing, ProcessRight
  <2>2. PICK d, pin : d = p.dep /\ pin = PinOf(p.dep, p.entries)
    OBVIOUS
  <2>3. DOMAIN keychain \subseteq Item
    BY DEF ConfigTyped
  <2>4. /\ pin \in PinRec /\ pin.of = d /\ pin.snapshot \in {d, NoDep}
        /\ {s.ref : s \in pin.secrets} \subseteq RefsOf(p.entries)
        /\ Simulated \/ Decodes(Encode(pin))
    BY <1>4, <2>1, <2>2, <2>3, PinIs
  <2>5. SecretsKnown({s.ref : s \in pin.secrets})
    BY <2>1, <2>4 DEF SecretsKnown
  <2>6. BundleRight(p.bundle, {s.ref : s \in pin.secrets} \union SecretsOf(serving))
    BY <2>1, <2>4 DEF BundleRight
  <2>7. d \in Dep /\ d \notin DOMAIN pins /\ Serve(d, pin) /\ (pin.snapshot # NoDep => pin.snapshot \in DOMAIN snaps)
    BY <1>4, <2>1, <2>2, <2>4
  <2> QED BY <1>2, <2>4, <2>5, <2>6, <2>7, ServesRight
<1> QED BY <1>3, <1>4 DEF Plan

LEMMA RollsBack ==
    ASSUME ConfigInv, Rollback
    PROVE  ConfigInv'
<1> USE DEF ConfigInv
<1>1. p \in RollingBack(p.bundle) /\ p.at = "rollback"
  BY ProcessIs DEF Rollback, ConfigTyped
<1>2. UNCHANGED <<defs, versions, snaps, keychain>> /\ p' = NoProcess
  BY DEF Rollback
<1>3. CASE UNCHANGED <<pins, serving, runs>>
  BY <1>2, <1>3, EndsRight, ProcessMoves DEF ProcessTyped
<1>4. CASE Serve(p.dep, pins[p.target])
  <2>1. /\ p.dep \in Dep /\ p.target \in DOMAIN pins /\ p.dep \notin DOMAIN pins
        /\ BundleRight(p.bundle, Needed(p.target))
    BY <1>1 DEF RollingBack, ProcessRight
  <2>2. PICK d, pin : d = p.dep /\ pin = pins[p.target]
    OBVIOUS
  <2>3. /\ pin \in PinRec /\ PinRight(p.target) /\ p.target # NoDep
    BY <2>1, <2>2, ConfigurationAssumption DEF ConfigTyped
  <2>4. /\ Simulated \/ Decodes(Encode(pin))
        /\ pin.snapshot # NoDep => pin.snapshot \in DOMAIN snaps
        /\ pin.of \in DOMAIN pins /\ pins[pin.of] = pin
    BY <2>2, <2>3 DEF PinRight
  <2>5. SecretsOf(p.target) = {s.ref : s \in pin.secrets}
    BY <2>2, <2>3 DEF SecretsOf
  <2>6. SecretsKnown({s.ref : s \in pin.secrets})
    BY <2>1, <2>5, PinnedIsRecorded DEF SecretsKnown
  <2>7. BundleRight(p.bundle, {s.ref : s \in pin.secrets} \union SecretsOf(serving))
    BY <2>1, <2>5 DEF Needed
  <2> QED BY <1>2, <1>4, <2>1, <2>2, <2>3, <2>4, <2>6, <2>7, ServesRight
<1> QED BY <1>3, <1>4 DEF Rollback

\* `restore` looks the serving release's references up again.
LEMMA RestoresRight ==
    ASSUME ConfigInv, Restore
    PROVE  ConfigInv'
<1> USE DEF ConfigInv
<1>1. UNCHANGED <<defs, versions, snaps, pins, serving, keychain, p>> /\ p = NoProcess /\ serving # NoDep
  BY DEF Restore, journal
<1> DEFINE again == [release |-> pins[serving].of,
                     values |-> {[name |-> s.name, value |-> keychain[s.ref]] : s \in pins[serving].secrets}]
<1>2. PICK r : r = again
  OBVIOUS
<1>3. serving \in DOMAIN pins
  BY <1>1 DEF ConfigTyped
<1>4. RunRight(r) /\ runs' = runs \union {r}
  <2>1. /\ r.release = pins[serving].of
        /\ r.values = {[name |-> s.name, value |-> keychain[s.ref]] : s \in pins[serving].secrets}
    BY <1>2
  <2>2. runs' = runs \union {again}
    BY DEF Restore, CopyItem
  <2> HIDE DEF again
  <2> QED BY <1>2, <1>3, <2>1, <2>2 DEF RunRight, PinRight
<1> HIDE DEF again
<1>5. ConfigTyped'
  BY <1>1 DEF ConfigTyped, ProcessTyped
<1>6. OnlyAdds
  <2>1. \A x \in Recorded : x \in DOMAIN keychain
    BY DEF SecretsKnown
  <2>2. \A id \in SecretId : versions[id] \in Nat
    BY DEF ConfigTyped
  <2> QED BY <1>1, <2>1, <2>2 DEF OnlyAdds
<1>7. /\ \A x \in Recorded : x \in DOMAIN keychain' /\ x.version <= versions'[x.id]
      /\ \A y \in DOMAIN pins : PinRight(y)'
      /\ \A x \in runs : RunRight(x)'
  BY <1>5, <1>6, AddingKeeps DEF ConfigTyped
<1>8. SecretsKnown(Recorded)'
  BY <1>1, <1>7, NothingRecords DEF SecretsKnown, CheckSaved
<1>9. RunRight(r)' /\ CredentialsKept'
  BY <1>1, <1>4 DEF RunRight, CredentialsKept
<1> QED BY <1>1, <1>4, <1>5, <1>7, <1>8, <1>9, EndsRight

-----------------------------------------------------------------------------
(* Configuration: the invariant and its theorems *)

LEMMA ConfigBegins ==
    ASSUME ConfigInit
    PROVE  ConfigInv
<1>1. NoDef \in Definition
  BY DEF NoDef, Definition
<1>2. ConfigTyped
  BY <1>1 DEF ConfigInit, ConfigTyped, ProcessTyped
<1>3. /\ DOMAIN snaps = {} /\ DOMAIN pins = {} /\ runs = {} /\ p = NoProcess
      /\ \A s \in Scope, n \in Name : defs[s][n].what = "none"
      /\ \A id \in SecretId : versions[id] = 0
  BY DEF ConfigInit, NoDef
<1>4. SecretsKnown(Recorded)
  BY <1>3, RecordedIs DEF SecretsKnown, OnRecord, DefinedAs, InSnapshot, InPin
<1>5. CredentialsKept
  BY <1>3 DEF CredentialsKept
<1>6. ProcessRight
  BY <1>3, NoProcessIs DEF ProcessRight
<1> QED BY <1>2, <1>3, <1>4, <1>5, <1>6 DEF ConfigInv

LEMMA ConfigSteps ==
    ASSUME ConfigInv, [ConfigNext]_configVars
    PROVE  ConfigInv'
<1>1. CASE UNCHANGED configVars
  <2>1. UNCHANGED <<defs, versions, snaps, pins, serving, keychain, p, runs>>
    BY <1>1 DEF configVars
  <2>2. ProcessTyped'
    BY <2>1 DEF ConfigInv, ConfigTyped, ProcessTyped, Preparing, RollingBack
  <2>3. Recorded' = Recorded
    BY <2>1, NothingRecords
  <2>4. /\ \A refs : SecretsKnown(refs) => SecretsKnown(refs)'
        /\ \A b, refs : BundleRight(b, refs) => BundleRight(b, refs)'
        /\ SecretsOf(serving)' = SecretsOf(serving) /\ Needed(p.target)' = Needed(p.target)
    BY <2>1 DEF SecretsKnown, CheckSaved, BundleRight, SecretsOf, Needed
  <2>5. ProcessRight'
    BY <2>1, <2>3, <2>4 DEF ConfigInv, ProcessRight
  <2> QED BY <2>1, <2>2, <2>5, ProcessMoves
<1> QED BY <1>1, Defines, BeginsSave, Puts, Saved, SecretIsDefined, Undoes, Prepares, RecordsSnapshot,
           Plans, BeginsRollback, RollsBack, RestoresRight, Crashes, OthersSave DEF ConfigNext

\* What is on record can be relied on, through every order of saves, failed
\* recordings, crashes, deployments, rollbacks and restorations.
LEMMA ConfigHolds == FoundationsSpec => []ConfigInv
<1>1. FoundationsInit => ConfigInv
  BY PartsMove, ConfigBegins
<1>2. ConfigInv /\ [FoundationsNext]_foundationVars => ConfigInv'
  BY PartsMove, ConfigSteps
<1> QED BY <1>1, <1>2, PTL DEF FoundationsSpec

\* The journal can be replayed on a Docker runtime: every pin can be decoded and
\* every secret a record names was saved under that version or an earlier one
\* (config.rs: apply, check_saved, check_pins; release.rs: decode).
THEOREM PinsStayReadable == ~Simulated => (FoundationsSpec => []PinsReadable)
<1> SUFFICES ASSUME ~Simulated PROVE FoundationsSpec => []PinsReadable
  OBVIOUS
<1>1. ConfigInv => PinsReadable
  BY DEF ConfigInv, PinRight, SecretsKnown, PinsReadable
<1> QED BY <1>1, ConfigHolds, PTL

\* Every secret that a definition, a snapshot, a pin or a repository refers to is
\* in the Keychain, although a save whose recording fails takes its item out
\* again (config_cmds.rs: secret_set, repo_secret).
THEOREM NamedSecretsExist == FoundationsSpec => []NamedIsThere
<1>1. ConfigInv => NamedIsThere
  BY DEF ConfigInv, SecretsKnown, CredentialsKept, NamedIsThere
<1> QED BY <1>1, ConfigHolds, PTL

\* A release runs with the same values whenever it runs (backend.rs:
\* effective_secrets; commands.rs: rollback, restore).
THEOREM ReleasesKeepTheirValues == FoundationsSpec => []SameValues
<1>1. ConfigInv => SameValues
  BY DEF ConfigInv, RunRight, SameValues
<1> QED BY <1>1, ConfigHolds, PTL

-----------------------------------------------------------------------------
(* Build: what its variables hold *)

FoundBases == {Requires[t] : t \in Texts} \union {{}}
Copy == [text : Texts, link : BOOLEAN, file : {"none", "link", "own", "folder followed"},
         checked : Texts, bases : FoundBases]
BuildSteps == {"idle", "dead", "opened", "confine", "copy", "folder", "look", "open", "compare", "sweep", "secrets",
               "run", "inspect", "receipt", "tag"}

BuildTyped ==
    /\ folder \in [text : Texts, link : BOOLEAN, dir : {"dir", "link"}, kind : {"file", "link"}, file : Nat \ {0}]
    /\ src \in [text : Texts, bases : FoundBases, file : Nat]
    /\ step \in BuildSteps /\ turn \in 0 .. MaxRuns /\ (step \notin Rests => turn \in Runs)
    /\ DOMAIN copies \subseteq 1 .. turn /\ \A n \in DOMAIN copies : copies[n] \in Copy
    /\ buildx \in [Runs -> {"none", "runs", "loaded", "done", "failed"}]
    /\ made \in [Runs -> Copy]
    /\ receipts \in [Runs -> Runs \union {NoImage}] /\ release \in [Runs -> Runs \union {NoImage}]

\* A Dockerfile that is the one that was checked, or a link.
Right(c) == ~c.link => c.text = c.checked /\ Requires[c.checked] = c.bases

\* What the process has done for its deployment by the step it is at.
StepRight ==
    /\ step \in {"confine", "copy", "folder", "look", "open", "compare", "sweep", "secrets"} =>
          buildx[turn] = "none" /\ receipts[turn] = NoImage /\ release[turn] = NoImage
    /\ step \in {"folder", "look", "open", "compare", "sweep", "secrets", "run"} => turn \in DOMAIN copies
    /\ step \in {"folder", "look", "open", "compare"} =>
          copies[turn].checked = src.text /\ copies[turn].bases = src.bases
    /\ step \in {"sweep", "secrets"} => Right(copies[turn])
    /\ step \in {"run", "inspect", "receipt", "tag"} => release[turn] = NoImage
    /\ step \in {"inspect", "receipt", "tag"} => buildx[turn] = "done"
    /\ step = "tag" => receipts[turn] = turn

\* What each Buildx works on, and what it made.
ImageRight(n) ==
    /\ n > turn => buildx[n] = "none" /\ receipts[n] = NoImage /\ release[n] = NoImage
    /\ buildx[n] = "runs" => n \in DOMAIN copies /\ Right(copies[n])
    /\ buildx[n] \in {"loaded", "done"} => Right(made[n])
    /\ receipts[n] # NoImage => receipts[n] = n /\ buildx[n] = "done"
    /\ release[n] # NoImage =>
          /\ release[n] = n \/ \E k \in 1 .. n - 1 : release[n] = release[k]
          /\ receipts[release[n]] = release[n]

BuildInv == BuildTyped /\ StepRight /\ SecretsSwept /\ \A n \in Runs : ImageRight(n)

\* The record of a copy changes one field at a time.
LEMMA CopyFile ==
    ASSUME NEW c \in Copy, NEW f \in {"none", "link", "own", "folder followed"}
    PROVE  /\ [c EXCEPT !.file = f] \in Copy
           /\ [c EXCEPT !.file = f].checked = c.checked /\ [c EXCEPT !.file = f].bases = c.bases
BY DEF Copy

LEMMA CopyText ==
    ASSUME NEW c \in Copy, NEW t \in Texts
    PROVE  /\ [c EXCEPT !.text = t] \in Copy /\ [c EXCEPT !.text = t].text = t
           /\ [c EXCEPT !.text = t].link = c.link
           /\ [c EXCEPT !.text = t].checked = c.checked /\ [c EXCEPT !.text = t].bases = c.bases
BY DEF Copy

LEMMA FolderFields ==
    ASSUME BuildTyped
    PROVE  /\ folder.text \in Texts /\ folder.link \in BOOLEAN /\ folder.dir \in {"dir", "link"}
           /\ folder.kind \in {"file", "link"} /\ folder.file \in Nat \ {0}
           /\ Requires[folder.text] \in FoundBases /\ Outside \in Nat
           /\ src.text \in Texts /\ src.bases \in FoundBases /\ src.file \in Nat
           /\ turn \in Nat /\ MaxRuns \in Nat
BY BuildAssumption DEF BuildTyped, FoundBases, Outside

\* What the images rest on: nothing that a later step of a deployment undoes.
LEMMA ImagesKept ==
    ASSUME BuildInv, UNCHANGED <<made, receipts, release, buildx>>, turn' = turn,
           \A n \in DOMAIN copies : n # turn => n \in DOMAIN copies' /\ copies'[n] = copies[n],
           turn \in DOMAIN copies /\ buildx[turn] = "runs" => turn \in DOMAIN copies' /\ copies'[turn] = copies[turn]
    PROVE  \A n \in Runs : ImageRight(n)'
<1> SUFFICES ASSUME NEW n \in Runs PROVE ImageRight(n)'
  OBVIOUS
<1>1. ImageRight(n)
  BY DEF BuildInv
<1>2. buildx[n] = "runs" => n \in DOMAIN copies' /\ copies'[n] = copies[n]
  BY <1>1 DEF ImageRight
<1> QED BY <1>1, <1>2 DEF ImageRight, Right

-----------------------------------------------------------------------------
(* Build: each step *)

LEMMA BuildBegins ==
    ASSUME BuildInit
    PROVE  BuildInv
<1> USE DEF BuildInit
<1>1. NoCopy \in Copy
  BY BuildAssumption DEF NoCopy, Copy, FoundBases
<1>2. BuildTyped
  BY <1>1, BuildAssumption DEF BuildTyped, NoSource, FoundBases, BuildSteps, Rests, Runs, Outside
<1>3. StepRight /\ SecretsSwept
  BY DEF StepRight, SecretsSwept
<1>4. \A n \in Runs : ImageRight(n)
  BY DEF ImageRight
<1> QED BY <1>2, <1>3, <1>4 DEF BuildInv

\* The deployment is given up or has its image: its copy goes, and nothing needs it.
LEMMA Ends ==
    ASSUME BuildInv, EndBuild, step \notin Rests,
           buildx' \in [Runs -> {"none", "runs", "loaded", "done", "failed"}],
           \A n \in Runs : n # turn => buildx'[n] = buildx[n],
           buildx'[turn] # "runs",
           buildx'[turn] \in {"loaded", "done"} => buildx'[turn] = buildx[turn],
           receipts[turn] # NoImage => buildx'[turn] = "done",
           \A n \in secrets' \ refused' : n \in secrets \ refused /\ n # turn,
           UNCHANGED <<receipts>>,
           release' \in [Runs -> Runs \union {NoImage}],
           \A n \in Runs : n # turn => release'[n] = release[n],
           release'[turn] = release[turn] \/ (release'[turn] = turn /\ receipts[turn] = turn /\ release[turn] = NoImage)
    PROVE  BuildInv'
<1> USE DEF BuildInv
<1>1. /\ step' = "idle" /\ src' = NoSource /\ DOMAIN copies' \subseteq DOMAIN copies
      /\ \A n \in DOMAIN copies : n # turn => n \in DOMAIN copies'
      /\ \A n \in DOMAIN copies' : copies'[n] = copies[n]
      /\ UNCHANGED <<folder, turn, made>>
  BY DEF EndBuild, inDocker
<1>2. turn \in Runs /\ NoSource \in [text : Texts, bases : FoundBases, file : Nat]
  BY BuildAssumption DEF BuildTyped, Rests, NoSource, FoundBases, Outside
<1>3. BuildTyped'
  BY <1>1, <1>2 DEF BuildTyped, BuildSteps, Rests
<1>4. StepRight' /\ SecretsSwept'
  BY <1>1 DEF StepRight, SecretsSwept
<1>5. ASSUME NEW n \in Runs PROVE ImageRight(n)'
  <2>1. ImageRight(n) /\ ImageRight(turn)
    BY <1>2
  <2>2. n \in Nat /\ turn \in Nat /\ MaxRuns \in Nat
    BY BuildAssumption DEF Runs, BuildTyped
  <2>3. n > turn => buildx'[n] = "none" /\ receipts'[n] = NoImage /\ release'[n] = NoImage
    BY <2>1, <2>2 DEF ImageRight
  <2>4. buildx'[n] = "runs" => n \in DOMAIN copies' /\ Right(copies'[n])
    BY <1>1, <2>1 DEF ImageRight
  <2>5. buildx'[n] \in {"loaded", "done"} => Right(made'[n])
    BY <1>1, <2>1 DEF ImageRight
  <2>6. receipts'[n] # NoImage => receipts'[n] = n /\ buildx'[n] = "done"
    BY <2>1 DEF ImageRight
  <2>7. release'[n] # NoImage =>
          /\ release'[n] = n \/ \E k \in 1 .. n - 1 : release'[n] = release'[k]
          /\ receipts'[release'[n]] = release'[n]
    <3> SUFFICES ASSUME release'[n] # NoImage
                 PROVE  /\ release'[n] = n \/ \E k \in 1 .. n - 1 : release'[n] = release'[k]
                        /\ receipts[release'[n]] = release'[n]
      OBVIOUS
    <3>1. CASE release'[n] = release[n]
      <4>1. CASE release[n] = n
        BY <2>1, <3>1, <4>1 DEF ImageRight
      <4>2. CASE release[n] # n
        <5>1. PICK k \in 1 .. n - 1 : release[n] = release[k]
          BY <2>1, <3>1, <4>2 DEF ImageRight
        <5>2. k \in Runs
          BY <2>2 DEF Runs
        <5>3. release'[k] = release[k]
          BY <3>1, <5>1, <5>2
        <5> QED BY <2>1, <3>1, <5>1, <5>3 DEF ImageRight
      <4> QED BY <4>1, <4>2
    <3>2. CASE release'[n] # release[n]
      BY <3>2
    <3> QED BY <3>1, <3>2
  <2> QED BY <1>1, <2>3, <2>4, <2>5, <2>6, <2>7 DEF ImageRight
<1> QED BY <1>3, <1>4, <1>5

LEMMA GivesUp ==
    ASSUME BuildInv, GiveUp
    PROVE  BuildInv'
<1> USE DEF BuildInv
<1>1. /\ step \in BuildSteps \ (Rests \union {"run"}) /\ turn \in Runs /\ EndBuild
      /\ UNCHANGED <<secrets, refused, buildx, receipts, release>>
  BY DEF GiveUp, BuildTyped
<1>2. secrets' \ refused' = {}
  BY <1>1 DEF SecretsSwept, Rests
<1>3. buildx[turn] \in {"none", "done"} /\ (receipts[turn] # NoImage => buildx[turn] = "done")
  BY <1>1 DEF StepRight, ImageRight, BuildSteps, Rests
<1>4. step \notin Rests
  BY <1>1
<1>5. buildx' \in [Runs -> {"none", "runs", "loaded", "done", "failed"}]
      /\ release' \in [Runs -> Runs \union {NoImage}]
  BY <1>1 DEF BuildTyped
<1> QED BY <1>1, <1>2, <1>3, <1>4, <1>5, Ends

LEMMA NotBuilds ==
    ASSUME BuildInv, NotBuilt
    PROVE  BuildInv'
<1> USE DEF BuildInv
<1>1. /\ step = "run" /\ turn \in Runs /\ EndBuild /\ Cleared
      /\ UNCHANGED <<receipts, release>>
      /\ buildx' = [buildx EXCEPT ![turn] = IF buildx[turn] = "done" THEN "done" ELSE "failed"]
  BY DEF NotBuilt, BuildTyped, Rests
<1>2. /\ buildx' \in [Runs -> {"none", "runs", "loaded", "done", "failed"}]
      /\ buildx'[turn] = IF buildx[turn] = "done" THEN "done" ELSE "failed"
      /\ \A n \in Runs : n # turn => buildx'[n] = buildx[n]
  BY <1>1 DEF BuildTyped
<1>3. receipts[turn] # NoImage => buildx[turn] = "done"
  BY <1>1 DEF ImageRight
<1>4. release' \in [Runs -> Runs \union {NoImage}]
  BY <1>1 DEF BuildTyped
<1>5. \A n \in secrets' \ refused' : n \in secrets \ refused /\ n # turn
  BY <1>1 DEF Cleared
<1>6. step \notin Rests
  BY <1>1 DEF Rests
<1> QED BY <1>1, <1>2, <1>3, <1>4, <1>5, <1>6, Ends

LEMMA ChecksTag ==
    ASSUME BuildInv, CheckTag
    PROVE  BuildInv'
<1> USE DEF BuildInv
<1>1. /\ step = "tag" /\ turn \in Runs /\ EndBuild /\ UNCHANGED <<secrets, refused, buildx, receipts>>
      /\ release' = [release EXCEPT ![turn] = receipts[turn]]
  BY DEF CheckTag, Tagged, BuildTyped, Rests
<1>2. buildx[turn] = "done" /\ receipts[turn] = turn /\ release[turn] = NoImage /\ secrets \ refused = {}
  BY <1>1 DEF StepRight, SecretsSwept
<1>3. /\ release' \in [Runs -> Runs \union {NoImage}] /\ release'[turn] = turn
      /\ \A n \in Runs : n # turn => release'[n] = release[n]
  BY <1>1, <1>2 DEF BuildTyped
<1>4. secrets' \ refused' = {} /\ step \notin Rests
  BY <1>1, <1>2 DEF Rests
<1>5. buildx' \in [Runs -> {"none", "runs", "loaded", "done", "failed"}]
  BY <1>1 DEF BuildTyped
<1> QED BY <1>1, <1>2, <1>3, <1>4, <1>5, Ends

LEMMA BuildDies ==
    ASSUME BuildInv, BuildCrash
    PROVE  BuildInv'
<1> USE DEF BuildInv
<1>1. /\ step' = "dead" /\ src' = NoSource /\ step \notin {"idle", "dead"}
      /\ UNCHANGED <<folder, turn, copies, secrets, refused, buildx, made, receipts, release>>
  BY DEF BuildCrash, onDisk, inDocker
<1>2. NoSource \in [text : Texts, bases : FoundBases, file : Nat]
  BY BuildAssumption DEF NoSource, FoundBases, Outside
<1>3. BuildTyped'
  BY <1>1, <1>2 DEF BuildTyped, BuildSteps, Rests
<1>4. StepRight' /\ SecretsSwept'
  BY <1>1 DEF StepRight, SecretsSwept
<1>5. \A n \in Runs : ImageRight(n)'
  BY <1>1, ImagesKept
<1> QED BY <1>3, <1>4, <1>5

\* A command that writes leaves only what it could not remove.
LEMMA OpensRuntime ==
    ASSUME BuildInv, Opens \/ NothingToDeploy
    PROVE  BuildInv'
<1> USE DEF BuildInv
<1>1. /\ step \in Rests /\ step' \in {"idle", "opened"}
      /\ UNCHANGED <<folder, turn, src, copies, buildx, made, receipts, release>>
  BY DEF Opens, NothingToDeploy, Rests, onDisk, inDocker
<1>2. secrets' \ refused' = {}
  <2>1. CASE Opens
    BY <2>1 DEF Opens, Swept
  <2>2. CASE NothingToDeploy
    BY <2>2 DEF NothingToDeploy, onDisk, SecretsSwept
  <2> QED BY <2>1, <2>2
<1>3. BuildTyped' /\ StepRight' /\ SecretsSwept'
  BY <1>1, <1>2 DEF BuildTyped, BuildSteps, Rests, StepRight, SecretsSwept
<1>4. \A n \in Runs : ImageRight(n)'
  BY <1>1, ImagesKept
<1> QED BY <1>3, <1>4

\* A deployment begins with the number after the last one's: nothing is known of it.
LEMMA PreparesSource ==
    ASSUME BuildInv, PrepareSource
    PROVE  BuildInv'
<1> USE DEF BuildInv
<1>1. /\ step = "opened" /\ turn < MaxRuns /\ step' = "confine" /\ turn' = turn + 1
      /\ src' = [NoSource EXCEPT !.bases = Requires[folder.text]]
      /\ UNCHANGED <<folder, copies, secrets, refused, buildx, made, receipts, release>>
  BY DEF PrepareSource, onDisk, inDocker
<1>2. turn \in Nat /\ MaxRuns \in Nat /\ turn + 1 \in Runs /\ turn + 1 > turn
  BY <1>1, BuildAssumption DEF BuildTyped, Runs
<1>3. src' \in [text : Texts, bases : FoundBases, file : Nat]
  <2>1. Requires[folder.text] \in FoundBases
    BY FolderFields
  <2> QED BY <1>1, <2>1, BuildAssumption DEF NoSource, Outside
<1>4. BuildTyped'
  BY <1>1, <1>2, <1>3 DEF BuildTyped, BuildSteps, Rests
<1>5. turn + 1 \notin DOMAIN copies /\ ImageRight(turn + 1)
  BY <1>2 DEF BuildTyped
<1>6. StepRight'
  BY <1>1, <1>2, <1>5 DEF StepRight, ImageRight
<1>7. SecretsSwept'
  BY <1>1, <1>5 DEF SecretsSwept
<1>8. ASSUME NEW n \in Runs PROVE ImageRight(n)'
  <2>1. ImageRight(n) /\ n \in Nat
    BY DEF Runs
  <2>2. n > turn + 1 => n > turn
    BY <1>2, <2>1
  <2> QED BY <1>1, <2>1, <2>2 DEF ImageRight, Right
<1> QED BY <1>4, <1>6, <1>7, <1>8

\* So does a rollback, which runs an image that an earlier deployment ran.
LEMMA PreparesRollback ==
    ASSUME BuildInv, NEW r \in Runs, PrepareRollback(r)
    PROVE  BuildInv'
<1> USE DEF BuildInv
<1>1. /\ step = "opened" /\ step' = "idle" /\ turn < MaxRuns /\ turn' = turn + 1 /\ release[r] # NoImage
      /\ release' = [release EXCEPT ![turn + 1] = release[r]]
      /\ UNCHANGED <<folder, src, copies, secrets, refused, buildx, made, receipts>>
  BY DEF PrepareRollback, onDisk, inDocker
<1>2. turn \in Nat /\ MaxRuns \in Nat /\ turn + 1 \in Runs /\ turn + 1 > turn
  BY <1>1, BuildAssumption DEF BuildTyped, Runs
<1>3. /\ release' \in [Runs -> Runs \union {NoImage}] /\ release'[turn + 1] = release[r]
      /\ \A n \in Runs : n # turn + 1 => release'[n] = release[n]
  BY <1>1, <1>2 DEF BuildTyped
<1>4. BuildTyped'
  BY <1>1, <1>2, <1>3 DEF BuildTyped, BuildSteps, Rests
<1>5. ImageRight(turn + 1) /\ ImageRight(r) /\ ~(r > turn) /\ r \in Nat
  BY <1>1, <1>2 DEF ImageRight, Runs
<1>6. StepRight' /\ SecretsSwept'
  BY <1>1 DEF StepRight, SecretsSwept
<1>7. ASSUME NEW n \in Runs PROVE ImageRight(n)'
  <2>1. ImageRight(n) /\ n \in Nat
    BY DEF Runs
  <2>2. n > turn + 1 => n > turn /\ n # turn + 1
    BY <1>2, <2>1
  <2>3. n > turn + 1 => buildx'[n] = "none" /\ receipts'[n] = NoImage /\ release'[n] = NoImage
    BY <1>1, <1>3, <2>1, <2>2 DEF ImageRight
  <2>4. CASE n = turn + 1
    <3>1. r \in 1 .. n - 1 /\ r # turn + 1 /\ release'[n] = release'[r]
      BY <1>2, <1>3, <1>5, <2>4 DEF Runs
    <3>2. receipts[release[r]] = release[r]
      BY <1>1, <1>5 DEF ImageRight
    <3> QED BY <1>1, <1>3, <2>1, <2>3, <2>4, <3>1, <3>2 DEF ImageRight, Right
  <2>5. CASE n # turn + 1
    <3>1. release'[n] = release[n]
      BY <1>3, <2>5
    <3>2. ASSUME NEW k \in 1 .. n - 1, release[n] = release[k], release[n] # NoImage
          PROVE  release'[n] = release'[k]
      <4>1. k \in Runs /\ k # turn + 1
        BY <1>2, <1>5, <2>1, <3>2 DEF Runs, ImageRight
      <4> QED BY <1>3, <3>1, <3>2, <4>1
    <3> QED BY <1>1, <2>1, <2>3, <3>1, <3>2 DEF ImageRight, Right
  <2> QED BY <2>4, <2>5
<1> QED BY <1>4, <1>6, <1>7

LEMMA Confines ==
    ASSUME BuildInv, Confine
    PROVE  BuildInv'
<1> USE DEF BuildInv
<1>1. /\ step = "confine" /\ step' = "copy" /\ src' = [src EXCEPT !.text = folder.text]
      /\ UNCHANGED <<folder, turn, copies, secrets, refused, buildx, made, receipts, release>>
  BY DEF Confine, Does, onDisk, inDocker
<1>2. src' \in [text : Texts, bases : FoundBases, file : Nat]
  BY <1>1, FolderFields DEF BuildTyped
<1>3. BuildTyped' /\ StepRight' /\ SecretsSwept'
  BY <1>1, <1>2 DEF BuildTyped, BuildSteps, Rests, StepRight, SecretsSwept
<1>4. \A n \in Runs : ImageRight(n)'
  BY <1>1, ImagesKept
<1> QED BY <1>3, <1>4

\* One more thing of the folder is in the copy, and what it was compared with is
\* kept beside it (copy_tree).
LEMMA Copies ==
    ASSUME BuildInv, NEW c \in Copy, CopyIs(c), NEW here, NEW next,
           Does(here, next), here \in {"copy", "folder", "look", "open"}, next \in {"folder", "look", "open", "compare"},
           src' \in [text : Texts, bases : FoundBases, file : Nat], src'.text = src.text, src'.bases = src.bases,
           c.checked = src.text, c.bases = src.bases
    PROVE  BuildInv'
<1> USE DEF BuildInv
<1>1. /\ step = here /\ step' = next /\ turn \in Runs
      /\ UNCHANGED <<folder, turn, secrets, refused, buildx, made, receipts, release>>
  BY DEF Does, CopyIs, inDocker, BuildTyped, Rests
<1>2. /\ DOMAIN copies' = DOMAIN copies \union {turn} /\ copies'[turn] = c
      /\ \A n \in DOMAIN copies : n # turn => copies'[n] = copies[n]
  BY DEF CopyIs
<1>3. turn \in 1 .. turn
  BY <1>1, BuildAssumption DEF Runs
<1>4. BuildTyped'
  BY <1>1, <1>2, <1>3 DEF BuildTyped, BuildSteps, Rests
<1>5. StepRight' /\ SecretsSwept'
  BY <1>1, <1>2 DEF StepRight, SecretsSwept
<1>6. \A n \in Runs : ImageRight(n)'
  <2>1. buildx[turn] = "none"
    BY <1>1 DEF StepRight
  <2> QED BY <1>1, <1>2, <2>1, ImagesKept
<1> QED BY <1>4, <1>5, <1>6

LEMMA CopiesDockerfile ==
    ASSUME BuildInv, CopyDockerfile
    PROVE  BuildInv'
<1>1. /\ folder.text \in Texts /\ folder.link \in BOOLEAN /\ src.text \in Texts /\ src.bases \in FoundBases
      /\ src \in [text : Texts, bases : FoundBases, file : Nat]
  BY FolderFields DEF BuildInv, BuildTyped
<1> DEFINE c == [text |-> folder.text, link |-> folder.link, file |-> "none",
                 checked |-> src.text, bases |-> src.bases]
<1>2. c \in Copy /\ c.checked = src.text /\ c.bases = src.bases
  BY <1>1 DEF Copy
<1>3. Does("copy", "folder") /\ src' = src /\ CopyIs(c)
  BY DEF CopyDockerfile
<1>4. PICK k : k = c
  OBVIOUS
<1> HIDE DEF c
<1>5. k \in Copy /\ CopyIs(k) /\ k.checked = src.text /\ k.bases = src.bases
  BY <1>2, <1>3, <1>4
<1> QED BY <1>1, <1>3, <1>5, Copies

\* A file of the copy, or what stands for it.
LEMMA FileIsCopied ==
    ASSUME BuildInv, NEW f \in {"none", "link", "own", "folder followed"}, FileIs(f), NEW here, NEW next,
           Does(here, next), here \in {"folder", "look", "open"}, next \in {"look", "open", "compare"},
           src' \in [text : Texts, bases : FoundBases, file : Nat], src'.text = src.text, src'.bases = src.bases
    PROVE  BuildInv'
<1>1. step = here /\ turn \in DOMAIN copies /\ copies[turn] \in Copy
      /\ copies[turn].checked = src.text /\ copies[turn].bases = src.bases
  BY DEF BuildInv, BuildTyped, StepRight, Does
<1>2. PICK k : k = [copies[turn] EXCEPT !.file = f]
  OBVIOUS
<1>3. k \in Copy /\ k.checked = src.text /\ k.bases = src.bases
  BY <1>1, <1>2, CopyFile
<1>4. CopyIs(k)
  BY <1>2 DEF FileIs
<1> QED BY <1>3, <1>4, Copies

LEMMA CopiesFolder ==
    ASSUME BuildInv, CopyFolder \/ LookAtFile \/ OpenFile
    PROVE  BuildInv'
<1>1. src \in [text : Texts, bases : FoundBases, file : Nat]
  BY DEF BuildInv, BuildTyped
<1>2. CASE CopyFolder
  BY <1>1, <1>2, FileIsCopied DEF CopyFolder
<1>3. CASE LookAtFile
  <2>1. CASE Does("look", "compare") /\ FileIs("link") /\ src' = src
    BY <1>1, <2>1, FileIsCopied
  <2>2. CASE Does("look", "open") /\ FileIs("none") /\ src' = [src EXCEPT !.file = Seen]
    <3>1. Seen \in Nat
      BY FolderFields DEF Seen, BuildInv
    <3>2. /\ src' \in [text : Texts, bases : FoundBases, file : Nat]
          /\ src'.text = src.text /\ src'.bases = src.bases
      BY <1>1, <2>2, <3>1
    <3> QED BY <2>2, <3>2, FileIsCopied
  <2> QED BY <1>3, <2>1, <2>2 DEF LookAtFile
<1>4. CASE OpenFile
  <2>1. /\ Does("open", "compare") /\ src' = src
        /\ FileIs("own") \/ FileIs("folder followed")
    BY <1>4 DEF OpenFile, SameFile
  <2> QED BY <1>1, <2>1, FileIsCopied
<1> QED BY <1>2, <1>3, <1>4

\* The copied Dockerfile is the checked one, or a link that leads to such a one now.
LEMMA Compares ==
    ASSUME BuildInv, Compare
    PROVE  BuildInv'
<1> USE DEF BuildInv
<1>1. /\ step = "compare" /\ step' = "sweep" /\ AsChecked
      /\ UNCHANGED <<folder, turn, src, copies, secrets, refused, buildx, made, receipts, release>>
  BY DEF Compare, Does, onDisk, inDocker
<1>2. Right(copies[turn])
  BY <1>1 DEF StepRight, Right, AsChecked, TextOf
<1>3. BuildTyped' /\ StepRight' /\ SecretsSwept'
  BY <1>1, <1>2 DEF BuildTyped, BuildSteps, Rests, StepRight, SecretsSwept, Right
<1>4. \A n \in Runs : ImageRight(n)'
  BY <1>1, ImagesKept
<1> QED BY <1>3, <1>4

LEMMA Sweeps ==
    ASSUME BuildInv, Sweep
    PROVE  BuildInv'
<1> USE DEF BuildInv
<1>1. /\ step = "sweep" /\ step' = "secrets" /\ secrets' \ refused' = {}
      /\ UNCHANGED <<folder, turn, src, copies, buildx, made, receipts, release>>
  BY DEF Sweep, Swept, Does, inDocker
<1>2. BuildTyped' /\ StepRight' /\ SecretsSwept'
  BY <1>1 DEF BuildTyped, BuildSteps, Rests, StepRight, SecretsSwept, Right
<1>3. \A n \in Runs : ImageRight(n)'
  BY <1>1, ImagesKept
<1> QED BY <1>2, <1>3

LEMMA StartsBuildx ==
    ASSUME BuildInv, StartBuildx
    PROVE  BuildInv'
<1> USE DEF BuildInv
<1>1. /\ step = "secrets" /\ step' = "run" /\ turn \in Runs /\ secrets' = secrets \union {turn}
      /\ buildx' = [buildx EXCEPT ![turn] = "runs"]
      /\ UNCHANGED <<folder, turn, src, copies, refused, made, receipts, release>>
  BY DEF StartBuildx, Does, inDocker, BuildTyped, Rests
<1>2. /\ buildx' \in [Runs -> {"none", "runs", "loaded", "done", "failed"}] /\ buildx'[turn] = "runs"
      /\ \A n \in Runs : n # turn => buildx'[n] = buildx[n]
  BY <1>1 DEF BuildTyped
<1>3. turn \in DOMAIN copies /\ Right(copies[turn]) /\ receipts[turn] = NoImage /\ secrets \ refused = {}
  BY <1>1 DEF StepRight, SecretsSwept
<1>4. BuildTyped' /\ StepRight' /\ SecretsSwept'
  BY <1>1, <1>2, <1>3 DEF BuildTyped, BuildSteps, Rests, StepRight, SecretsSwept
<1>5. ASSUME NEW n \in Runs PROVE ImageRight(n)'
  <2>1. ImageRight(n) /\ n \in Nat /\ turn \in Nat /\ ~(turn > turn)
    BY <1>1 DEF Runs, BuildTyped
  <2>2. CASE n = turn
    BY <1>1, <1>2, <1>3, <2>1, <2>2 DEF ImageRight, Right
  <2>3. CASE n # turn
    BY <1>1, <1>2, <2>1, <2>3 DEF ImageRight, Right
  <2> QED BY <2>2, <2>3
<1> QED BY <1>4, <1>5

\* Buildx goes on, for whichever deployment it was started, also after a crash.
LEMMA BuildxGoesOn ==
    ASSUME BuildInv, NEW r \in Runs, Loads(r) \/ WritesId(r) \/ BuildxFails(r)
    PROVE  BuildInv'
<1> USE DEF BuildInv
<1>1. /\ buildx[r] \in {"runs", "loaded"}
      /\ UNCHANGED <<folder, step, turn, src, copies, secrets, refused, receipts, release>>
  BY DEF Loads, WritesId, BuildxFails, onDisk, inDocker
<1>2. /\ buildx' \in [Runs -> {"none", "runs", "loaded", "done", "failed"}]
      /\ buildx'[r] \in {"loaded", "done", "failed"}
      /\ \A n \in Runs : n # r => buildx'[n] = buildx[n]
  BY DEF Loads, WritesId, BuildxFails, BuildTyped
<1>3. /\ made' \in [Runs -> Copy] /\ \A n \in Runs : n # r => made'[n] = made[n]
      /\ buildx'[r] \in {"loaded", "done"} => Right(made'[r])
  <2>1. CASE Loads(r)
    <3>1. r \in DOMAIN copies /\ copies[r] \in Copy /\ Right(copies[r])
      BY <2>1 DEF Loads, ImageRight, BuildTyped
    <3>2. TextOf(r) \in Texts /\ (~copies[r].link => TextOf(r) = copies[r].text)
      <4>1. copies[r].text \in Texts
        BY <3>1 DEF Copy
      <4> QED BY <4>1, FolderFields DEF TextOf
    <3>3. PICK k : k = [copies[r] EXCEPT !.text = TextOf(r)]
      OBVIOUS
    <3>4. k \in Copy /\ Right(k)
      BY <3>1, <3>2, <3>3, CopyText DEF Right
    <3>5. made' = [made EXCEPT ![r] = k]
      BY <2>1, <3>3 DEF Loads
    <3> QED BY <3>4, <3>5 DEF BuildTyped
  <2>2. CASE WritesId(r) \/ BuildxFails(r)
    <3>1. made' = made /\ (buildx'[r] \in {"loaded", "done"} => buildx[r] = "loaded")
      BY <2>2 DEF WritesId, BuildxFails, inDocker, BuildTyped, Rests
    <3> QED BY <3>1 DEF ImageRight, BuildTyped
  <2> QED BY <2>1, <2>2
<1>4. receipts[r] = NoImage /\ ~(r > turn)
  BY <1>1 DEF ImageRight
<1>5. BuildTyped' /\ SecretsSwept'
  BY <1>1, <1>2, <1>3 DEF BuildTyped, SecretsSwept
<1>6. StepRight'
  <2>1. step \notin Rests => turn \in Runs
    BY DEF BuildTyped
  <2>2. step \in {"confine", "copy", "folder", "look", "open", "compare", "sweep", "secrets",
                  "inspect", "receipt", "tag"} => turn # r
    BY <1>1 DEF StepRight
  <2> QED BY <1>1, <1>2, <2>1, <2>2 DEF StepRight, Rests, Right
<1>7. ASSUME NEW n \in Runs PROVE ImageRight(n)'
  <2>1. ImageRight(n)
    OBVIOUS
  <2>2. CASE n = r
    BY <1>1, <1>2, <1>3, <1>4, <2>1, <2>2 DEF ImageRight
  <2>3. CASE n # r
    BY <1>1, <1>2, <1>3, <2>1, <2>3 DEF ImageRight, Right
  <2> QED BY <2>2, <2>3
<1> QED BY <1>5, <1>6, <1>7

LEMMA Builds ==
    ASSUME BuildInv, Built
    PROVE  BuildInv'
<1> USE DEF BuildInv
<1>1. /\ step = "run" /\ step' = "inspect" /\ buildx[turn] = "done" /\ turn \in Runs
      /\ Cleared
      /\ UNCHANGED <<folder, turn, src, copies, buildx, made, receipts, release>>
  BY DEF Built, Does, inDocker, BuildTyped, Rests
<1>2. secrets' \ refused' = {}
  BY <1>1 DEF SecretsSwept, Cleared
<1>3. BuildTyped' /\ StepRight' /\ SecretsSwept'
  BY <1>1, <1>2 DEF BuildTyped, BuildSteps, Rests, StepRight, SecretsSwept
<1>4. \A n \in Runs : ImageRight(n)'
  BY <1>1, ImagesKept
<1> QED BY <1>3, <1>4

LEMMA InspectsImage ==
    ASSUME BuildInv, Inspect
    PROVE  BuildInv'
<1> USE DEF BuildInv
<1>1. /\ step = "inspect" /\ step' = "receipt"
      /\ UNCHANGED <<folder, turn, src, copies, secrets, refused, buildx, made, receipts, release>>
  BY DEF Inspect, Does, onDisk, inDocker
<1>2. BuildTyped' /\ StepRight' /\ SecretsSwept'
  BY <1>1 DEF BuildTyped, BuildSteps, Rests, StepRight, SecretsSwept
<1>3. \A n \in Runs : ImageRight(n)'
  BY <1>1, ImagesKept
<1> QED BY <1>2, <1>3

LEMMA Receives ==
    ASSUME BuildInv, ReceiveImage
    PROVE  BuildInv'
<1> USE DEF BuildInv
<1>1. /\ step = "receipt" /\ step' = "tag" /\ turn \in Runs /\ receipts' = [receipts EXCEPT ![turn] = turn]
      /\ UNCHANGED <<folder, turn, src, copies, secrets, refused, buildx, made, release>>
  BY DEF ReceiveImage, Does, onDisk, inDocker, BuildTyped, Rests
<1>2. /\ receipts' \in [Runs -> Runs \union {NoImage}] /\ receipts'[turn] = turn
      /\ \A n \in Runs : n # turn => receipts'[n] = receipts[n]
  BY <1>1 DEF BuildTyped
<1>3. buildx[turn] = "done" /\ release[turn] = NoImage /\ turn \in Nat /\ NoImage \notin Runs
  BY <1>1 DEF StepRight, BuildTyped, NoImage, Runs
<1>4. BuildTyped' /\ StepRight' /\ SecretsSwept'
  BY <1>1, <1>2 DEF BuildTyped, BuildSteps, Rests, StepRight, SecretsSwept
<1>5. ASSUME NEW n \in Runs PROVE ImageRight(n)'
  <2>1. ImageRight(n) /\ ~(turn > turn)
    BY <1>3
  <2>2. release[n] # NoImage => release[n] \in Runs /\ receipts'[release[n]] = release[n]
    BY <1>2, <2>1 DEF ImageRight, BuildTyped
  <2>3. CASE n = turn
    BY <1>1, <1>2, <1>3, <2>1, <2>2, <2>3 DEF ImageRight, Right
  <2>4. CASE n # turn
    BY <1>1, <1>2, <2>1, <2>2, <2>4 DEF ImageRight, Right
  <2> QED BY <2>3, <2>4
<1> QED BY <1>4, <1>5

\* The surroundings change the folder, the images and the tags, never what is
\* remembered of them.
LEMMA OthersAreApart ==
    ASSUME BuildInv, Edits \/ OthersAct
    PROVE  BuildInv'
<1> USE DEF BuildInv
<1>1. UNCHANGED <<step, turn, src, copies, secrets, refused, buildx, made, receipts, release>>
  BY DEF Edits, OthersAct, onDisk, inDocker
<1>2. folder' \in [text : Texts, link : BOOLEAN, dir : {"dir", "link"}, kind : {"file", "link"}, file : Nat \ {0}]
  <2>1. folder \in [text : Texts, link : BOOLEAN, dir : {"dir", "link"}, kind : {"file", "link"}, file : Nat \ {0}]
    BY DEF BuildTyped
  <2>2. folder.file + 1 \in Nat \ {0} /\ (~folder.link) \in BOOLEAN
    BY <2>1
  <2>3. CASE UNCHANGED folder
    BY <2>1, <2>3
  <2>4. ASSUME NEW t \in Texts, folder' = [folder EXCEPT !.text = t]
        PROVE  folder' \in [text : Texts, link : BOOLEAN, dir : {"dir", "link"}, kind : {"file", "link"}, file : Nat \ {0}]
    BY <2>1, <2>4
  <2>5. CASE folder' = [folder EXCEPT !.link = ~folder.link]
    BY <2>1, <2>2, <2>5
  <2>6. ASSUME NEW d \in {"dir", "link"}, folder' = [folder EXCEPT !.dir = d]
        PROVE  folder' \in [text : Texts, link : BOOLEAN, dir : {"dir", "link"}, kind : {"file", "link"}, file : Nat \ {0}]
    BY <2>1, <2>6
  <2>7. ASSUME NEW k \in {"file", "link"}, folder' = [folder EXCEPT !.kind = k, !.file = folder.file + 1]
        PROVE  folder' \in [text : Texts, link : BOOLEAN, dir : {"dir", "link"}, kind : {"file", "link"}, file : Nat \ {0}]
    BY <2>1, <2>2, <2>7
  <2> QED BY <2>3, <2>4, <2>5, <2>6, <2>7 DEF Edits, OthersAct
<1>3. BuildTyped' /\ StepRight' /\ SecretsSwept'
  BY <1>1, <1>2 DEF BuildTyped, StepRight, SecretsSwept, Right
<1>4. \A n \in Runs : ImageRight(n)'
  BY <1>1, ImagesKept
<1> QED BY <1>3, <1>4

-----------------------------------------------------------------------------
(* Build: the invariant and its theorems *)

LEMMA BuildStepsKeep ==
    ASSUME BuildInv, [BuildNext]_buildVars
    PROVE  BuildInv'
<1>1. CASE UNCHANGED buildVars
  <2>1. UNCHANGED <<folder, step, turn, src, copies, secrets, refused, buildx, made, receipts, release>>
    BY <1>1 DEF buildVars, onDisk, inDocker
  <2>2. BuildTyped' /\ StepRight' /\ SecretsSwept'
    BY <2>1 DEF BuildInv, BuildTyped, StepRight, SecretsSwept, Right
  <2> QED BY <2>1, <2>2, ImagesKept DEF BuildInv
<1>2. CASE BuildNext
  BY <1>2, OpensRuntime, PreparesSource, PreparesRollback, Confines, CopiesDockerfile, CopiesFolder, Compares, Sweeps,
     StartsBuildx, Builds, NotBuilds, InspectsImage, Receives, ChecksTag, GivesUp, BuildDies, BuildxGoesOn,
     OthersAreApart DEF BuildNext
<1> QED BY <1>1, <1>2

\* What is on disk, in Docker and in the ledger fits the step the process is at,
\* and nothing that a crash left changes what an earlier deployment runs.
LEMMA BuildHolds == FoundationsSpec => []BuildInv
<1>1. FoundationsInit => BuildInv
  BY PartsMove, BuildBegins
<1>2. BuildInv /\ [FoundationsNext]_foundationVars => BuildInv'
  BY PartsMove, BuildStepsKeep
<1> QED BY <1>1, <1>2, PTL DEF FoundationsSpec

\* A deployment runs the image that its own build, or that of the release it
\* rolls back to, reported, made from the Dockerfile that was checked and from no
\* file that a link led to since it was looked at, however often the folder is
\* edited and images are retagged or removed (confine, copy_tree,
\* build_from_snapshot, prepare_rollback_image).
THEOREM CheckedImageRuns == FoundationsSpec => []RunsWhatWasChecked
<1>1. BuildInv => RunsWhatWasChecked
  <2> SUFFICES ASSUME BuildInv, NEW n \in Runs, release[n] # NoImage
               PROVE  LET m == made[release[n]] IN
                      /\ release[n] = n \/ \E k \in 1 .. n - 1 : release[n] = release[k]
                      /\ receipts[release[n]] = release[n]
                      /\ ~m.link => m.text = m.checked /\ Requires[m.checked] = m.bases
                      /\ m.file # "link followed"
    BY DEF RunsWhatWasChecked
  <2>1. ImageRight(n) /\ release[n] \in Runs /\ NoImage \notin Runs
    BY DEF BuildInv, BuildTyped, NoImage, Runs
  <2>2. receipts[release[n]] = release[n] /\ ImageRight(release[n])
    BY <2>1 DEF BuildInv, ImageRight
  <2>3. Right(made[release[n]]) /\ made[release[n]] \in Copy
    BY <2>1, <2>2 DEF BuildInv, BuildTyped, ImageRight
  <2>4. made[release[n]].file # "link followed"
    BY <2>3 DEF Copy
  <2> QED BY <2>1, <2>2, <2>3, <2>4 DEF ImageRight, Right
<1> QED BY <1>1, BuildHolds, PTL

\* Secrets are on disk only for the build whose process is in Buildx, or died
\* there with no command begun since, or because their own latest removal failed,
\* for any number of deployments, crashes and failed removals (SecretFiles).
THEOREM SecretsStaySwept == FoundationsSpec => []SecretsSwept
<1>1. BuildInv => SecretsSwept
  BY DEF BuildInv
<1> QED BY <1>1, BuildHolds, PTL

-----------------------------------------------------------------------------
(* The store: the file, the SQLite rows and the process that holds the lock *)

\* The file journal stores deployments only: it has no other records.
SnapLine == {Snapshot(d, s) : d \in LogDep, s \in Status}
FileRec == [exists : BOOLEAN, header : BOOLEAN, lines : Seq(SnapLine), torn : BOOLEAN]
View == [LogDep -> Status \union {"none"}]

InFile == {"cut", "dir", "write", "sync", "ready", "broken"}
Removing == {"copy", "prove", "drop"}
InSql == {"migrate", "restore", "import", "sqlready"} \union Removing
Writer == [at : {"closed"} \union InFile \union InSql, view : View, run : LogDep \union {NoRun},
           line : SnapLine \union {Header, NoLine}, mark : BOOLEAN, glued : {FALSE}]
SqlRec == [exists : BOOLEAN, schema : 0..REMOVAL_SCHEMA, rows : Seq(Line)]
Backup == [id : Nat, rows : Seq(Line), side : BOOLEAN]
ReaderRec == [at : {"idle", "store", "file"}, known : Nat, missed : SUBSET {"snapshot", "other", "gitdrop"}]

StoreTyped ==
    /\ file \in FileRec /\ durable \subseteq FileRec /\ w \in Writer /\ acked \in Nat
    /\ sql \in SqlRec /\ backups \subseteq Backup /\ tries \in Nat /\ reader \in ReaderRec

\* One sequence is what the other one begins with.
Begins(s, t) == Len(s) <= Len(t) /\ \A i \in 1..Len(s) : s[i] = t[i]

\* A power loss leaves a part of what is read now; the file's name is durable
\* before its header is written.
FileRight ==
    /\ file \in durable
    /\ \A f \in durable : Begins(f.lines, file.lines) /\ (~f.exists => f.lines = <<>>)
    /\ file.header => Absent \notin durable

\* What a process knows is what the log shows.
Shows(lines, v) ==
    \A d \in LogDep :
        IF v[d] = "none" THEN \A i \in 1..Len(lines) : lines[i].d # d
        ELSE \E i \in 1..Len(lines) :
                /\ lines[i].d = d /\ lines[i].status = v[d]
                /\ \A j \in 1..Len(lines) : j > i => lines[j].d # d

ViewAfter(v, l) == IF IsSnapshot(l) THEN [v EXCEPT ![l.d] = l.status] ELSE v
MayWrite(h) == IF h.mark THEN MarkLines(h.view) ELSE NextLines(h.view, h.run)

\* The writer at each place: where it writes, that no torn line is before it,
\* what it knows of the log and what it is about to add.
RunKnown(h) == h.run # NoRun => ~h.mark /\ h.view[h.run] \in {"Running", "Recovering"}
WriterRight ==
    /\ w.at \in InFile => ~sql.exists /\ file.exists
    /\ w.at \in InSql => sql.exists /\ (w.run = NoRun \/ w.at = "sqlready")
    /\ w.at \in {"dir", "sync", "ready"} => ~file.torn
    /\ w.at \in {"write", "sync", "ready"} => Absent \notin durable
    /\ RunKnown(w)
    /\ w.at \in {"cut", "dir", "write", "ready"} => Shows(file.lines, w.view)
    /\ w.at \in {"write", "sync"} => w.line = Header \/ w.line \in MayWrite(w)
    /\ w.at = "sync" => Shows(file.lines, ViewAfter(w.view, w.line))
    /\ w.at \in {"sqlready"} \union Removing => Shows(sql.rows, w.view)

\* The removal of a registration at each place.
RemovalRight ==
    /\ w.at \in Removing => sql.rows # <<>>
    /\ w.at = "copy" => \A b \in backups : b.id # tries
    /\ w.at = "prove" => \A b \in backups : b.id = tries => ~b.side
    /\ w.at = "drop" => \/ sql.schema = REMOVAL_SCHEMA
                        \/ \E b \in backups : b.side /\ b.rows = sql.rows

\* The file is taken over whole, and before anything else is recorded.
ImportRight ==
    /\ ~sql.exists => sql.rows = <<>>
    /\ sql.rows # <<>> /\ NoDeployments(sql.rows) => file.lines = <<>>
    /\ w.at = "sqlready" /\ sql.rows = <<>> => file.lines = <<>>
    /\ w.at = "import" => NoDeployments(sql.rows)

\* What was acknowledged is in the log and in everything a power loss may leave.
AckedRight ==
    /\ acked <= Len(Log)
    /\ sql.rows = <<>> => \A f \in durable : acked <= Len(f.lines)

BackupRight ==
    /\ \A b \in backups : b.id <= tries
    /\ sql.schema = REMOVAL_SCHEMA =>
          \E b \in backups : /\ b.side /\ Len(b.rows) < Len(sql.rows)
                             /\ Begins(b.rows, sql.rows)
                             /\ sql.rows[Len(b.rows) + 1].kind = "gitdrop"

\* A reader that has turned to the file finds there every deployment record it
\* must return, also when the file has been imported meanwhile.
ReaderRight ==
    /\ "snapshot" \notin reader.missed
    /\ reader.at # "idle" => reader.known <= Len(Log)
    /\ reader.at = "file" /\ sql.rows # <<>> =>
          \A i \in 1..reader.known : IsSnapshot(sql.rows[i]) =>
              \E j \in 1..Len(file.lines) : file.lines[j] = sql.rows[i]

ReplaysRight == Replays(file.lines) /\ Replays(sql.rows)

StoreInv ==
    /\ StoreTyped /\ FileRight /\ WriterRight /\ RemovalRight /\ ImportRight
    /\ AckedRight /\ BackupRight /\ ReaderRight /\ ReplaysRight

-----------------------------------------------------------------------------
(* The store: what a log shows *)

LEMMA StoreNumbers ==
    /\ LogDep \subseteq Nat \ {0} /\ NoRun \notin LogDep /\ NoRun \in Nat
    /\ MaxBackups \in Nat
BY JournalAssumption, StoreAssumption DEF NoRun

\* A record is a snapshot of a deployment or is of none.
LEMMA LineFields ==
    ASSUME NEW l \in Line
    PROVE  /\ IsSnapshot(l) <=> l.kind = "snapshot"
           /\ IsSnapshot(l) => l \in SnapLine /\ l.d \in LogDep /\ l.status \in Status
           /\ ~IsSnapshot(l) => l.d = NoRun
           /\ l # Damaged /\ l # Header
           /\ l.kind \in {"snapshot", "other", "gitdrop"}
BY DEF Line, SnapLine, Snapshot, Other, IsSnapshot, Damaged, Header

LEMMA SnapshotFields ==
    ASSUME NEW d \in LogDep, NEW s \in Status
    PROVE  /\ Snapshot(d, s) \in SnapLine /\ Snapshot(d, s) \in Line
           /\ Snapshot(d, s).d = d /\ Snapshot(d, s).status = s /\ IsSnapshot(Snapshot(d, s))
BY DEF Line, SnapLine, Snapshot, IsSnapshot

LEMMA SnapLines ==
    /\ SnapLine \subseteq Line
    /\ \A l \in SnapLine : IsSnapshot(l) /\ l.d \in LogDep /\ l.status \in Status
    /\ Other("other") \in Line /\ Other("gitdrop") \in Line
    /\ ~IsSnapshot(Other("other")) /\ ~IsSnapshot(Other("gitdrop")) /\ ~IsSnapshot(Header)
    /\ Other("gitdrop").kind = "gitdrop"
    /\ Seq(SnapLine) \subseteq Seq(Line)
<1>1. SnapLine \subseteq Line
  BY DEF Line, SnapLine
<1>2. \A s \in Seq(SnapLine) : s \in Seq(Line)
  BY <1>1
<1> QED BY <1>1, <1>2 DEF Line, SnapLine, Snapshot, Other, IsSnapshot, Header

\* Appending, element by element.
LEMMA AppendIs ==
    ASSUME NEW S, NEW s \in Seq(S), NEW l \in S
    PROVE  /\ Append(s, l) \in Seq(S) /\ Append(s, l) # <<>>
           /\ Len(Append(s, l)) = Len(s) + 1 /\ Len(s) \in Nat
           /\ \A i \in 1..Len(s) : Append(s, l)[i] = s[i]
           /\ Append(s, l)[Len(s) + 1] = l
BY AppendProperties

LEMMA BeginsFacts ==
    ASSUME NEW S, NEW s \in Seq(S)
    PROVE  /\ Begins(s, s) /\ Begins(<<>>, s)
           /\ \A t \in Seq(S), u \in Seq(S) : Begins(s, t) /\ Begins(t, u) => Begins(s, u)
           /\ \A l \in S : Begins(s, Append(s, l))
           /\ \A t \in Seq(S), l \in S : Begins(s, t) => Begins(s, Append(t, l))
           /\ \A t \in Seq(S) : Begins(s, t) /\ t = <<>> => s = <<>>
<1>1. \A t \in Seq(S) : Len(t) \in Nat
  OBVIOUS
<1>2. \A l \in S : Begins(s, Append(s, l))
  BY AppendIs DEF Begins
<1>3. \A t \in Seq(S), u \in Seq(S) : Begins(s, t) /\ Begins(t, u) => Begins(s, u)
  BY <1>1 DEF Begins
<1>4. ASSUME NEW t \in Seq(S), NEW l \in S, Begins(s, t)
      PROVE  Begins(s, Append(t, l))
  <2>1. /\ Len(Append(t, l)) = Len(t) + 1 /\ Len(t) \in Nat /\ Len(s) \in Nat
        /\ \A i \in 1..Len(t) : Append(t, l)[i] = t[i]
    BY AppendIs
  <2> QED BY <1>4, <2>1 DEF Begins
<1>5. ASSUME NEW t \in Seq(S), Begins(s, t), t = <<>>
      PROVE  s = <<>>
  <2>1. Len(t) = 0 /\ Len(s) \in Nat
    BY <1>5
  <2>2. Len(s) = 0
    BY <1>5, <2>1 DEF Begins
  <2> QED BY <2>2
<1>6. Begins(s, s) /\ Begins(<<>>, s)
  BY <1>1 DEF Begins
<1> QED BY <1>2, <1>3, <1>4, <1>5, <1>6

\* The prefix of the community modules, element by element.
LEMMA BeginsIsPrefix ==
    ASSUME NEW S, NEW s \in Seq(S), NEW t \in Seq(S), Begins(s, t)
    PROVE  IsPrefix(s, t) /\ s = SubSeq(t, 1, Len(s))
<1> PICK n : n = Len(s)
  OBVIOUS
<1>1. n \in Nat /\ n \in Int /\ n <= Len(t) /\ Len(t) \in Nat
  BY DEF Begins
<1>2. \A i \in 1..n : t[i] \in S /\ s[i] \in S /\ s[i] = t[i]
  BY <1>1 DEF Begins
<1>3. /\ SubSeq(t, 1, n) \in Seq(S) /\ Len(SubSeq(t, 1, n)) = n
      /\ \A i \in 1..n : SubSeq(t, 1, n)[i] = t[i]
  BY <1>1, <1>2, SubSeqProperties
<1>4. /\ SubSeq(s, 1, n) \in Seq(S) /\ Len(SubSeq(s, 1, n)) = n
      /\ \A i \in 1..n : SubSeq(s, 1, n)[i] = s[i]
  BY <1>1, <1>2, SubSeqProperties
<1>5. s = SubSeq(t, 1, n)
  BY <1>1, <1>2, <1>3, SeqEqual
<1>6. SubSeq(s, 1, n) = SubSeq(t, 1, n)
  BY <1>1, <1>2, <1>3, <1>4, SeqEqual
<1> QED BY <1>1, <1>5, <1>6 DEF IsPrefix

\* The latest of the places where something is.
LEMMA LatestIs ==
    ASSUME NEW n \in Nat, NEW S, S \subseteq 1..n, S # {}
    PROVE  Max(S) \in S /\ \A j \in S : j <= Max(S)
<1> DEFINE R == StrictSubsetOrdering(1..n)
           F == FiniteSubsetsOf(1..n)
           Above(i) == {j \in S : j > i}
           T == {Above(i) : i \in S}
<1>2. IsFiniteSet(1..n)
  BY FS_Interval
<1>3. IsWellFoundedOn(R, F)
  BY FS_StrictSubsetOrderingWellFounded
<1>4. T \subseteq F
  <2>1. ASSUME NEW i \in S PROVE Above(i) \in F
    <3>1. Above(i) \in SUBSET (1..n)
      OBVIOUS
    <3>2. IsFiniteSet(Above(i))
      BY <1>2, <3>1, FS_Subset
    <3> QED BY <3>1, <3>2 DEF FiniteSubsetsOf
  <2> QED BY <2>1
<1>5. PICK x \in T : \A y \in T : <<y, x>> \notin R
  <2>1. T # {}
    OBVIOUS
  <2> QED BY <1>3, <1>4, <2>1, WFMin
<1>6. PICK i \in S : x = Above(i)
  BY <1>5
<1>7. \A j \in S : j <= i
  <2> SUFFICES ASSUME NEW j \in S, ~(j <= i) PROVE FALSE
    OBVIOUS
  <2>1. j \in Above(i) /\ j \notin Above(j) /\ Above(j) \subseteq Above(i)
    <3>1. \A k \in S : k \in Nat
      OBVIOUS
    <3>2. j > i /\ ~(j > j)
      BY <3>1
    <3>3. \A k \in S : k > j => k > i
      BY <3>1, <3>2
    <3> QED BY <3>2, <3>3, Zenon
  <2>2. <<Above(j), Above(i)>> \in R
    BY <2>1 DEF StrictSubsetOrdering
  <2>3. Above(j) \in T
    OBVIOUS
  <2> QED BY <1>5, <1>6, <2>2, <2>3
<1>8. \A j \in S : i >= j
  BY <1>7
<1>9. Max(S) \in S /\ \A j \in S : Max(S) >= j
  BY <1>8 DEF Max
<1> QED BY <1>9

\* A replay knows what the log shows.
LEMMA ReplayShows ==
    ASSUME NEW lines \in Seq(Line)
    PROVE  Replay(lines) \in View /\ Shows(lines, Replay(lines))
<1> DEFINE At(d) == {i \in DOMAIN lines : IsSnapshot(lines[i]) /\ lines[i].d = d}
<1>1. Len(lines) \in Nat /\ DOMAIN lines = 1..Len(lines)
  OBVIOUS
<1>2. \A i \in 1..Len(lines) : lines[i] \in Line
  BY <1>1
<1>3. \A d \in LogDep : At(d) = {i \in 1..Len(lines) : lines[i].d = d}
  BY <1>1, <1>2, LineFields, StoreNumbers
<1>4. Replay(lines) = [d \in LogDep |-> IF At(d) = {} THEN "none" ELSE lines[Max(At(d))].status]
  BY DEF Replay
<1>5. ASSUME NEW d \in LogDep, At(d) # {}
      PROVE  /\ lines[Max(At(d))].status \in Status /\ lines[Max(At(d))].d = d
             /\ Max(At(d)) \in 1..Len(lines)
             /\ \A j \in 1..Len(lines) : j > Max(At(d)) => lines[j].d # d
  <2>1. At(d) \subseteq 1..Len(lines)
    BY <1>3
  <2>2. Max(At(d)) \in At(d) /\ \A j \in At(d) : j <= Max(At(d))
    BY <1>1, <1>5, <2>1, LatestIs
  <2>3. lines[Max(At(d))] \in Line /\ IsSnapshot(lines[Max(At(d))])
    BY <1>2, <2>1, <2>2
  <2>4. \A j \in 1..Len(lines) : lines[j].d = d => j <= Max(At(d))
    BY <1>3, <2>2
  <2>5. Max(At(d)) \in 1..Len(lines) /\ lines[Max(At(d))].d = d
    BY <2>1, <2>2
  <2>6. \A j \in 1..Len(lines) : j > Max(At(d)) => lines[j].d # d
    BY <1>1, <2>4, <2>5
  <2> QED BY <2>3, <2>5, <2>6, LineFields
<1> HIDE DEF At
<1>6. Replay(lines) \in View
  BY <1>4, <1>5 DEF View
<1>7. Shows(lines, Replay(lines))
  <2> SUFFICES ASSUME NEW d \in LogDep
               PROVE  IF Replay(lines)[d] = "none" THEN \A i \in 1..Len(lines) : lines[i].d # d
                      ELSE \E i \in 1..Len(lines) :
                              /\ lines[i].d = d /\ lines[i].status = Replay(lines)[d]
                              /\ \A j \in 1..Len(lines) : j > i => lines[j].d # d
    BY DEF Shows
  <2>1. CASE At(d) = {}
    BY <1>3, <1>4, <2>1
  <2>2. CASE At(d) # {}
    BY <1>4, <1>5, <2>2 DEF Status
  <2> QED BY <2>1, <2>2
<1> QED BY <1>6, <1>7

\* A record is added: what the log shows then.
LEMMA ShowsAppend ==
    ASSUME NEW lines \in Seq(Line), NEW v \in View, Shows(lines, v), NEW l \in Line
    PROVE  Shows(Append(lines, l), ViewAfter(v, l)) /\ ViewAfter(v, l) \in View
<1>1. /\ Len(lines) \in Nat /\ Len(Append(lines, l)) = Len(lines) + 1
      /\ \A i \in 1..Len(lines) : Append(lines, l)[i] = lines[i]
      /\ Append(lines, l)[Len(lines) + 1] = l
  BY AppendIs
<1> PICK n, more : n = Len(lines) /\ more = Append(lines, l)
  OBVIOUS
<1>2. ViewAfter(v, l) \in View
  BY LineFields DEF ViewAfter, View
<1>3. \A d \in LogDep : ViewAfter(v, l)[d] = IF l.d = d THEN l.status ELSE v[d]
  BY LineFields, StoreNumbers DEF ViewAfter, View
<1>4. ASSUME NEW d \in LogDep
      PROVE  IF ViewAfter(v, l)[d] = "none" THEN \A i \in 1..(n + 1) : more[i].d # d
             ELSE \E i \in 1..(n + 1) : /\ more[i].d = d /\ more[i].status = ViewAfter(v, l)[d]
                                        /\ \A j \in 1..(n + 1) : j > i => more[j].d # d
  <2>1. CASE l.d = d
    <3>1. l.status \in Status
      BY <2>1, LineFields, StoreNumbers
    <3>2. ViewAfter(v, l)[d] = l.status /\ l.status # "none"
      BY <1>3, <2>1, <3>1 DEF Status
    <3> QED BY <1>1, <2>1, <3>2
  <2>2. CASE l.d # d
    <3>1. ViewAfter(v, l)[d] = v[d]
      BY <1>3, <2>2
    <3>2. CASE v[d] = "none"
      <4>1. \A i \in 1..n : lines[i].d # d
        BY <3>2 DEF Shows
      <4> QED BY <1>1, <2>2, <3>1, <3>2, <4>1
    <3>3. CASE v[d] # "none"
      <4>1. PICK i \in 1..n : /\ lines[i].d = d /\ lines[i].status = v[d]
                              /\ \A j \in 1..n : j > i => lines[j].d # d
        BY <3>3 DEF Shows
      <4>2. i \in 1..(n + 1) /\ more[i] = lines[i]
        BY <1>1
      <4>3. \A j \in 1..(n + 1) : j > i => more[j].d # d
        BY <1>1, <2>2, <4>1
      <4> QED BY <3>1, <3>3, <4>1, <4>2, <4>3
    <3> QED BY <3>2, <3>3
  <2> QED BY <2>1, <2>2
<1>5. Len(more) = n + 1
  BY <1>1
<1> QED BY <1>2, <1>4, <1>5 DEF Shows

\* What may be added without the next replay refusing it.
Fits(v, l) ==
    IsSnapshot(l) => v[l.d] \in {"none", "Running"} \/ RecoveryAttached(v[l.d], l.status)

LEMMA ReplaysAppend ==
    ASSUME NEW lines \in Seq(Line), NEW v \in View, Shows(lines, v), Replays(lines),
           NEW l \in Line, Fits(v, l)
    PROVE  Replays(Append(lines, l))
<1>1. /\ Len(lines) \in Nat /\ Len(Append(lines, l)) = Len(lines) + 1
      /\ \A i \in 1..Len(lines) : Append(lines, l)[i] = lines[i]
      /\ Append(lines, l)[Len(lines) + 1] = l
      /\ DOMAIN Append(lines, l) = 1..(Len(lines) + 1) /\ DOMAIN lines = 1..Len(lines)
  <2>1. Append(lines, l) \in Seq(Line)
    BY AppendIs
  <2> QED BY <2>1, AppendIs
<1> PICK n, more : n = Len(lines) /\ more = Append(lines, l)
  OBVIOUS
<1>2. /\ n \in Nat /\ DOMAIN more = 1..(n + 1) /\ DOMAIN lines = 1..n
      /\ \A i \in 1..n : more[i] = lines[i] /\ lines[i] \in Line
      /\ more[n + 1] = l
  BY <1>1
<1>3. \A i \in DOMAIN more : DecodeLine(more[i])
  BY <1>2, LineFields DEF DecodeLine
<1>4. ASSUME NEW i \in 1..(n + 1), NEW j \in 1..(n + 1), Follows(more, i, j),
             more[i].status \in Terminal, more[i] # more[j]
      PROVE  RecoveryAttached(more[i].status, more[j].status)
  <2>1. /\ i < j /\ IsSnapshot(more[i]) /\ IsSnapshot(more[j]) /\ more[i].d = more[j].d
        /\ \A k \in (i + 1)..(j - 1) : more[k].d # more[i].d
    BY <1>4 DEF Follows
  <2>2. i \in 1..n /\ more[i] = lines[i] /\ lines[i] \in Line
    BY <1>2, <2>1
  <2>3. CASE j \in 1..n
    <3>1. more[j] = lines[j] /\ \A k \in (i + 1)..(j - 1) : more[k] = lines[k]
      BY <1>2, <2>2, <2>3
    <3>2. Follows(lines, i, j)
      BY <2>1, <2>2, <3>1 DEF Follows
    <3> QED BY <1>2, <1>4, <2>2, <2>3, <3>1, <3>2 DEF Replays
  <2>4. CASE j = n + 1
    <3>1. more[j] = l /\ l.d \in LogDep /\ IsSnapshot(l)
      BY <1>2, <2>1, <2>4, LineFields
    <3>2. lines[i].d = l.d
      BY <2>1, <2>2, <3>1
    <3>3. PICK k \in 1..n : /\ v[l.d] # "none" /\ lines[k].d = l.d /\ lines[k].status = v[l.d]
                            /\ \A m \in 1..n : m > k => lines[m].d # l.d
      BY <2>2, <3>1, <3>2 DEF Shows
    <3>4. ~(i > k)
      BY <2>2, <3>2, <3>3
    <3>5. ~(i < k)
      BY <1>2, <2>1, <2>2, <2>4, <3>2, <3>3
    <3>6. lines[i].status = v[l.d]
      BY <2>2, <3>3, <3>4, <3>5
    <3> QED BY <1>4, <2>2, <3>1, <3>3, <3>6 DEF Fits, Terminal
  <2> QED BY <1>2, <2>3, <2>4
<1> QED BY <1>2, <1>3, <1>4 DEF Replays

\* What a power loss leaves of a log that can be replayed can be replayed.
LEMMA ReplaysBegins ==
    ASSUME NEW s \in Seq(Line), NEW t \in Seq(Line), Begins(s, t), Replays(t)
    PROVE  Replays(s)
<1>1. /\ Len(s) \in Nat /\ Len(t) \in Nat /\ Len(s) <= Len(t)
      /\ DOMAIN s = 1..Len(s) /\ DOMAIN t = 1..Len(t)
      /\ \A i \in 1..Len(s) : s[i] = t[i]
  BY DEF Begins
<1>2. \A i \in DOMAIN s : i \in DOMAIN t /\ DecodeLine(s[i])
  BY <1>1 DEF Replays
<1>3. ASSUME NEW i \in DOMAIN s, NEW j \in DOMAIN s, Follows(s, i, j)
      PROVE  Follows(t, i, j)
  <2>1. \A k \in (i + 1)..(j - 1) : s[k] = t[k]
    BY <1>1
  <2> QED BY <1>1, <1>3, <2>1 DEF Follows
<1>4. ASSUME NEW i \in DOMAIN s, NEW j \in DOMAIN s, Follows(s, i, j),
             s[i].status \in Terminal, s[i] # s[j]
      PROVE  RecoveryAttached(s[i].status, s[j].status)
  <2>1. s[i] = t[i] /\ s[j] = t[j] /\ i \in DOMAIN t /\ j \in DOMAIN t
    BY <1>1, <1>2
  <2> QED BY <1>3, <1>4, <2>1 DEF Replays
<1> QED BY <1>2, <1>4 DEF Replays

LEMMA EmptyReplays == Replays(<<>>)
BY DEF Replays

\* What a process that knows the log may add to it.
LEMMA MayWriteFits ==
    ASSUME NEW h \in Writer, RunKnown(h), NEW l \in MayWrite(h)
    PROVE  /\ l \in SnapLine /\ l \in Line /\ IsSnapshot(l) /\ Fits(h.view, l)
           /\ h.mark => h.run = NoRun
           /\ ~h.mark /\ l.status \notin {"Running", "Recovering"} => l.d = h.run
<1>1. h.view \in View /\ h.run \in LogDep \union {NoRun} /\ h.mark \in BOOLEAN
  BY DEF Writer
<1>2. CASE h.mark
  <2>1. PICK d \in LogDep : RecoverOnStart(h.view[d]) # h.view[d] /\ l = Snapshot(d, RecoverOnStart(h.view[d]))
    BY <1>2 DEF MayWrite, MarkLines, Unmarked
  <2>2. \/ h.view[d] = "Running" /\ RecoverOnStart(h.view[d]) = "Interrupted"
        \/ h.view[d] = "Recovering" /\ RecoverOnStart(h.view[d]) = "Recovered"
    BY <2>1 DEF RecoverOnStart
  <2>3. /\ l \in SnapLine /\ l \in Line /\ l.d = d /\ l.status = RecoverOnStart(h.view[d]) /\ IsSnapshot(l)
    BY <2>1, <2>2, SnapshotFields DEF Status
  <2> QED BY <1>2, <2>2, <2>3 DEF Fits, RecoveryAttached, RunKnown
<1>3. CASE ~h.mark /\ h.run # NoRun
  <2>1. PICK s \in {"Ended", "Recovered"} :
            /\ l = Snapshot(h.run, s) /\ h.run \in LogDep
            /\ \/ h.view[h.run] = "Running" /\ s = "Ended"
               \/ h.view[h.run] = "Recovering" /\ s = "Recovered"
    BY <1>1, <1>3 DEF MayWrite, NextLines, RunKnown
  <2>2. l \in SnapLine /\ l \in Line /\ l.d = h.run /\ l.status = s /\ IsSnapshot(l)
    BY <2>1, SnapshotFields DEF Status
  <2> QED BY <1>3, <2>1, <2>2 DEF Fits, RecoveryAttached
<1>4. CASE ~h.mark /\ h.run = NoRun
  <2>1. PICK d \in LogDep, s \in {"Running", "Recovering"} :
            /\ l = Snapshot(d, s)
            /\ \/ h.view[d] = "none"
               \/ h.view[d] = "Interrupted" /\ s = "Recovering"
    BY <1>4 DEF MayWrite, NextLines
  <2>2. l \in SnapLine /\ l \in Line /\ l.d = d /\ l.status = s /\ IsSnapshot(l)
    BY <2>1, SnapshotFields DEF Status
  <2> QED BY <1>4, <2>1, <2>2 DEF Fits, RecoveryAttached
<1> QED BY <1>1, <1>2, <1>3, <1>4

-----------------------------------------------------------------------------
(* The store: steps of the process that writes *)

LEMMA ClosedIs ==
    /\ Closed \in Writer /\ Closed.at = "closed" /\ Closed.run = NoRun /\ Closed.mark = FALSE
    /\ RunKnown(Closed)
BY DEF Closed, Writer, View, RunKnown

LEMMA FileFields ==
    ASSUME NEW f \in FileRec
    PROVE  /\ Torn(f) \in FileRec /\ Torn(f).lines = f.lines /\ Torn(f).exists = f.exists
           /\ Torn(f).header = f.header
           /\ CutOff(f) \in FileRec /\ CutOff(f).lines = f.lines /\ CutOff(f).exists = f.exists
           /\ CutOff(f).header = f.header /\ CutOff(f).torn = FALSE
           /\ f.lines \in Seq(SnapLine) /\ f.lines \in Seq(Line)
BY SnapLines DEF FileRec, Torn, CutOff

LEMMA EmptyFiles ==
    /\ Absent \in FileRec /\ Absent.lines = <<>> /\ ~Absent.exists /\ ~Absent.header
    /\ Empty \in FileRec /\ Empty.lines = <<>> /\ Empty.exists /\ ~Empty.header /\ ~Empty.torn
<1>1. <<>> \in Seq(SnapLine)
  OBVIOUS
<1> QED BY <1>1 DEF Absent, Empty, FileRec

\* The process after a line: it knows the log as it is then.
LEMMA AppliedIs ==
    ASSUME w \in Writer, RunKnown(w), NEW l \in Line \union {Header}
    PROVE  /\ Applied(l) \in Writer /\ Applied(l).at = "ready"
           /\ Applied(l).view = ViewAfter(w.view, l) /\ RunKnown(Applied(l))
<1>1. IsSnapshot(l) => l.d \in LogDep /\ l.status \in Status
  BY LineFields, SnapLines
<1> PICK v \in View : v = ViewAfter(w.view, l)
  BY <1>1 DEF ViewAfter, View, Writer
<1> PICK r \in LogDep \union {NoRun} :
        r = IF IsSnapshot(l) /\ ~w.mark
            THEN IF l.status \in {"Running", "Recovering"} THEN l.d ELSE NoRun
            ELSE w.run
  BY <1>1 DEF Writer
<1> PICK m \in BOOLEAN : m = (w.mark /\ Unmarked(v) # {})
  OBVIOUS
<1>2. Applied(l) = [w EXCEPT !.at = "ready", !.line = NoLine, !.view = v, !.mark = m, !.run = r]
  BY DEF Applied, ViewAfter, Writer
<1> DEFINE a == [w EXCEPT !.at = "ready", !.line = NoLine, !.view = v, !.mark = m, !.run = r]
<1>5. "ready" \in {"closed"} \union InFile \union InSql
  BY DEF InFile
<1>6. a \in Writer
  BY <1>5 DEF Writer
<1>7. a.at = "ready" /\ a.view = v /\ a.run = r /\ a.mark = m
  BY DEF Writer
<1> HIDE DEF a
<1>3. /\ Applied(l) \in Writer /\ Applied(l).at = "ready" /\ Applied(l).view = v
      /\ Applied(l).run = r /\ Applied(l).mark = m
  BY <1>2, <1>6, <1>7 DEF a
<1>4. r # NoRun => ~m /\ v[r] \in {"Running", "Recovering"}
  <2>1. CASE IsSnapshot(l) /\ ~w.mark
    BY <1>1, <2>1 DEF ViewAfter, Writer, View
  <2>2. CASE IsSnapshot(l) /\ w.mark
    BY <2>2 DEF RunKnown
  <2>3. CASE ~IsSnapshot(l)
    BY <2>3 DEF ViewAfter, RunKnown
  <2> QED BY <2>1, <2>2, <2>3
<1> QED BY <1>3, <1>4 DEF RunKnown

\* Only the process moves: what it relies on must hold.
LEMMA WriterMoves ==
    ASSUME StoreInv, UNCHANGED <<file, durable, acked, sql, backups, tries, reader>>,
           w' \in Writer, WriterRight', RemovalRight',
           w'.at = "sqlready" /\ sql.rows = <<>> => file.lines = <<>>,
           w'.at = "import" => NoDeployments(sql.rows)
    PROVE  StoreInv'
BY DEF StoreInv, StoreTyped, FileRight, ImportRight, AckedRight, BackupRight, ReaderRight, ReplaysRight, Log

\* A process that has closed the store relies on nothing.
LEMMA ClosedRight ==
    ASSUME w' = Closed
    PROVE  WriterRight' /\ RemovalRight' /\ w' \in Writer /\ w'.at = "closed"
<1>1. w'.at = "closed" /\ RunKnown(w)'
  BY ClosedIs DEF RunKnown
<1> QED BY <1>1, ClosedIs DEF WriterRight, RemovalRight, InFile, InSql, Removing

LEMMA Closes ==
    ASSUME StoreInv, UNCHANGED <<file, durable, acked, sql, backups, tries, reader>>, w' = Closed
    PROVE  StoreInv'
BY ClosedRight, WriterMoves

\* A step on the file journal, while there is no store yet.
LEMMA FileMoves ==
    ASSUME StoreInv, ~sql.exists, UNCHANGED <<sql, backups, tries, reader>>,
           file' \in FileRec, durable' \subseteq FileRec, FileRight',
           Begins(file.lines, file'.lines), Replays(file'.lines),
           acked' \in Nat, \A f \in durable' : acked' <= Len(f.lines),
           w' \in Writer, w'.at \in InFile \union {"closed"}, WriterRight'
    PROVE  StoreInv'
<1>1. sql.rows = <<>> /\ Log = file.lines /\ Log' = file'.lines /\ Len(file.lines) <= Len(file'.lines)
  BY DEF StoreInv, ImportRight, Log, Begins
<1>2. Len(file.lines) \in Nat /\ Len(file'.lines) \in Nat
  BY FileFields DEF StoreInv, StoreTyped
<1>3. StoreTyped'
  BY DEF StoreInv, StoreTyped
<1>4. RemovalRight' /\ ImportRight'
  BY <1>1 DEF RemovalRight, ImportRight, InFile, Removing
<1>5. AckedRight'
  BY <1>1 DEF AckedRight, FileRight
<1>6. BackupRight'
  BY DEF StoreInv, BackupRight
<1>7. ReaderRight'
  <2>1. reader.known \in Nat
    BY DEF StoreInv, StoreTyped, ReaderRec
  <2> QED BY <1>1, <1>2, <2>1 DEF StoreInv, ReaderRight
<1>8. ReplaysRight'
  BY DEF StoreInv, ReplaysRight
<1> QED BY <1>3, <1>4, <1>5, <1>6, <1>7, <1>8 DEF StoreInv

\* What a sync and a write make of the contents a power loss may leave.
LEMMA SyncedKeeps ==
    ASSUME StoreInv, sql.rows = <<>>, NEW f \in FileRec, f.exists, f.lines = file.lines,
           f.header => Absent \notin durable, Synced(f)
    PROVE  /\ file' \in FileRec /\ durable' \subseteq FileRec /\ FileRight'
           /\ \A g \in durable' : acked <= Len(g.lines) /\ (g = f \/ g \in durable)
           /\ f # Absent
<1>1. f # Absent /\ f.lines \in Seq(Line) /\ Begins(<<>>, f.lines) /\ Begins(f.lines, f.lines)
  BY EmptyFiles, FileFields, BeginsFacts
<1>2. \A g \in durable' : g = f \/ (g = Absent /\ g \in durable)
  BY DEF Synced
<1>3. acked <= Len(f.lines)
  BY DEF StoreInv, AckedRight, FileRight
<1>4. \A g \in durable : acked <= Len(g.lines)
  BY DEF StoreInv, AckedRight
<1>5. FileRight'
  BY <1>1, <1>2, EmptyFiles DEF FileRight, Synced
<1> QED BY <1>1, <1>2, <1>3, <1>4, <1>5, EmptyFiles DEF Synced

LEMMA WrittenKeeps ==
    ASSUME StoreInv, sql.rows = <<>>, NEW f \in FileRec, f.exists, Begins(file.lines, f.lines),
           f.header => Absent \notin durable, Written(f)
    PROVE  /\ file' \in FileRec /\ durable' \subseteq FileRec /\ FileRight'
           /\ \A g \in durable' : acked <= Len(g.lines)
           /\ Absent \in durable' => Absent \in durable
<1>1. /\ f # Absent /\ f.lines \in Seq(Line) /\ Begins(f.lines, f.lines)
      /\ Torn(f) \in FileRec /\ Torn(f).exists /\ Torn(f) # Absent /\ Torn(f).lines = f.lines
  BY EmptyFiles, FileFields, BeginsFacts
<1>2. \A g \in durable' : g \in durable \/ g = f \/ g = Torn(f)
  BY DEF Written
<1>3. \A g \in durable : g \in FileRec /\ g.lines \in Seq(Line) /\ Begins(g.lines, file.lines)
                         /\ (~g.exists => g.lines = <<>>) /\ acked <= Len(g.lines)
  BY FileFields DEF StoreInv, StoreTyped, FileRight, AckedRight
<1>4. file.lines \in Seq(Line) /\ Len(file.lines) <= Len(f.lines) /\ acked <= Len(file.lines)
  BY FileFields DEF StoreInv, StoreTyped, FileRight, AckedRight, Begins
<1>5. acked <= Len(f.lines)
  <2>1. acked \in Nat /\ Len(file.lines) \in Nat /\ Len(f.lines) \in Nat
    BY <1>1, <1>4 DEF StoreInv, StoreTyped
  <2> QED BY <1>4, <2>1
<1>6. \A g \in durable : Begins(g.lines, f.lines)
  BY <1>1, <1>3, <1>4, BeginsFacts
<1>7. FileRight'
  BY <1>1, <1>2, <1>3, <1>6 DEF FileRight, Written
<1> QED BY <1>1, <1>2, <1>3, <1>5, <1>7 DEF Written

\* The places a process can be at.
LEMMA Places ==
    /\ \A a \in InFile \union InSql : a \in {"closed"} \union InFile \union InSql /\ a # "closed"
    /\ \A a \in InFile : a \notin InSql /\ a \notin Removing /\ a # "sqlready" /\ a # "import"
    /\ \A a \in InSql : a \notin InFile /\ a \notin {"cut", "dir", "write", "ready", "sync", "broken"}
    /\ {"cut", "dir", "write", "sync", "ready", "broken"} = InFile
    /\ {"migrate", "restore", "import", "sqlready"} \subseteq InSql
    /\ Removing \subseteq InSql /\ Removing = {"copy", "prove", "drop"}
    /\ \A a \in {"migrate", "restore", "import", "sqlready"} : a \notin Removing
BY DEF InFile, InSql, Removing

LEMMA WriterAt ==
    ASSUME NEW h \in Writer, NEW a \in InFile \union InSql
    PROVE  /\ [h EXCEPT !.at = a] \in Writer /\ [h EXCEPT !.at = a].at = a
           /\ [h EXCEPT !.at = a].view = h.view /\ [h EXCEPT !.at = a].run = h.run
           /\ [h EXCEPT !.at = a].line = h.line /\ [h EXCEPT !.at = a].mark = h.mark
<1>1. a \in {"closed"} \union InFile \union InSql
  OBVIOUS
<1> QED BY <1>1 DEF Writer

\* An opening knows what the replay found.
LEMMA OpenedIs ==
    ASSUME NEW h \in Writer, h.run = NoRun, NEW a \in InFile \union InSql, NEW lines \in Seq(Line)
    PROVE  /\ Opened(h, a, lines) \in Writer /\ Opened(h, a, lines).at = a
           /\ Opened(h, a, lines).run = NoRun /\ Opened(h, a, lines).view = Replay(lines)
           /\ RunKnown(Opened(h, a, lines)) /\ Shows(lines, Opened(h, a, lines).view)
<1> PICK v \in View : v = Replay(lines) /\ Shows(lines, v)
  BY ReplayShows
<1> PICK m \in BOOLEAN : m = (h.mark /\ Unmarked(v) # {})
  OBVIOUS
<1> DEFINE o == [h EXCEPT !.at = a, !.view = v, !.mark = m]
<1>1. Opened(h, a, lines) = o
  BY DEF Opened, Writer
<1>2. a \in {"closed"} \union InFile \union InSql
  OBVIOUS
<1>3. o \in Writer
  BY <1>2 DEF Writer
<1>4. o.at = a /\ o.view = v /\ o.run = NoRun
  BY DEF Writer
<1> HIDE DEF o
<1> QED BY <1>1, <1>3, <1>4 DEF RunKnown

LEMMA WriteIs ==
    ASSUME w \in Writer, file \in FileRec, ~file.torn, NEW l \in SnapLine \union {Header}
    PROVE  /\ Write(l) \in Writer /\ Write(l).at = "write" /\ Write(l).line = l
           /\ Write(l).view = w.view /\ Write(l).run = w.run /\ Write(l).mark = w.mark
<1> DEFINE o == [w EXCEPT !.at = "write", !.line = l, !.glued = FALSE]
<1>1. "write" \in {"closed"} \union InFile \union InSql
  BY Places
<1>2. o \in Writer
  BY <1>1 DEF Writer
<1>3. /\ o.at = "write" /\ o.line = l /\ o.view = w.view /\ o.run = w.run /\ o.mark = w.mark
  BY DEF Writer
<1>4. file.torn = FALSE
  BY DEF FileRec
<1>5. Write(l) = o
  BY <1>4 DEF Write
<1> HIDE DEF o
<1> QED BY <1>2, <1>3, <1>5

\* The file while a process of a build without a store is at it.
LEMMA LegacyHas ==
    ASSUME StoreInv, ~sql.exists
    PROVE  /\ sql.rows = <<>> /\ file \in FileRec /\ w \in Writer /\ RunKnown(w)
           /\ w.at \in {"closed"} \union InFile
           /\ file.lines \in Seq(Line) /\ Begins(file.lines, file.lines) /\ Replays(file.lines)
           /\ ~file.exists => file.lines = <<>>
           /\ acked \in Nat /\ acked <= Len(file.lines)
           /\ \A f \in durable : acked <= Len(f.lines)
           /\ file.torn \in BOOLEAN /\ file.header \in BOOLEAN /\ file.exists \in BOOLEAN
<1>1. sql.rows = <<>> /\ file \in FileRec /\ w \in Writer /\ acked \in Nat
  BY DEF StoreInv, ImportRight, StoreTyped
<1>2. w.at \in {"closed"} \union InFile
  BY <1>1 DEF StoreInv, WriterRight, Writer
<1>3. file.lines \in Seq(Line) /\ Begins(file.lines, file.lines)
  BY <1>1, FileFields, BeginsFacts
<1>4. \A f \in durable : acked <= Len(f.lines)
  BY <1>1 DEF StoreInv, AckedRight
<1>5. file \in durable /\ (~file.exists => file.lines = <<>>) /\ Replays(file.lines) /\ RunKnown(w)
  BY DEF StoreInv, FileRight, ReplaysRight, WriterRight
<1> QED BY <1>1, <1>2, <1>3, <1>4, <1>5 DEF FileRec

LEMMA OpenKeeps ==
    ASSUME StoreInv, ~sql.exists, Open, UNCHANGED <<sql, backups, tries, reader>>
    PROVE  StoreInv'
<1> PICK f \in FileRec : f = IF file.exists THEN file ELSE Empty
  BY EmptyFiles, LegacyHas
<1>1. /\ f.exists /\ f.lines = file.lines /\ (f.header => file.header /\ file.exists)
      /\ f.torn \in BOOLEAN
  BY LegacyHas, EmptyFiles DEF FileRec
<1>2. PICK mark \in BOOLEAN : w' = Opened([Closed EXCEPT !.mark = mark], AfterOpen(f), f.lines)
  BY DEF Open
<1>3. file' = f /\ durable' = IF file.exists THEN durable ELSE durable \union {f}
  BY DEF Open
<1>4. [Closed EXCEPT !.mark = mark] \in Writer /\ [Closed EXCEPT !.mark = mark].run = NoRun
  BY ClosedIs DEF Writer
<1>5. /\ AfterOpen(f) \in {"cut", "dir", "ready"} /\ AfterOpen(f) \in InFile \union InSql
      /\ AfterOpen(f) \in {"dir", "ready"} => ~f.torn
      /\ AfterOpen(f) = "ready" => f.header
  BY Places DEF AfterOpen
<1>6. f.lines \in Seq(Line)
  BY <1>1, LegacyHas
<1>7. /\ w' \in Writer /\ w'.at = AfterOpen(f) /\ RunKnown(w)' /\ Shows(f.lines, w'.view)
  <2>1. /\ w' \in Writer /\ w'.at = AfterOpen(f) /\ RunKnown(w') /\ Shows(f.lines, w'.view)
    BY <1>2, <1>4, <1>5, <1>6, OpenedIs
  <2> QED BY <2>1 DEF RunKnown
<1>8. durable' \subseteq FileRec /\ \A g \in durable' : g = f \/ g \in durable
  BY <1>3 DEF StoreInv, StoreTyped
<1>9. \A g \in durable : Begins(g.lines, f.lines) /\ (~g.exists => g.lines = <<>>)
  BY <1>1 DEF StoreInv, FileRight
<1>10. f.header => Absent \notin durable'
  BY <1>1, <1>3 DEF StoreInv, FileRight
<1>11. FileRight'
  <2>1. file' \in durable'
    BY <1>3 DEF StoreInv, FileRight
  <2>2. Begins(f.lines, f.lines)
    BY <1>1, LegacyHas
  <2> QED BY <1>1, <1>3, <1>8, <1>9, <1>10, <2>1, <2>2 DEF FileRight
<1>12. WriterRight'
  <2>1. w'.at \notin InSql /\ w'.at \notin {"write", "sync"} /\ w'.at \notin {"sqlready"} \union Removing
    BY <1>5, <1>7, Places
  <2>2. Shows(file.lines, w.view)'
    BY <1>3, <1>7 DEF Shows
  <2> QED BY <1>1, <1>3, <1>5, <1>7, <1>10, <2>1, <2>2 DEF WriterRight
<1>13. \A g \in durable' : acked <= Len(g.lines)
  BY <1>1, <1>8, LegacyHas
<1>14. acked' = acked
  BY DEF Open
<1>15. Begins(file.lines, file'.lines) /\ Replays(file'.lines) /\ file' \in FileRec
  BY <1>1, <1>3, LegacyHas
<1>16. w'.at \in InFile \union {"closed"}
  BY <1>5, <1>7, Places
<1> QED BY <1>7, <1>8, <1>11, <1>12, <1>13, <1>14, <1>15, <1>16, LegacyHas, FileMoves

\* The file changes or keeps its lines, and the process closes or is done for.
LEMMA WriterGivesUp ==
    ASSUME StoreInv, ~sql.exists, UNCHANGED <<sql, backups, tries, reader, acked>>,
           w' \in Writer, w'.at \in {"closed", "broken"}, RunKnown(w)',
           w'.at = "broken" => file.exists,
           Synced(CutOff(file)) \/ Written(CutOff(file)) \/ UNCHANGED <<file, durable>>,
           file.exists
    PROVE  StoreInv'
<1> PICK f \in FileRec : f = CutOff(file)
  BY LegacyHas, FileFields
<1>1. /\ f.exists /\ f.lines = file.lines /\ (f.header => Absent \notin durable)
      /\ Begins(file.lines, f.lines)
  BY LegacyHas, FileFields DEF StoreInv, FileRight
<1>2. /\ file' \in FileRec /\ durable' \subseteq FileRec /\ FileRight'
      /\ \A g \in durable' : acked <= Len(g.lines)
      /\ file'.lines = file.lines /\ file'.exists
  <2>1. CASE Synced(f)
    BY <1>1, <2>1, LegacyHas, SyncedKeeps DEF Synced
  <2>2. CASE Written(f)
    BY <1>1, <2>2, LegacyHas, WrittenKeeps DEF Written
  <2>3. CASE UNCHANGED <<file, durable>>
    BY <2>3, LegacyHas DEF StoreInv, StoreTyped, FileRight
  <2> QED BY <2>1, <2>2, <2>3
<1>3. WriterRight'
  BY <1>2 DEF WriterRight, InFile, InSql, Removing
<1>4. w'.at \in InFile \union {"closed"}
  BY Places
<1>5. Begins(file.lines, file'.lines) /\ Replays(file'.lines)
  BY <1>2, LegacyHas
<1> QED BY <1>2, <1>3, <1>4, <1>5, LegacyHas, FileMoves

LEMMA CutTailKeeps ==
    ASSUME StoreInv, ~sql.exists, CutTail, UNCHANGED <<sql, backups, tries, reader>>
    PROVE  StoreInv'
<1>1. w.at = "cut" /\ file.exists /\ UNCHANGED acked /\ Shows(file.lines, w.view)
  BY Places DEF CutTail, StoreInv, WriterRight
<1>2. CASE w' = Closed
  <2>1. Synced(CutOff(file)) \/ Written(CutOff(file)) \/ UNCHANGED <<file, durable>>
    BY DEF CutTail
  <2>2. w' \in Writer /\ w'.at = "closed" /\ RunKnown(w)'
    BY <1>2, ClosedIs DEF RunKnown
  <2> QED BY <1>1, <2>1, <2>2, WriterGivesUp
<1>3. CASE w' # Closed
  <2> PICK f \in FileRec : f = CutOff(file)
    BY LegacyHas, FileFields
  <2>1. /\ f.exists /\ f.lines = file.lines /\ (f.header => Absent \notin durable)
        /\ f.torn = FALSE /\ Begins(file.lines, f.lines)
    BY <1>1, LegacyHas, FileFields DEF StoreInv, FileRight
  <2>2. Synced(f) /\ w' = [w EXCEPT !.at = AfterOpen(f)]
    BY <1>3 DEF CutTail
  <2>3. /\ AfterOpen(f) \in {"dir", "ready"} /\ AfterOpen(f) \in InFile \union InSql
        /\ AfterOpen(f) = "ready" => f.header
    BY <2>1, Places DEF AfterOpen
  <2>4. /\ w' \in Writer /\ w'.at = AfterOpen(f) /\ w'.view = w.view /\ w'.run = w.run
        /\ w'.mark = w.mark
    BY <2>2, <2>3, LegacyHas, WriterAt
  <2>5. /\ file' \in FileRec /\ durable' \subseteq FileRec /\ FileRight'
        /\ \A g \in durable' : acked <= Len(g.lines) /\ (g = f \/ g \in durable)
        /\ f # Absent /\ file' = f
    BY <2>1, <2>2, LegacyHas, SyncedKeeps DEF Synced
  <2>6. WriterRight'
    <3>1. RunKnown(w)'
      BY <2>4, LegacyHas DEF RunKnown
    <3>2. Shows(file.lines, w.view)'
      BY <1>1, <2>1, <2>4, <2>5 DEF Shows
    <3>3. w'.at = "ready" => Absent \notin durable'
      BY <2>1, <2>3, <2>4, <2>5
    <3>4. w'.at \notin InSql /\ w'.at \notin {"write", "sync"} /\ w'.at \notin {"sqlready"} \union Removing
      BY <2>3, <2>4, Places
    <3>5. ~file'.torn /\ file'.exists
      BY <2>1, <2>5
    <3> QED BY <3>1, <3>2, <3>3, <3>4, <3>5 DEF WriterRight
  <2>7. w'.at \in InFile \union {"closed"}
    BY <2>3, <2>4, Places
  <2>8. Begins(file.lines, file'.lines) /\ Replays(file'.lines)
    BY <2>1, <2>5, LegacyHas
  <2> QED BY <1>1, <2>4, <2>5, <2>6, <2>7, <2>8, LegacyHas, FileMoves
<1> QED BY <1>2, <1>3

LEMMA SyncDirKeeps ==
    ASSUME StoreInv, ~sql.exists, SyncDir, UNCHANGED <<sql, backups, tries, reader>>
    PROVE  StoreInv'
<1>1. /\ w.at = "dir" /\ file.exists /\ ~file.torn /\ UNCHANGED <<file, acked>>
      /\ Shows(file.lines, w.view)
  BY Places DEF SyncDir, StoreInv, WriterRight
<1>2. CASE durable' = durable \ {Absent} /\ w' = Write(Header)
  <2>1. /\ w' \in Writer /\ w'.at = "write" /\ w'.line = Header
        /\ w'.view = w.view /\ w'.run = w.run /\ w'.mark = w.mark
    BY <1>1, <1>2, LegacyHas, WriteIs
  <2>2. Absent \notin durable' /\ durable' \subseteq durable /\ file \in durable'
    BY <1>1, <1>2, EmptyFiles DEF StoreInv, FileRight
  <2>3. FileRight' /\ durable' \subseteq FileRec
    BY <1>1, <2>2 DEF StoreInv, FileRight, StoreTyped
  <2>4. WriterRight'
    <3>1. RunKnown(w)'
      BY <2>1, LegacyHas DEF RunKnown
    <3>2. Shows(file.lines, w.view)'
      BY <1>1, <2>1 DEF Shows
    <3>3. w'.at \notin InSql /\ w'.at \notin {"sqlready"} \union Removing
      BY <2>1, Places
    <3> QED BY <1>1, <2>1, <2>2, <3>1, <3>2, <3>3 DEF WriterRight
  <2>5. w'.at \in InFile \union {"closed"}
    BY <2>1, Places
  <2>6. file' = file /\ \A f \in durable' : acked <= Len(f.lines)
    BY <1>1, <2>2, LegacyHas
  <2> QED BY <1>1, <2>1, <2>3, <2>4, <2>5, <2>6, LegacyHas, FileMoves
<1>3. CASE w' = Closed /\ UNCHANGED durable
  BY <1>1, <1>3, Closes
<1> QED BY <1>2, <1>3 DEF SyncDir

LEMMA PersistKeeps ==
    ASSUME StoreInv, ~sql.exists, Persist, UNCHANGED <<sql, backups, tries, reader>>
    PROVE  StoreInv'
<1>1. /\ w.at = "ready" /\ file.exists /\ ~file.torn /\ UNCHANGED <<file, durable, acked>>
      /\ Shows(file.lines, w.view) /\ Absent \notin durable
  BY Places DEF Persist, StoreInv, WriterRight
<1>2. PICK l \in MayWrite(w) : w' = Write(l)
  BY DEF Persist, MayWrite
<1>3. l \in SnapLine
  BY LegacyHas, MayWriteFits
<1>4. /\ w' \in Writer /\ w'.at = "write" /\ w'.line = l
      /\ w'.view = w.view /\ w'.run = w.run /\ w'.mark = w.mark
  BY <1>1, <1>2, <1>3, LegacyHas, WriteIs
<1>5. WriterRight'
  <2>1. RunKnown(w)'
    BY <1>4, LegacyHas DEF RunKnown
  <2>2. Shows(file.lines, w.view)'
    BY <1>1, <1>4 DEF Shows
  <2>3. w'.at \notin InSql /\ w'.at \notin {"sqlready"} \union Removing
    BY <1>4, Places
  <2>4. w'.line \in MayWrite(w)'
    BY <1>2, <1>4 DEF MayWrite
  <2> QED BY <1>1, <1>4, <2>1, <2>2, <2>3, <2>4 DEF WriterRight
<1>6. RemovalRight'
  BY <1>4 DEF RemovalRight, Removing
<1> QED BY <1>1, <1>4, <1>5, <1>6, WriterMoves

LEMMA AppendPartKeeps ==
    ASSUME StoreInv, ~sql.exists, AppendPart, UNCHANGED <<sql, backups, tries, reader>>
    PROVE  StoreInv'
<1>1. /\ w.at = "write" /\ file.exists /\ UNCHANGED <<w, acked>> /\ Written(Torn(file))
      /\ Shows(file.lines, w.view) /\ Absent \notin durable /\ RunKnown(w)
      /\ w.line = Header \/ w.line \in MayWrite(w)
  BY Places DEF AppendPart, StoreInv, WriterRight
<1> PICK f \in FileRec : f = Torn(file)
  BY LegacyHas, FileFields
<1>2. f.exists /\ f.lines = file.lines /\ Begins(file.lines, f.lines) /\ Written(f)
  BY <1>1, LegacyHas, FileFields
<1>3. /\ file' \in FileRec /\ durable' \subseteq FileRec /\ FileRight'
      /\ \A g \in durable' : acked <= Len(g.lines)
      /\ Absent \notin durable' /\ file' = f
  BY <1>1, <1>2, LegacyHas, WrittenKeeps DEF Written
<1>4. WriterRight'
  <2>1. RunKnown(w)'
    BY <1>1 DEF RunKnown
  <2>2. Shows(file.lines, w.view)'
    BY <1>1, <1>2, <1>3 DEF Shows
  <2>3. w'.at \notin InSql /\ w'.at \notin {"sqlready"} \union Removing
    BY <1>1, Places
  <2>4. w'.line = Header \/ w'.line \in MayWrite(w)'
    BY <1>1 DEF MayWrite
  <2> QED BY <1>1, <1>2, <1>3, <2>1, <2>2, <2>3, <2>4 DEF WriterRight
<1>5. w' \in Writer /\ w'.at \in InFile \union {"closed"}
  BY <1>1, LegacyHas, Places
<1>6. Begins(file.lines, file'.lines) /\ Replays(file'.lines)
  BY <1>2, <1>3, LegacyHas
<1> QED BY <1>1, <1>3, <1>4, <1>5, <1>6, LegacyHas, FileMoves

\* The whole line is in the file: no deployment record of the log is harmed.
LEMMA AddedIs ==
    ASSUME StoreInv, ~sql.exists, w.at = "write"
    PROVE  /\ Added(file, w.line) \in FileRec /\ Added(file, w.line).exists
           /\ ~Added(file, w.line).torn
           /\ Begins(file.lines, Added(file, w.line).lines)
           /\ Replays(Added(file, w.line).lines)
           /\ Shows(Added(file, w.line).lines, ViewAfter(w.view, w.line))
<1>1. /\ file.exists /\ Shows(file.lines, w.view)
      /\ w.line = Header \/ w.line \in MayWrite(w)
  BY Places DEF StoreInv, WriterRight
<1>2. w.view \in View /\ file.lines \in Seq(SnapLine)
  BY LegacyHas, FileFields DEF Writer
<1>3. CASE w.line = Header
  <2> DEFINE o == [file EXCEPT !.header = TRUE, !.torn = FALSE]
  <2>1. Added(file, w.line) = o
    BY <1>3 DEF Added
  <2>2. o \in FileRec
    BY LegacyHas DEF FileRec
  <2>3. o.lines = file.lines /\ o.exists = file.exists /\ o.torn = FALSE
    BY LegacyHas DEF FileRec
  <2> HIDE DEF o
  <2>4. ViewAfter(w.view, w.line) = w.view
    BY <1>3, SnapLines DEF ViewAfter
  <2> QED BY <1>1, <2>1, <2>2, <2>3, <2>4, LegacyHas
<1>4. CASE w.line # Header
  <2> PICK l \in SnapLine : l = w.line /\ l \in Line /\ Fits(w.view, l)
    BY <1>1, <1>4, LegacyHas, MayWriteFits
  <2> PICK more \in Seq(SnapLine) : more = Append(file.lines, l)
    BY <1>2, AppendIs
  <2> DEFINE o == [file EXCEPT !.lines = more, !.torn = FALSE]
  <2>1. Added(file, w.line) = o
    BY <1>4, LegacyHas DEF Added, FileRec
  <2>2. o \in FileRec
    BY LegacyHas DEF FileRec
  <2>3. o.lines = more /\ o.exists = file.exists /\ o.torn = FALSE
    BY LegacyHas DEF FileRec
  <2> HIDE DEF o
  <2>4. Begins(file.lines, more)
    BY <1>2, BeginsFacts
  <2>5. Replays(more)
    BY <1>1, <1>2, LegacyHas, ReplaysAppend
  <2>6. Shows(more, ViewAfter(w.view, l))
    BY <1>1, <1>2, LegacyHas, ShowsAppend
  <2> QED BY <1>1, <2>1, <2>2, <2>3, <2>4, <2>5, <2>6
<1> QED BY <1>3, <1>4

LEMMA AppendAllKeeps ==
    ASSUME StoreInv, ~sql.exists, AppendAll, UNCHANGED <<sql, backups, tries, reader>>
    PROVE  StoreInv'
<1>1. /\ w.at = "write" /\ file.exists /\ UNCHANGED acked
      /\ Absent \notin durable /\ RunKnown(w) /\ w' = [w EXCEPT !.at = "sync"]
      /\ w.line = Header \/ w.line \in MayWrite(w)
  BY Places DEF AppendAll, StoreInv, WriterRight
<1> PICK f : f = Added(file, w.line)
  OBVIOUS
<1>2. /\ f \in FileRec /\ f.exists /\ ~f.torn /\ Begins(file.lines, f.lines) /\ Replays(f.lines)
      /\ Shows(f.lines, ViewAfter(w.view, w.line))
  BY <1>1, AddedIs
<1>3. Written(f)
  <2>1. w.glued = FALSE
    BY LegacyHas DEF Writer
  <2> QED BY <2>1 DEF AppendAll
<1>4. /\ file' \in FileRec /\ durable' \subseteq FileRec /\ FileRight'
      /\ \A g \in durable' : acked <= Len(g.lines)
      /\ Absent \notin durable' /\ file' = f
  BY <1>1, <1>2, <1>3, LegacyHas, WrittenKeeps DEF Written
<1>5. /\ w' \in Writer /\ w'.at = "sync" /\ w'.view = w.view /\ w'.run = w.run
      /\ w'.line = w.line /\ w'.mark = w.mark
  BY <1>1, LegacyHas, WriterAt, Places
<1>6. WriterRight'
  <2>1. RunKnown(w)'
    BY <1>1, <1>5 DEF RunKnown
  <2>2. Shows(file.lines, ViewAfter(w.view, w.line))'
    BY <1>2, <1>4, <1>5 DEF Shows, ViewAfter
  <2>3. w'.at \notin InSql /\ w'.at \notin {"sqlready"} \union Removing
    BY <1>5, Places
  <2>4. w'.line = Header \/ w'.line \in MayWrite(w)'
    BY <1>1, <1>5 DEF MayWrite
  <2> QED BY <1>2, <1>4, <1>5, <2>1, <2>2, <2>3, <2>4 DEF WriterRight
<1>7. w'.at \in InFile \union {"closed"}
  BY <1>5, Places
<1> QED BY <1>1, <1>2, <1>4, <1>5, <1>6, <1>7, LegacyHas, FileMoves

LEMMA AppendFailsKeeps ==
    ASSUME StoreInv, ~sql.exists, AppendFails, UNCHANGED <<sql, backups, tries, reader>>
    PROVE  StoreInv'
<1>1. w.at = "write" /\ file.exists /\ UNCHANGED acked /\ w' = [w EXCEPT !.at = "broken"]
  BY Places DEF AppendFails, StoreInv, WriterRight
<1>2. w' \in Writer /\ w'.at = "broken" /\ w'.view = w.view /\ w'.run = w.run /\ w'.mark = w.mark
  BY <1>1, LegacyHas, WriterAt, Places
<1>3. RunKnown(w)'
  BY <1>2, LegacyHas DEF RunKnown
<1>4. Synced(CutOff(file)) \/ Written(CutOff(file)) \/ UNCHANGED <<file, durable>>
  BY DEF AppendFails
<1> QED BY <1>1, <1>2, <1>3, <1>4, WriterGivesUp

LEMMA SyncLineKeeps ==
    ASSUME StoreInv, ~sql.exists, SyncLine, UNCHANGED <<sql, backups, tries, reader>>
    PROVE  StoreInv'
<1>1. /\ w.at = "sync" /\ file.exists /\ ~file.torn /\ Absent \notin durable
      /\ Shows(file.lines, ViewAfter(w.view, w.line)) /\ RunKnown(w)
      /\ w.line = Header \/ w.line \in MayWrite(w)
  BY Places DEF SyncLine, StoreInv, WriterRight
<1>2. CASE Synced(file) /\ w' = Applied(w.line) /\ acked' = Len(file.lines)
  <2> PICK f \in FileRec : f = file
    BY LegacyHas
  <2>1. /\ file' \in FileRec /\ durable' \subseteq FileRec /\ FileRight'
        /\ \A g \in durable' : g = f \/ g \in durable
        /\ f # Absent
    BY <1>1, <1>2, LegacyHas, SyncedKeeps
  <2>2. file' = file /\ \A g \in durable' : g = file
    BY <1>1, <1>2 DEF Synced
  <2>3. w.line \in Line \union {Header}
    BY <1>1, LegacyHas, MayWriteFits
  <2>4. /\ w' \in Writer /\ w'.at = "ready" /\ w'.view = ViewAfter(w.view, w.line) /\ RunKnown(w')
    BY <1>1, <1>2, <2>3, LegacyHas, AppliedIs
  <2>5. WriterRight'
    <3>1. RunKnown(w)'
      BY <2>4 DEF RunKnown
    <3>2. Shows(file.lines, w.view)'
      BY <1>1, <2>2, <2>4 DEF Shows
    <3>3. w'.at \notin InSql /\ w'.at \notin {"sqlready"} \union Removing
      BY <2>4, Places
    <3>4. Absent \notin durable'
      BY <2>1, <2>2
    <3> QED BY <1>1, <2>2, <2>4, <3>1, <3>2, <3>3, <3>4 DEF WriterRight
  <2>6. w'.at \in InFile \union {"closed"}
    BY <2>4, Places
  <2>7. acked' \in Nat /\ \A g \in durable' : acked' <= Len(g.lines)
    BY <1>2, <2>2, LegacyHas
  <2>8. Begins(file.lines, file'.lines) /\ Replays(file'.lines)
    BY <2>2, LegacyHas
  <2> QED BY <2>1, <2>4, <2>5, <2>6, <2>7, <2>8, FileMoves
<1>3. CASE w' = [w EXCEPT !.at = "broken"] /\ UNCHANGED <<file, durable, acked>>
  <2>1. w' \in Writer /\ w'.at = "broken" /\ w'.view = w.view /\ w'.run = w.run /\ w'.mark = w.mark
    BY <1>3, LegacyHas, WriterAt, Places
  <2>2. RunKnown(w)'
    BY <2>1, LegacyHas DEF RunKnown
  <2> QED BY <1>1, <1>3, <2>1, <2>2, WriterGivesUp
<1> QED BY <1>2, <1>3 DEF SyncLine

LEMMA LegacyKeeps ==
    ASSUME StoreInv, Legacy
    PROVE  StoreInv'
BY OpenKeeps, CutTailKeeps, SyncDirKeeps, PersistKeeps, AppendPartKeeps, AppendAllKeeps,
   AppendFailsKeeps, SyncLineKeeps DEF Legacy, FileNext, sqlvars

LEMMA PowerLossKeeps ==
    ASSUME StoreInv, StorePowerLoss
    PROVE  StoreInv'
<1>1. PICK f \in durable : file' = f /\ durable' = {f}
  BY DEF StorePowerLoss, PowerLoss
<1>2. w' = Closed /\ reader' = NoRead /\ UNCHANGED <<acked, sql, backups, tries>>
  BY DEF StorePowerLoss, PowerLoss, sqlvars
<1>3. /\ f \in FileRec /\ file \in FileRec /\ Begins(f.lines, file.lines)
      /\ ~f.exists => f.lines = <<>>
      /\ f.lines \in Seq(Line) /\ file.lines \in Seq(Line)
  BY FileFields DEF StoreInv, StoreTyped, FileRight
<1>4. StoreTyped'
  <2>1. w' \in Writer /\ reader' \in ReaderRec
    BY <1>2, ClosedIs DEF NoRead, ReaderRec
  <2> QED BY <1>1, <1>2, <1>3, <2>1 DEF StoreInv, StoreTyped
<1>5. FileRight'
  BY <1>1, <1>3, BeginsFacts, EmptyFiles DEF FileRight
<1>6. WriterRight' /\ RemovalRight' /\ w'.at = "closed"
  BY <1>2, ClosedRight
<1>7. ImportRight'
  <2>1. file.lines = <<>> => f.lines = <<>>
    BY <1>3, BeginsFacts
  <2> QED BY <1>1, <1>2, <1>6, <2>1 DEF StoreInv, ImportRight
<1>8. AckedRight'
  BY <1>1, <1>2 DEF StoreInv, AckedRight, Log
<1>9. BackupRight'
  BY <1>2 DEF StoreInv, BackupRight
<1>10. ReaderRight'
  BY <1>2 DEF ReaderRight, NoRead
<1>11. ReplaysRight'
  BY <1>1, <1>2, <1>3, ReplaysBegins DEF StoreInv, ReplaysRight
<1> QED BY <1>4, <1>5, <1>6, <1>7, <1>8, <1>9, <1>10, <1>11 DEF StoreInv

-----------------------------------------------------------------------------
(* The store: steps on the SQLite rows *)

LEMMA SqlFields ==
    ASSUME NEW s \in SqlRec
    PROVE  /\ [s EXCEPT !.exists = TRUE] \in SqlRec /\ [s EXCEPT !.exists = TRUE].exists = TRUE
           /\ [s EXCEPT !.exists = TRUE].rows = s.rows /\ [s EXCEPT !.exists = TRUE].schema = s.schema
           /\ s.rows \in Seq(Line) /\ s.schema \in 0..2 /\ s.exists \in BOOLEAN
<1>1. REMOVAL_SCHEMA = 2
  BY DEF REMOVAL_SCHEMA
<1> QED BY <1>1 DEF SqlRec

LEMMA SchemaFields ==
    ASSUME NEW s \in SqlRec, NEW n \in 0..2
    PROVE  /\ [s EXCEPT !.schema = n] \in SqlRec /\ [s EXCEPT !.schema = n].exists = s.exists
           /\ [s EXCEPT !.schema = n].rows = s.rows /\ [s EXCEPT !.schema = n].schema = n
<1>1. n \in 0..REMOVAL_SCHEMA
  BY DEF REMOVAL_SCHEMA
<1> QED BY <1>1 DEF SqlRec

LEMMA RowsFields ==
    ASSUME NEW s \in SqlRec, NEW r \in Seq(Line)
    PROVE  /\ [s EXCEPT !.rows = r] \in SqlRec /\ [s EXCEPT !.rows = r].exists = s.exists
           /\ [s EXCEPT !.rows = r].rows = r /\ [s EXCEPT !.rows = r].schema = s.schema
BY DEF SqlRec

\* The store while a process of this build is at it.
LEMMA StoreHas ==
    ASSUME StoreInv
    PROVE  /\ sql \in SqlRec /\ file \in FileRec /\ w \in Writer /\ RunKnown(w) /\ reader \in ReaderRec
           /\ sql.rows \in Seq(Line) /\ Len(sql.rows) \in Nat /\ Replays(sql.rows)
           /\ file.lines \in Seq(SnapLine) /\ file.lines \in Seq(Line) /\ Len(file.lines) \in Nat
           /\ Replays(file.lines)
           /\ ~file.exists => file.lines = <<>>
           /\ Log \in Seq(Line) /\ Len(Log) \in Nat /\ acked \in Nat /\ acked <= Len(Log)
           /\ backups \subseteq Backup /\ tries \in Nat
           /\ sql.schema \in 0..2 /\ sql.exists \in BOOLEAN
           /\ reader.known \in Nat /\ reader.missed \in SUBSET {"snapshot", "other", "gitdrop"}
           /\ w.at \in InSql => sql.exists
<1>1. /\ sql \in SqlRec /\ file \in FileRec /\ w \in Writer /\ reader \in ReaderRec /\ acked \in Nat
      /\ backups \subseteq Backup /\ tries \in Nat
  BY DEF StoreInv, StoreTyped
<1>2. /\ sql.rows \in Seq(Line) /\ sql.schema \in 0..2 /\ sql.exists \in BOOLEAN
  BY <1>1, SqlFields
<1>3. file.lines \in Seq(SnapLine) /\ file.lines \in Seq(Line)
  BY <1>1, FileFields
<1>4. Log \in Seq(Line) /\ acked <= Len(Log)
  BY <1>2, <1>3 DEF Log, StoreInv, AckedRight
<1>5. /\ ~file.exists => file.lines = <<>>
      /\ Replays(sql.rows) /\ Replays(file.lines) /\ RunKnown(w)
      /\ w.at \in InSql => sql.exists
  BY DEF StoreInv, FileRight, ReplaysRight, WriterRight
<1>6. reader.known \in Nat /\ reader.missed \in SUBSET {"snapshot", "other", "gitdrop"}
  BY <1>1 DEF ReaderRec
<1>7. Len(sql.rows) \in Nat /\ Len(file.lines) \in Nat /\ Len(Log) \in Nat
  BY <1>2, <1>3, <1>4
<1> QED BY <1>1, <1>2, <1>3, <1>4, <1>5, <1>6, <1>7

\* No record is added: what the process relies on must hold.
LEMMA StoreMoves ==
    ASSUME StoreInv, UNCHANGED <<file, durable, acked, backups, tries, reader>>,
           sql' \in SqlRec, sql'.rows = sql.rows, ~sql'.exists => ~sql.exists,
           sql'.schema = REMOVAL_SCHEMA => sql.schema = REMOVAL_SCHEMA,
           w' \in Writer, WriterRight', RemovalRight',
           w'.at = "sqlready" /\ sql.rows = <<>> => file.lines = <<>>,
           w'.at = "import" => NoDeployments(sql.rows)
    PROVE  StoreInv'
<1>1. StoreTyped'
  BY DEF StoreInv, StoreTyped
<1>2. FileRight'
  BY DEF StoreInv, FileRight
<1>3. ImportRight'
  BY DEF StoreInv, ImportRight
<1>4. AckedRight'
  BY DEF StoreInv, AckedRight, Log
<1>5. BackupRight'
  BY DEF StoreInv, BackupRight
<1>6. ReaderRight'
  BY DEF StoreInv, ReaderRight, Log
<1>7. ReplaysRight'
  BY DEF StoreInv, ReplaysRight
<1> QED BY <1>1, <1>2, <1>3, <1>4, <1>5, <1>6, <1>7 DEF StoreInv

LEMMA OpenStoreKeeps ==
    ASSUME StoreInv, OpenStore
    PROVE  StoreInv'
<1>1. PICK mark \in BOOLEAN : w' = [Closed EXCEPT !.at = "migrate", !.mark = mark]
  BY DEF OpenStore
<1>2. sql' = [sql EXCEPT !.exists = TRUE] /\ UNCHANGED <<file, durable, acked, backups, tries, reader>>
  BY DEF OpenStore, filevars
<1>3. sql' \in SqlRec /\ sql'.exists /\ sql'.rows = sql.rows /\ sql'.schema = sql.schema
  BY <1>2, StoreHas, SqlFields
<1>4. w' \in Writer /\ w'.at = "migrate" /\ w'.run = NoRun
  <2>1. "migrate" \in {"closed"} \union InFile \union InSql
    BY Places
  <2>2. [Closed EXCEPT !.at = "migrate", !.mark = mark] \in Writer
    BY <2>1, ClosedIs DEF Writer
  <2>3. /\ [Closed EXCEPT !.at = "migrate", !.mark = mark].at = "migrate"
        /\ [Closed EXCEPT !.at = "migrate", !.mark = mark].run = NoRun
    BY DEF Closed
  <2> QED BY <1>1, <2>2, <2>3
<1>5. RunKnown(w)'
  BY <1>4 DEF RunKnown
<1>6. WriterRight' /\ RemovalRight'
  BY <1>3, <1>4, <1>5 DEF WriterRight, RemovalRight, InFile, InSql, Removing
<1> QED BY <1>2, <1>3, <1>4, <1>6, StoreMoves

LEMMA MigrateKeeps ==
    ASSUME StoreInv, Migrate
    PROVE  StoreInv'
<1>1. w.at = "migrate" /\ UNCHANGED <<file, durable, acked, backups, tries, reader>>
  BY DEF Migrate, filevars
<1>2. CASE sql' = [sql EXCEPT !.schema = IF @ = 0 THEN 1 ELSE @] /\ w' = [w EXCEPT !.at = "restore"]
  <2> PICK n \in 0..2 : n = (IF sql.schema = 0 THEN 1 ELSE sql.schema)
    BY StoreHas
  <2>1. sql' = [sql EXCEPT !.schema = n]
    BY <1>2, StoreHas DEF SqlRec
  <2>2. sql' \in SqlRec /\ sql'.exists = sql.exists /\ sql'.rows = sql.rows /\ sql'.schema = n
    <3>1. sql \in SqlRec
      BY StoreHas
    <3>2. /\ [sql EXCEPT !.schema = n] \in SqlRec /\ [sql EXCEPT !.schema = n].exists = sql.exists
          /\ [sql EXCEPT !.schema = n].rows = sql.rows /\ [sql EXCEPT !.schema = n].schema = n
      BY <3>1, SchemaFields
    <3> QED BY <2>1, <3>2
  <2>3. sql'.schema = REMOVAL_SCHEMA => sql.schema = REMOVAL_SCHEMA
    BY <2>2 DEF REMOVAL_SCHEMA
  <2>4. /\ w' \in Writer /\ w'.at = "restore" /\ w'.run = w.run
        /\ w'.view = w.view /\ w'.mark = w.mark
    BY <1>2, StoreHas, WriterAt, Places
  <2>5. w.run = NoRun /\ sql.exists
    BY <1>1, Places DEF StoreInv, WriterRight
  <2>6. RunKnown(w)'
    BY <2>4, <2>5 DEF RunKnown
  <2>7. WriterRight' /\ RemovalRight'
    BY <2>2, <2>4, <2>5, <2>6 DEF WriterRight, RemovalRight, InFile, InSql, Removing
  <2> QED BY <1>1, <2>2, <2>3, <2>4, <2>7, StoreMoves
<1>3. CASE w' = Closed /\ UNCHANGED sql
  BY <1>1, <1>3, Closes
<1> QED BY <1>2, <1>3 DEF Migrate

LEMMA RestoreKeeps ==
    ASSUME StoreInv, RestoreBackup
    PROVE  StoreInv'
<1>1. w.at = "restore" /\ UNCHANGED <<file, durable, acked, sql, backups, tries, reader>>
  BY DEF RestoreBackup, filevars, sqlvars
<1>2. w.run = NoRun /\ sql.exists
  BY <1>1, Places DEF StoreInv, WriterRight
<1>3. CASE NoDeployments(sql.rows) /\ file.exists
  <2>1. w' \in Writer /\ w'.at = "import" /\ w'.run = NoRun
    <3>1. w' = [w EXCEPT !.at = "import"]
      BY <1>3 DEF RestoreBackup
    <3> QED BY <1>2, <3>1, StoreHas, WriterAt, Places
  <2>2. RunKnown(w)'
    BY <2>1 DEF RunKnown
  <2>3. WriterRight' /\ RemovalRight'
    BY <1>1, <1>2, <2>1, <2>2 DEF WriterRight, RemovalRight, InFile, InSql, Removing
  <2> QED BY <1>1, <1>3, <2>1, <2>3, WriterMoves
<1>4. CASE ~(NoDeployments(sql.rows) /\ file.exists)
  <2>1. w' = Opened(w, "sqlready", sql.rows)
    BY <1>4 DEF RestoreBackup
  <2>2. /\ w' \in Writer /\ w'.at = "sqlready" /\ RunKnown(w') /\ Shows(sql.rows, w'.view)
    <3>1. w \in Writer /\ "sqlready" \in InFile \union InSql /\ sql.rows \in Seq(Line)
      BY StoreHas, Places
    <3>2. /\ Opened(w, "sqlready", sql.rows) \in Writer
          /\ Opened(w, "sqlready", sql.rows).at = "sqlready"
          /\ RunKnown(Opened(w, "sqlready", sql.rows))
          /\ Shows(sql.rows, Opened(w, "sqlready", sql.rows).view)
      BY <1>2, <3>1, OpenedIs
    <3> QED BY <2>1, <3>2
  <2>3. RunKnown(w)' /\ Shows(sql.rows, w.view)'
    BY <1>1, <2>2 DEF RunKnown, Shows
  <2>4. WriterRight' /\ RemovalRight'
    BY <1>1, <1>2, <2>2, <2>3 DEF WriterRight, RemovalRight, InFile, InSql, Removing
  <2>5. sql.rows = <<>> => file.lines = <<>>
    BY <1>4, StoreHas DEF NoDeployments
  <2> QED BY <1>1, <2>2, <2>4, <2>5, WriterMoves
<1> QED BY <1>3, <1>4

\* The import: the rows are those of the file, or stay what they were.
LEMMA ImportedRows ==
    ASSUME StoreInv, NoDeployments(sql.rows)
    PROVE  sql.rows \o file.lines = IF sql.rows = <<>> THEN file.lines ELSE sql.rows
<1>1. sql.rows \in Seq(Line) /\ file.lines \in Seq(Line)
  BY StoreHas
<1>2. sql.rows # <<>> => file.lines = <<>>
  BY DEF StoreInv, ImportRight
<1>3. sql.rows \o <<>> = sql.rows /\ <<>> \o file.lines = file.lines
  BY <1>1, ConcatEmptySeq
<1> QED BY <1>2, <1>3

LEMMA ImportKeeps ==
    ASSUME StoreInv, ImportLegacy
    PROVE  StoreInv'
<1>1. /\ w.at = "import" /\ sql.exists /\ w.run = NoRun /\ NoDeployments(sql.rows)
      /\ UNCHANGED <<file, durable, backups, tries, reader>>
  BY Places DEF ImportLegacy, StoreInv, WriterRight, ImportRight
<1>2. CASE w' = Closed /\ UNCHANGED <<sql, acked>>
  BY <1>1, <1>2, Closes
<1>3. CASE /\ sql' = [sql EXCEPT !.rows = @ \o file.lines]
           /\ w' = Opened(w, "sqlready", sql'.rows)
           /\ acked' = Len(sql'.rows)
  <2> PICK rows \in Seq(Line) : rows = IF sql.rows = <<>> THEN file.lines ELSE sql.rows
    BY StoreHas
  <2>1. sql' = [sql EXCEPT !.rows = rows]
    BY <1>1, <1>3, StoreHas, ImportedRows DEF SqlRec
  <2>2. sql' \in SqlRec /\ sql'.exists = sql.exists /\ sql'.rows = rows /\ sql'.schema = sql.schema
    <3>1. sql \in SqlRec
      BY StoreHas
    <3> QED BY <2>1, <3>1, RowsFields
  <2>3. /\ w' \in Writer /\ w'.at = "sqlready" /\ RunKnown(w') /\ Shows(rows, w'.view)
    <3>1. w \in Writer /\ "sqlready" \in InFile \union InSql
      BY StoreHas, Places
    <3>2. /\ Opened(w, "sqlready", rows) \in Writer /\ Opened(w, "sqlready", rows).at = "sqlready"
          /\ RunKnown(Opened(w, "sqlready", rows)) /\ Shows(rows, Opened(w, "sqlready", rows).view)
      BY <1>1, <3>1, OpenedIs
    <3> QED BY <1>3, <2>2, <3>2
  <2>4. Log' = rows /\ Log = rows /\ acked' = Len(rows) /\ Len(rows) \in Nat
    <3>1. Log = rows
      BY DEF Log
    <3>2. rows = <<>> => file.lines = <<>>
      OBVIOUS
    <3>3. Log' = IF rows # <<>> THEN rows ELSE file.lines
      BY <1>1, <2>2 DEF Log
    <3>4. Log' = rows
      BY <3>2, <3>3
    <3>5. Len(rows) \in Nat
      OBVIOUS
    <3>6. acked' = Len(rows)
      BY <1>3, <2>2
    <3> QED BY <3>1, <3>4, <3>5, <3>6
  <2>5. StoreTyped'
    BY <1>1, <2>2, <2>3, <2>4 DEF StoreInv, StoreTyped
  <2>6. FileRight'
    BY <1>1 DEF StoreInv, FileRight
  <2>7. RunKnown(w)' /\ Shows(sql.rows, w.view)'
    BY <2>2, <2>3 DEF RunKnown, Shows
  <2>8. WriterRight' /\ RemovalRight'
    BY <1>1, <2>2, <2>3, <2>7 DEF WriterRight, RemovalRight, InFile, InSql, Removing
  <2>9. ImportRight'
    <3>1. rows # <<>> /\ NoDeployments(rows) => file.lines = <<>>
      <4>1. CASE sql.rows # <<>>
        BY <1>1, <4>1 DEF StoreInv, ImportRight
      <4>2. CASE sql.rows = <<>>
        <5>1. rows = file.lines /\ file.lines \in Seq(SnapLine)
          BY <4>2, StoreHas
        <5>2. rows # <<>> => 1 \in DOMAIN rows /\ IsSnapshot(rows[1])
          BY <5>1, SnapLines
        <5> QED BY <5>2 DEF NoDeployments
      <4> QED BY <4>1, <4>2
    <3> QED BY <1>1, <2>2, <2>3, <3>1 DEF ImportRight
  <2>10. AckedRight'
    <3>1. Len(rows) <= Len(rows) /\ (rows = <<>> => Len(rows) = 0)
      BY <2>4
    <3>2. \A f \in durable' : Len(f.lines) \in Nat
      BY <2>5, FileFields DEF StoreTyped
    <3> QED BY <2>2, <2>4, <3>1, <3>2 DEF AckedRight
  <2>11. BackupRight'
    <3>1. sql.schema = REMOVAL_SCHEMA => sql.rows # <<>>
      <4>1. \A b \in backups : Len(b.rows) \in Nat
        BY DEF StoreInv, StoreTyped, Backup
      <4>2. ASSUME sql.schema = REMOVAL_SCHEMA, sql.rows = <<>> PROVE FALSE
        <5>1. PICK b \in backups : Len(b.rows) < Len(sql.rows)
          BY <4>2 DEF StoreInv, BackupRight
        <5> QED BY <4>1, <4>2, <5>1
      <4> QED BY <4>2
    <3> QED BY <1>1, <2>2, <3>1 DEF StoreInv, BackupRight
  <2>12. ReaderRight'
    <3>1. reader.at # "idle" => reader.known <= Len(rows)
      BY <2>4 DEF StoreInv, ReaderRight
    <3>2. ASSUME reader.at = "file", rows # <<>>, NEW i \in 1..reader.known, IsSnapshot(rows[i])
          PROVE  \E j \in 1..Len(file.lines) : file.lines[j] = rows[i]
      <4>1. CASE sql.rows # <<>>
        BY <3>2, <4>1 DEF StoreInv, ReaderRight
      <4>2. CASE sql.rows = <<>>
        <5>1. rows = file.lines /\ reader.known <= Len(rows) /\ reader.known \in Nat
          BY <3>1, <3>2, <4>2, StoreHas
        <5>2. i \in 1..Len(file.lines)
          BY <5>1, StoreHas
        <5> QED BY <5>1, <5>2
      <4> QED BY <4>1, <4>2
    <3>3. "snapshot" \notin reader.missed
      BY DEF StoreInv, ReaderRight
    <3> QED BY <1>1, <2>2, <2>4, <3>1, <3>2, <3>3 DEF ReaderRight
  <2>13. ReplaysRight'
    BY <1>1, <2>2, StoreHas DEF ReplaysRight
  <2> QED BY <2>5, <2>6, <2>8, <2>9, <2>10, <2>11, <2>12, <2>13 DEF StoreInv
<1> QED BY <1>2, <1>3 DEF ImportLegacy

\* A record is added to the rows; what concerns neither the process nor the
\* backups stays right.
LEMMA RowAdded ==
    ASSUME StoreInv, w.at \in {"sqlready"} \union Removing, NEW l \in Line,
           Replays(Append(sql.rows, l)),
           UNCHANGED <<file, durable, reader>>,
           sql'.rows = Append(sql.rows, l), sql'.exists = sql.exists, sql' \in SqlRec,
           w' \in Writer, acked' \in {acked, Len(sql'.rows)},
           backups' \subseteq Backup, tries' \in Nat, w'.at # "import"
    PROVE  /\ StoreTyped' /\ FileRight' /\ ImportRight' /\ AckedRight' /\ ReaderRight' /\ ReplaysRight'
<1> PICK rows, more : rows = sql.rows /\ more = Append(rows, l)
  OBVIOUS
<1>1. /\ rows \in Seq(Line) /\ more \in Seq(Line) /\ more # <<>> /\ Len(rows) \in Nat
      /\ Len(more) = Len(rows) + 1 /\ \A i \in 1..Len(rows) : more[i] = rows[i]
      /\ DOMAIN more = 1..Len(more) /\ DOMAIN rows = 1..Len(rows)
  BY StoreHas, AppendIs
<1>2. rows = <<>> => file.lines = <<>>
  <2>1. w.at \in Removing => rows # <<>>
    BY DEF StoreInv, RemovalRight
  <2> QED BY <2>1 DEF StoreInv, ImportRight
<1>3. sql'.rows = more /\ Log' = more
  BY <1>1 DEF Log
<1>4. Len(Log) = Len(rows)
  BY <1>2 DEF Log
<1>5. acked' \in Nat /\ acked' <= Len(more) /\ acked' \in {acked, Len(more)}
  BY <1>1, <1>3, <1>4, StoreHas
<1>6. StoreTyped'
  BY <1>5 DEF StoreInv, StoreTyped
<1>7. FileRight'
  BY DEF StoreInv, FileRight
<1>8. ImportRight'
  <2>1. sql.exists
    BY Places DEF StoreInv, WriterRight
  <2>2. NoDeployments(more) => NoDeployments(rows)
    BY <1>1 DEF NoDeployments
  <2>3. NoDeployments(more) => file.lines = <<>>
    BY <1>2, <2>2 DEF StoreInv, ImportRight
  <2> QED BY <1>1, <1>3, <2>1, <2>3 DEF ImportRight
<1>9. AckedRight'
  BY <1>1, <1>3, <1>5 DEF AckedRight
<1>10. ReaderRight'
  <2>1. reader.at # "idle" => reader.known <= Len(rows)
    BY <1>4 DEF StoreInv, ReaderRight
  <2>2. reader.at # "idle" => reader.known <= Len(more)
    BY <1>1, <2>1, StoreHas
  <2>3. ASSUME reader.at = "file", NEW i \in 1..reader.known, IsSnapshot(more[i])
        PROVE  \E j \in 1..Len(file.lines) : file.lines[j] = more[i]
    <3>1. i \in 1..Len(rows) /\ rows # <<>>
      BY <1>1, <2>1, <2>3, StoreHas
    <3>2. more[i] = rows[i]
      BY <1>1, <3>1
    <3> QED BY <2>3, <3>1, <3>2 DEF StoreInv, ReaderRight
  <2>4. "snapshot" \notin reader.missed
    BY DEF StoreInv, ReaderRight
  <2> QED BY <1>3, <2>2, <2>3, <2>4 DEF ReaderRight
<1>11. ReplaysRight'
  BY <1>3, StoreHas DEF ReplaysRight
<1> QED BY <1>6, <1>7, <1>8, <1>9, <1>10, <1>11

\* A backup from before a removal stays one when records are added.
LEMMA BackupStays ==
    ASSUME StoreInv, NEW l \in Line, sql'.rows = Append(sql.rows, l), sql'.schema = sql.schema,
           UNCHANGED <<backups, tries>>
    PROVE  BackupRight'
<1> PICK rows, more : rows = sql.rows /\ more = Append(rows, l)
  OBVIOUS
<1>1. /\ rows \in Seq(Line) /\ more \in Seq(Line) /\ Len(rows) \in Nat
      /\ Len(more) = Len(rows) + 1 /\ \A i \in 1..Len(rows) : more[i] = rows[i]
  BY StoreHas, AppendIs
<1>2. ASSUME NEW b \in backups, Len(b.rows) < Len(rows), Begins(b.rows, rows),
             rows[Len(b.rows) + 1].kind = "gitdrop"
      PROVE  /\ Len(b.rows) < Len(more) /\ Begins(b.rows, more)
             /\ more[Len(b.rows) + 1].kind = "gitdrop"
  <2>1. b.rows \in Seq(Line) /\ Len(b.rows) \in Nat
    BY DEF StoreInv, StoreTyped, Backup
  <2>2. Len(b.rows) + 1 \in 1..Len(rows)
    BY <1>1, <1>2, <2>1
  <2>3. Begins(b.rows, more)
    BY <1>1, <1>2, <2>1, BeginsFacts
  <2> QED BY <1>1, <1>2, <2>1, <2>2, <2>3
<1> QED BY <1>2 DEF StoreInv, BackupRight

LEMMA InsertKeeps ==
    ASSUME StoreInv, Insert
    PROVE  StoreInv'
<1>1. /\ w.at = "sqlready" /\ sql.exists /\ Shows(sql.rows, w.view)
      /\ UNCHANGED <<file, durable, backups, tries, reader>>
  BY Places DEF Insert, SqlReady, StoreInv, WriterRight
<1>2. PICK l \in MayWrite(w) \union {Other("other")} :
         \/ /\ sql' = [sql EXCEPT !.rows = Append(@, l)] /\ acked' = Len(sql'.rows)
            /\ w' = [Applied(l) EXCEPT !.at = "sqlready"]
         \/ w' = Closed /\ UNCHANGED <<sql, acked>>
         \/ /\ w' = Closed /\ sql' = [sql EXCEPT !.rows = Append(@, l)]
            /\ UNCHANGED acked
  BY DEF Insert, MayWrite
<1>3. l \in Line /\ Fits(w.view, l)
  BY StoreHas, MayWriteFits, SnapLines DEF Fits
<1>4. w.view \in View /\ sql.rows \in Seq(Line) /\ Replays(sql.rows)
  BY StoreHas DEF Writer
<1> PICK more \in Seq(Line) : more = Append(sql.rows, l)
  BY <1>3, <1>4, AppendIs
<1>5. Replays(more) /\ Shows(more, ViewAfter(w.view, l))
  BY <1>1, <1>3, <1>4, ReplaysAppend, ShowsAppend
<1>6. CASE w' = Closed /\ UNCHANGED <<sql, acked>>
  BY <1>1, <1>6, Closes
<1>7. CASE sql' = [sql EXCEPT !.rows = Append(@, l)] /\ w' = Closed /\ UNCHANGED acked
  <2>1. sql' = [sql EXCEPT !.rows = more]
    BY <1>7, StoreHas DEF SqlRec
  <2>2. sql' \in SqlRec /\ sql'.exists = sql.exists /\ sql'.rows = more /\ sql'.schema = sql.schema
    <3>1. sql \in SqlRec
      BY StoreHas
    <3> QED BY <2>1, <3>1, RowsFields
  <2>3. WriterRight' /\ RemovalRight' /\ w' \in Writer /\ w'.at = "closed"
    BY <1>7, ClosedRight
  <2>4. backups' \subseteq Backup /\ tries' \in Nat
    BY <1>1, StoreHas
  <2>5. StoreTyped' /\ FileRight' /\ ImportRight' /\ AckedRight' /\ ReaderRight' /\ ReplaysRight'
    BY <1>1, <1>3, <1>5, <1>7, <2>2, <2>3, <2>4, RowAdded
  <2>6. BackupRight'
    BY <1>1, <1>3, <2>2, BackupStays
  <2> QED BY <2>3, <2>5, <2>6 DEF StoreInv
<1>8. CASE /\ sql' = [sql EXCEPT !.rows = Append(@, l)] /\ acked' = Len(sql'.rows)
           /\ w' = [Applied(l) EXCEPT !.at = "sqlready"]
  <2>1. sql' = [sql EXCEPT !.rows = more]
    BY <1>8, StoreHas DEF SqlRec
  <2>2. sql' \in SqlRec /\ sql'.exists = sql.exists /\ sql'.rows = more /\ sql'.schema = sql.schema
    <3>1. sql \in SqlRec
      BY StoreHas
    <3> QED BY <2>1, <3>1, RowsFields
  <2>3. PICK h \in Writer : h = Applied(l) /\ h.view = ViewAfter(w.view, l) /\ RunKnown(h)
    BY <1>3, StoreHas, AppliedIs
  <2>4. /\ w' \in Writer /\ w'.at = "sqlready" /\ w'.view = h.view /\ w'.run = h.run
        /\ w'.mark = h.mark
    <3>1. "sqlready" \in InFile \union InSql
      BY Places
    <3>2. w' = [h EXCEPT !.at = "sqlready"]
      BY <1>8, <2>3
    <3> QED BY <3>1, <3>2, WriterAt
  <2>5. RunKnown(w)' /\ Shows(sql.rows, w.view)'
    BY <1>5, <2>2, <2>3, <2>4 DEF RunKnown, Shows
  <2>6. WriterRight' /\ RemovalRight'
    BY <1>1, <2>2, <2>4, <2>5 DEF WriterRight, RemovalRight, InFile, InSql, Removing
  <2>7. backups' \subseteq Backup /\ tries' \in Nat
    BY <1>1, StoreHas
  <2>8. StoreTyped' /\ FileRight' /\ ImportRight' /\ AckedRight' /\ ReaderRight' /\ ReplaysRight'
    BY <1>1, <1>3, <1>5, <1>8, <2>2, <2>4, <2>7, RowAdded
  <2>9. BackupRight'
    BY <1>1, <1>3, <2>2, BackupStays
  <2> QED BY <2>6, <2>8, <2>9 DEF StoreInv
<1> QED BY <1>2, <1>6, <1>7, <1>8

LEMMA RemoveBeginKeeps ==
    ASSUME StoreInv, RemoveBegin
    PROVE  StoreInv'
<1>1. /\ w.at = "sqlready" /\ w.run = NoRun /\ sql.exists /\ Shows(sql.rows, w.view)
      /\ UNCHANGED <<file, durable, acked, sql, backups, reader>>
      /\ tries' = tries + 1 /\ tries' \in Nat /\ Registered(sql.rows)
      /\ w' = [w EXCEPT !.at = NextOfRemove]
  BY Places, StoreHas DEF RemoveBegin, SqlReady, StoreInv, WriterRight, filevars
<1>2. sql.rows # <<>>
  BY <1>1 DEF Registered
<1>3. \A b \in backups : b.id \in Nat /\ b.id <= tries /\ b.id # tries' /\ b.id <= tries'
  BY <1>1, StoreHas DEF StoreInv, BackupRight, StoreTyped, Backup
<1>4. \/ NextOfRemove = "copy"
      \/ NextOfRemove = "drop" /\ sql.schema = REMOVAL_SCHEMA
  BY StoreHas DEF NextOfRemove, REMOVAL_SCHEMA
<1> PICK a \in {"copy", "drop"} : a = NextOfRemove
  BY <1>4
<1>5. /\ w' \in Writer /\ w'.at = a /\ w'.view = w.view /\ w'.run = w.run /\ w'.mark = w.mark
  <2>1. a \in InFile \union InSql /\ w \in Writer
    BY StoreHas, Places
  <2> QED BY <1>1, <2>1, WriterAt
<1>6. RunKnown(w)' /\ Shows(sql.rows, w.view)'
  BY <1>1, <1>5 DEF RunKnown, Shows
<1>7. WriterRight'
  BY <1>1, <1>5, <1>6 DEF WriterRight, InFile, InSql, Removing
<1>8. RemovalRight'
  BY <1>1, <1>2, <1>3, <1>4, <1>5 DEF RemovalRight, Removing
<1>9. StoreTyped'
  BY <1>1, <1>5 DEF StoreInv, StoreTyped
<1>10. FileRight' /\ ImportRight' /\ AckedRight' /\ ReaderRight' /\ ReplaysRight'
  BY <1>1, <1>5 DEF StoreInv, FileRight, ImportRight, AckedRight, ReaderRight, ReplaysRight, Log
<1>11. BackupRight'
  BY <1>1, <1>3 DEF StoreInv, BackupRight
<1> QED BY <1>7, <1>8, <1>9, <1>10, <1>11 DEF StoreInv

\* Only the process and the backups move.
LEMMA BackupMoves ==
    ASSUME StoreInv, UNCHANGED <<file, durable, acked, sql, tries, reader>>,
           w' \in Writer, WriterRight', RemovalRight', w'.at \in {"closed"} \union Removing,
           backups' \subseteq Backup, \A b \in backups' : b.id <= tries,
           sql.schema = REMOVAL_SCHEMA => \A b \in backups : b.side => b \in backups'
    PROVE  StoreInv'
<1>1. w'.at # "sqlready" /\ w'.at # "import"
  BY Places
<1>2. StoreTyped'
  BY DEF StoreInv, StoreTyped
<1>3. FileRight' /\ ImportRight' /\ AckedRight' /\ ReaderRight' /\ ReplaysRight'
  BY <1>1 DEF StoreInv, FileRight, ImportRight, AckedRight, ReaderRight, ReplaysRight, Log
<1>4. BackupRight'
  BY DEF StoreInv, BackupRight
<1> QED BY <1>2, <1>3, <1>4 DEF StoreInv

\* A process that goes on with a removal.
LEMMA RemovalGoesOn ==
    ASSUME StoreInv, w.at \in Removing, NEW a \in Removing, w' = [w EXCEPT !.at = a],
           UNCHANGED <<file, durable, sql>>
    PROVE  w' \in Writer /\ w'.at = a /\ WriterRight'
<1>1. /\ w' \in Writer /\ w'.at = a /\ w'.view = w.view /\ w'.run = w.run /\ w'.mark = w.mark
  <2>1. a \in InFile \union InSql /\ w \in Writer
    BY StoreHas, Places
  <2> QED BY <2>1, WriterAt
<1>2. sql.exists /\ w.run = NoRun /\ Shows(sql.rows, w.view)
  BY Places DEF StoreInv, WriterRight
<1>3. RunKnown(w)' /\ Shows(sql.rows, w.view)'
  BY <1>1, <1>2 DEF RunKnown, Shows
<1> QED BY <1>1, <1>2, <1>3 DEF WriterRight, InFile, InSql, Removing

LEMMA CopiesRows ==
    ASSUME NEW s \in Seq(Line), s # <<>>
    PROVE  Front(s) \in Seq(Line)
<1> PICK n : n = Len(s)
  OBVIOUS
<1>1. n \in Nat /\ n > 0
  BY EmptySeq
<1>2. n - 1 \in Nat /\ \A i \in 1..(n - 1) : s[i] \in Line
  BY <1>1
<1>3. SubSeq(s, 1, n - 1) \in Seq(Line)
  BY <1>1, <1>2, SubSeqProperties
<1> QED BY <1>3 DEF Front

LEMMA BackupIntoKeeps ==
    ASSUME StoreInv, BackupInto
    PROVE  StoreInv'
<1>1. /\ w.at = "copy" /\ "copy" \in Removing /\ sql.rows # <<>> /\ \A b \in backups : b.id # tries
      /\ UNCHANGED <<file, durable, acked, sql, tries, reader>>
  BY Places DEF BackupInto, StoreInv, RemovalRight, filevars, Removing
<1>2. /\ backups \subseteq Backup /\ tries \in Nat /\ \A b \in backups : b.id <= tries
      /\ sql.rows \in Seq(Line)
  BY StoreHas DEF StoreInv, BackupRight
<1>3. ASSUME NEW rows \in Seq(Line)
      PROVE  /\ [id |-> tries, rows |-> rows, side |-> FALSE] \in Backup
             /\ [id |-> tries, rows |-> rows, side |-> FALSE].id <= tries
  BY <1>2 DEF Backup
<1>4. CASE /\ backups' = backups \union {[id |-> tries, rows |-> sql.rows, side |-> FALSE]}
           /\ w' = [w EXCEPT !.at = "prove"]
  <2>1. w' \in Writer /\ w'.at = "prove" /\ WriterRight' /\ "prove" \in Removing
    BY <1>1, <1>4, RemovalGoesOn, Places
  <2>2. \A b \in backups' : b.id = tries => ~b.side
    BY <1>1, <1>4
  <2>3. RemovalRight'
    BY <1>1, <2>1, <2>2 DEF RemovalRight
  <2> QED BY <1>1, <1>2, <1>3, <1>4, <2>1, <2>3, BackupMoves
<1>5. CASE /\ backups' = backups \union {[id |-> tries, rows |-> Front(sql.rows), side |-> FALSE]}
           /\ w' = Closed
  <2>1. Front(sql.rows) \in Seq(Line)
    BY <1>1, <1>2, CopiesRows
  <2>2. backups' \subseteq Backup /\ \A b \in backups' : b.id <= tries
    BY <1>2, <1>3, <1>5, <2>1
  <2> QED BY <1>1, <1>5, <2>2, ClosedRight, BackupMoves
<1>6. CASE w' = Closed /\ UNCHANGED backups
  BY <1>1, <1>6, Closes
<1> QED BY <1>4, <1>5, <1>6 DEF BackupInto

LEMMA ProveKeeps ==
    ASSUME StoreInv, Prove
    PROVE  StoreInv'
<1>1. /\ w.at = "prove" /\ w.at \in Removing /\ sql.rows # <<>>
      /\ \A b \in backups : b.id = tries => ~b.side
      /\ UNCHANGED <<file, durable, acked, sql, tries, reader>>
  BY Places DEF Prove, StoreInv, RemovalRight, filevars, Removing
<1>2. backups \subseteq Backup /\ \A b \in backups : b.id <= tries
  BY StoreHas DEF StoreInv, BackupRight
<1>3. PICK b \in backups :
          /\ b.id = tries
          /\ \/ /\ Proved(b)
                /\ backups' = (backups \ {b}) \union {[b EXCEPT !.side = TRUE]}
                /\ w' = [w EXCEPT !.at = "drop"]
             \/ backups' = backups \ {b} /\ w' = Closed
  BY DEF Prove
<1>4. ~b.side /\ b \in Backup
  BY <1>1, <1>2, <1>3
<1>5. CASE /\ Proved(b) /\ backups' = (backups \ {b}) \union {[b EXCEPT !.side = TRUE]}
           /\ w' = [w EXCEPT !.at = "drop"]
  <2>1. /\ [b EXCEPT !.side = TRUE] \in Backup /\ [b EXCEPT !.side = TRUE].id = tries
        /\ [b EXCEPT !.side = TRUE].side = TRUE /\ [b EXCEPT !.side = TRUE].rows = b.rows
    BY <1>3, <1>4 DEF Backup
  <2>2. w' \in Writer /\ w'.at = "drop" /\ WriterRight'
    BY <1>1, <1>5, RemovalGoesOn, Places
  <2>3. \E c \in backups' : c.side /\ c.rows = sql.rows
    BY <1>5, <2>1 DEF Proved
  <2>4. RemovalRight'
    BY <1>1, <2>2, <2>3 DEF RemovalRight, Removing
  <2>5. backups' \subseteq Backup /\ \A c \in backups' : c.id <= tries
    BY <1>2, <1>3, <1>5, <2>1
  <2>6. \A c \in backups : c.side => c \in backups'
    BY <1>4, <1>5
  <2>7. w'.at \in {"closed"} \union Removing
    BY <2>2 DEF Removing
  <2> QED BY <1>1, <2>2, <2>4, <2>5, <2>6, <2>7, BackupMoves
<1>6. CASE backups' = backups \ {b} /\ w' = Closed
  <2>1. backups' \subseteq Backup /\ \A c \in backups' : c.id <= tries
    BY <1>2, <1>6
  <2>2. \A c \in backups : c.side => c \in backups'
    BY <1>4, <1>6
  <2> QED BY <1>1, <1>6, <2>1, <2>2, ClosedRight, BackupMoves
<1> QED BY <1>3, <1>5, <1>6

LEMMA RemoveRegistrationKeeps ==
    ASSUME StoreInv, RemoveRegistration
    PROVE  StoreInv'
<1>1. /\ w.at = "drop" /\ w.at \in Removing /\ sql.exists /\ Shows(sql.rows, w.view)
      /\ w.run = NoRun /\ UNCHANGED <<file, durable, backups, tries, reader>>
      /\ \/ sql.schema = REMOVAL_SCHEMA
         \/ \E b \in backups : b.side /\ b.rows = sql.rows
  BY Places DEF RemoveRegistration, StoreInv, WriterRight, RemovalRight, Removing
<1>2. CASE w' = Closed /\ UNCHANGED <<sql, acked>>
  BY <1>1, <1>2, Closes
<1>3. CASE /\ sql' = [sql EXCEPT !.schema = REMOVAL_SCHEMA, !.rows = Append(@, Other("gitdrop"))]
           /\ acked' = Len(sql'.rows) /\ w' = [w EXCEPT !.at = "sqlready"]
  <2> PICK l \in Line : l = Other("gitdrop") /\ ~IsSnapshot(l) /\ l.kind = "gitdrop"
    BY SnapLines
  <2>1. w.view \in View /\ sql.rows \in Seq(Line) /\ Replays(sql.rows) /\ sql \in SqlRec
    BY StoreHas DEF Writer
  <2> PICK rows, more : rows = sql.rows /\ more = Append(rows, l)
    OBVIOUS
  <2>2. /\ rows \in Seq(Line) /\ more \in Seq(Line) /\ Len(rows) \in Nat
        /\ Len(more) = Len(rows) + 1 /\ \A i \in 1..Len(rows) : more[i] = rows[i]
        /\ more[Len(rows) + 1] = l
    BY <2>1, AppendIs
  <2>3. Replays(more) /\ Shows(more, w.view)
    <3>1. Fits(w.view, l) /\ ViewAfter(w.view, l) = w.view
      BY DEF Fits, ViewAfter
    <3> QED BY <1>1, <2>1, <3>1, ReplaysAppend, ShowsAppend
  <2>4. sql' = [[sql EXCEPT !.schema = REMOVAL_SCHEMA] EXCEPT !.rows = more]
    BY <1>3, <2>1 DEF SqlRec
  <2>5. sql' \in SqlRec /\ sql'.exists = sql.exists /\ sql'.rows = more /\ sql'.schema = REMOVAL_SCHEMA
    <3>1. REMOVAL_SCHEMA \in 0..2
      BY DEF REMOVAL_SCHEMA
    <3>2. PICK s \in SqlRec : /\ s = [sql EXCEPT !.schema = REMOVAL_SCHEMA]
                              /\ s.exists = sql.exists /\ s.schema = REMOVAL_SCHEMA
      BY <2>1, <3>1, SchemaFields
    <3> QED BY <2>2, <2>4, <3>2, RowsFields
  <2>6. /\ w' \in Writer /\ w'.at = "sqlready" /\ w'.view = w.view /\ w'.run = w.run
    <3>1. "sqlready" \in InFile \union InSql /\ w \in Writer
      BY StoreHas, Places
    <3> QED BY <1>3, <3>1, WriterAt
  <2>7. RunKnown(w)' /\ Shows(sql.rows, w.view)'
    BY <1>1, <2>3, <2>5, <2>6 DEF RunKnown, Shows
  <2>8. WriterRight' /\ RemovalRight'
    BY <1>1, <2>5, <2>6, <2>7 DEF WriterRight, RemovalRight, InFile, InSql, Removing
  <2>9. backups' \subseteq Backup /\ tries' \in Nat
    BY <1>1, StoreHas
  <2>10. StoreTyped' /\ FileRight' /\ ImportRight' /\ AckedRight' /\ ReaderRight' /\ ReplaysRight'
    BY <1>1, <1>3, <2>3, <2>5, <2>6, <2>9, RowAdded
  <2>11. BackupRight'
    <3>1. CASE sql.schema = REMOVAL_SCHEMA
      BY <1>1, <2>5, <3>1, BackupStays
    <3>2. CASE \E b \in backups : b.side /\ b.rows = sql.rows
      <4>1. PICK b \in backups : b.side /\ b.rows = rows
        BY <3>2
      <4>2. Begins(rows, more) /\ Len(rows) < Len(more) /\ more[Len(rows) + 1].kind = "gitdrop"
        BY <2>2, BeginsFacts
      <4> QED BY <1>1, <2>5, <4>1, <4>2 DEF StoreInv, BackupRight
    <3> QED BY <1>1, <3>1, <3>2
  <2> QED BY <2>8, <2>10, <2>11 DEF StoreInv
<1> QED BY <1>2, <1>3 DEF RemoveRegistration

-----------------------------------------------------------------------------
(* The store: reading without the lock *)

\* Only the reader moves.
LEMMA ReaderMoves ==
    ASSUME StoreInv, UNCHANGED <<file, durable, w, acked, sql, backups, tries>>,
           reader' \in ReaderRec, ReaderRight'
    PROVE  StoreInv'
<1>1. StoreTyped'
  BY DEF StoreInv, StoreTyped
<1>2. FileRight' /\ ImportRight' /\ AckedRight' /\ BackupRight' /\ ReplaysRight' /\ RemovalRight'
  BY DEF StoreInv, FileRight, ImportRight, AckedRight, BackupRight, ReplaysRight, RemovalRight, Log
<1>3. WriterRight'
  BY DEF StoreInv, WriterRight, RunKnown, Shows, ViewAfter, MayWrite
<1> QED BY <1>1, <1>2, <1>3 DEF StoreInv

\* What a read returns and misses.
LEMMA ReadIs ==
    ASSUME StoreInv, reader.known <= Len(Log), NEW lines \in Seq(Line),
           \A i \in 1..reader.known : IsSnapshot(Log[i]) =>
              \E j \in 1..Len(lines) : lines[j] = Log[i]
    PROVE  Read(lines) \in ReaderRec /\ Read(lines).at = "idle" /\ "snapshot" \notin Read(lines).missed
<1> PICK n, all : n = reader.known /\ all = Log
  OBVIOUS
<1>1. n \in Nat /\ n \in Int /\ all \in Seq(Line) /\ Len(all) \in Nat /\ n <= Len(all)
  BY StoreHas
<1>2. \A i \in 1..n : all[i] \in Line
  BY <1>1
<1>3. /\ SubSeq(all, 1, n) \in Seq(Line) /\ Len(SubSeq(all, 1, n)) = n
      /\ \A i \in 1..n : SubSeq(all, 1, n)[i] = all[i]
  BY <1>1, <1>2, SubSeqProperties
<1> PICK known : known = SubSeq(all, 1, n)
  OBVIOUS
<1>4. \A l \in ToSet(known) : \E i \in 1..n : l = all[i]
  <2>1. DOMAIN known = 1..n /\ \A i \in 1..n : known[i] = all[i]
    BY <1>3
  <2>2. \A l \in ToSet(known) : \E i \in DOMAIN known : l = known[i]
    BY DEF ToSet
  <2>3. ASSUME NEW l \in ToSet(known) PROVE \E i \in 1..n : l = all[i]
    <3>1. PICK i \in DOMAIN known : l = known[i]
      BY <2>2
    <3>2. i \in 1..n /\ l = all[i]
      BY <2>1, <3>1
    <3> QED BY <3>2
  <2> QED BY <2>3
<1>5. \A j \in 1..Len(lines) : lines[j] \in ToSet(lines)
  BY DEF ToSet
<1> DEFINE kinds == {l.kind : l \in ToSet(known) \ ToSet(lines)}
<1>6. \A l \in ToSet(known) \ ToSet(lines) : l \in Line /\ ~IsSnapshot(l)
  BY <1>2, <1>4, <1>5
<1>7. \A l \in ToSet(known) \ ToSet(lines) : l.kind \in {"other", "gitdrop"}
  BY <1>6, LineFields
<1>8. kinds \subseteq {"other", "gitdrop"}
  BY <1>7
<1>9. Read(lines) = [NoRead EXCEPT !.missed = kinds]
  BY DEF Read
<1> HIDE DEF kinds
<1> PICK m \in SUBSET {"snapshot", "other", "gitdrop"} : m = kinds /\ "snapshot" \notin m
  BY <1>8
<1>10. Read(lines) = [at |-> "idle", known |-> 0, missed |-> m]
  BY <1>9 DEF NoRead
<1> QED BY <1>10 DEF ReaderRec

LEMMA ReadBeginKeeps ==
    ASSUME StoreInv, ReadBegin
    PROVE  StoreInv'
<1>1. UNCHANGED <<file, durable, w, acked, sql, backups, tries>>
  BY DEF ReadBegin, filevars, sqlvars
<1> PICK a \in {"store", "file"} : a = IF sql.exists THEN "store" ELSE "file"
  OBVIOUS
<1> PICK n \in Nat : n = acked /\ n <= Len(Log)
  BY StoreHas
<1>2. reader' = [at |-> a, known |-> n, missed |-> {}]
  BY DEF ReadBegin, NoRead
<1>3. reader' \in ReaderRec
  BY <1>2 DEF ReaderRec
<1>4. a = "file" => sql.rows = <<>>
  BY DEF StoreInv, ImportRight
<1>5. ReaderRight'
  BY <1>1, <1>2, <1>4 DEF ReaderRight, Log
<1> QED BY <1>1, <1>3, <1>5, ReaderMoves

LEMMA NoReadIs ==
    ASSUME reader' = NoRead
    PROVE  reader' \in ReaderRec /\ ReaderRight'
BY DEF NoRead, ReaderRec, ReaderRight

LEMMA ReadStoreKeeps ==
    ASSUME StoreInv, ReadStore
    PROVE  StoreInv'
<1>1. UNCHANGED <<file, durable, w, acked, sql, backups, tries>> /\ reader.at = "store"
  BY DEF ReadStore, filevars, sqlvars
<1>2. reader.known <= Len(Log) /\ "snapshot" \notin reader.missed
  BY <1>1 DEF StoreInv, ReaderRight
<1>3. CASE reader' = NoRead
  BY <1>1, <1>3, NoReadIs, ReaderMoves
<1>4. CASE FallBack(sql.rows) /\ reader' = [reader EXCEPT !.at = "file"]
  <2>1. /\ reader' \in ReaderRec /\ reader'.known = reader.known /\ reader'.missed = reader.missed
    BY <1>4, StoreHas DEF ReaderRec
  <2>2. \A i \in 1..reader.known : sql.rows # <<>> => ~IsSnapshot(sql.rows[i])
    <3>1. ASSUME NEW i \in 1..reader.known, sql.rows # <<>> PROVE i \in DOMAIN sql.rows
      BY <1>2, <3>1, StoreHas DEF Log
    <3> QED BY <1>4, <3>1 DEF FallBack, NoDeployments
  <2>3. ReaderRight'
    BY <1>1, <1>2, <2>1, <2>2 DEF ReaderRight, Log
  <2> QED BY <1>1, <2>1, <2>3, ReaderMoves
<1>5. CASE ~FallBack(sql.rows) /\ reader' = Read(sql.rows)
  <2>1. sql.rows = <<>> => file.lines = <<>>
    BY <1>5, StoreHas DEF FallBack, NoDeployments
  <2>2. Log = sql.rows
    BY <2>1 DEF Log
  <2>3. \A i \in 1..reader.known : \E j \in 1..Len(sql.rows) : sql.rows[j] = Log[i]
    BY <1>2, <2>2, StoreHas
  <2>4. /\ Read(sql.rows) \in ReaderRec /\ Read(sql.rows).at = "idle"
        /\ "snapshot" \notin Read(sql.rows).missed
    BY <1>2, <2>3, StoreHas, ReadIs
  <2>5. ReaderRight'
    BY <1>5, <2>4 DEF ReaderRight
  <2> QED BY <1>1, <1>5, <2>4, <2>5, ReaderMoves
<1> QED BY <1>3, <1>4, <1>5 DEF ReadStore

LEMMA ReadFileKeeps ==
    ASSUME StoreInv, ReadFile
    PROVE  StoreInv'
<1>1. UNCHANGED <<file, durable, w, acked, sql, backups, tries>> /\ reader.at = "file"
  BY DEF ReadFile, filevars, sqlvars
<1>2. reader.known <= Len(Log)
  BY <1>1 DEF StoreInv, ReaderRight
<1>3. CASE reader' = NoRead
  BY <1>1, <1>3, NoReadIs, ReaderMoves
<1>4. CASE reader' = Read(file.lines)
  <2>1. \A i \in 1..reader.known : IsSnapshot(Log[i]) =>
           \E j \in 1..Len(file.lines) : file.lines[j] = Log[i]
    <3>1. CASE sql.rows # <<>>
      BY <1>1, <3>1 DEF StoreInv, ReaderRight, Log
    <3>2. CASE sql.rows = <<>>
      BY <1>2, <3>2, StoreHas DEF Log
    <3> QED BY <3>1, <3>2
  <2>2. /\ Read(file.lines) \in ReaderRec /\ Read(file.lines).at = "idle"
        /\ "snapshot" \notin Read(file.lines).missed
    BY <1>2, <2>1, StoreHas, ReadIs
  <2>3. ReaderRight'
    BY <1>4, <2>2 DEF ReaderRight
  <2> QED BY <1>1, <1>4, <2>2, <2>3, ReaderMoves
<1> QED BY <1>3, <1>4 DEF ReadFile

-----------------------------------------------------------------------------
(* The store: the invariant and its theorems *)

LEMMA StoreBegins == StoreInit => StoreInv
<1> SUFFICES ASSUME StoreInit PROVE StoreInv
  OBVIOUS
<1>1. /\ file = Absent /\ durable = {Absent} /\ w = Closed /\ acked = 0
      /\ sql = NoSql /\ backups = {} /\ tries = 0 /\ reader = NoRead
  BY DEF StoreInit, JournalInit
<1>2. /\ sql.rows = <<>> /\ ~sql.exists /\ sql.schema = 0 /\ sql \in SqlRec
  <2>1. <<>> \in Seq(Line)
    OBVIOUS
  <2> QED BY <1>1, <2>1 DEF NoSql, SqlRec, REMOVAL_SCHEMA
<1>3. StoreTyped
  BY <1>1, <1>2, EmptyFiles, ClosedIs DEF StoreTyped, NoRead, ReaderRec
<1>4. FileRight
  BY <1>1, EmptyFiles DEF FileRight, Begins
<1>5. WriterRight /\ RemovalRight
  BY <1>1, ClosedIs DEF WriterRight, RemovalRight, InFile, InSql, Removing
<1>6. ImportRight
  BY <1>1, <1>2, ClosedIs DEF ImportRight
<1>7. AckedRight
  BY <1>1, <1>2, EmptyFiles DEF AckedRight, Log
<1>8. BackupRight
  BY <1>1, <1>2 DEF BackupRight, REMOVAL_SCHEMA
<1>9. ReaderRight
  BY <1>1 DEF ReaderRight, NoRead
<1>10. ReplaysRight
  BY <1>1, <1>2, EmptyFiles, EmptyReplays DEF ReplaysRight
<1> QED BY <1>3, <1>4, <1>5, <1>6, <1>7, <1>8, <1>9, <1>10 DEF StoreInv

LEMMA StoreStepsKeep ==
    ASSUME StoreInv, [StoreNext]_storeVars
    PROVE  StoreInv'
<1>1. CASE UNCHANGED storeVars
  <2>1. UNCHANGED <<file, durable, w, acked, sql, backups, tries, reader>>
    BY <1>1 DEF storeVars
  <2>2. reader' \in ReaderRec /\ ReaderRight'
    BY <2>1 DEF StoreInv, StoreTyped, ReaderRight, Log
  <2> QED BY <2>1, <2>2, ReaderMoves
<1>2. CASE StoreExit
  BY <1>2, Closes DEF StoreExit, Exit, sqlvars
<1>3. CASE StoreNext /\ ~StoreExit
  BY <1>3, LegacyKeeps, PowerLossKeeps, OpenStoreKeeps, MigrateKeeps, RestoreKeeps, ImportKeeps,
     InsertKeeps, RemoveBeginKeeps, BackupIntoKeeps, ProveKeeps, RemoveRegistrationKeeps,
     ReadBeginKeeps, ReadStoreKeeps, ReadFileKeeps DEF StoreNext
<1> QED BY <1>1, <1>2, <1>3

\* The file, what a power loss may leave of it, the rows, the process that writes,
\* the backups and the reader fit each other at every place.
LEMMA StoreHolds == FoundationsSpec => []StoreInv
<1>1. FoundationsInit => StoreInv
  BY PartsMove, StoreBegins
<1>2. StoreInv /\ [FoundationsNext]_foundationVars => StoreInv'
  BY PartsMove, StoreStepsKeep
<1> QED BY <1>1, <1>2, PTL DEF FoundationsSpec

\* Whatever a crash, a failed write, a failed sync or a power loss left, and
\* however often, the next opening can replay: no record is damaged and none
\* changes a deployment after its end (recover, replay, open_with, append_line).
THEOREM LogIsReplayable == FoundationsSpec => []Replayable
<1>1. StoreInv => Replayable
  <2> SUFFICES ASSUME StoreInv PROVE Replayable
    OBVIOUS
  <2>1. ASSUME NEW f \in durable PROVE Replays(f.lines)
    <3>1. f.lines \in Seq(Line) /\ Begins(f.lines, file.lines)
      BY FileFields DEF StoreInv, StoreTyped, FileRight
    <3> QED BY <3>1, StoreHas, ReplaysBegins
  <2> QED BY <2>1, StoreHas DEF Replayable
<1> QED BY <1>1, StoreHolds, PTL

\* A command that reads without the lock returns every deployment record that
\* was acknowledged before it began, through a torn write, the import and an
\* opening half done (sqlite.rs: read_only; lib.rs: read_only).
THEOREM ReadersSeeAcknowledged == FoundationsSpec => []ReadsAcknowledged
<1>1. StoreInv => ReadsAcknowledged
  BY DEF StoreInv, ReaderRight, ReadsAcknowledged
<1> QED BY <1>1, StoreHolds, PTL

\* Once the journal is one that older builds cannot read, a backup with its digest
\* holds exactly the records from before the first removal, however many backups
\* were left half made (backup_before_schema2, remove_registration).
THEOREM UpgradeIsBackedUp == FoundationsSpec => []BackedUp
<1>1. StoreInv => BackedUp
  <2> SUFFICES ASSUME StoreInv, sql.schema = REMOVAL_SCHEMA
               PROVE  \E b \in backups : /\ b.side /\ Len(b.rows) < Len(sql.rows)
                                         /\ IsPrefix(b.rows, sql.rows)
                                         /\ sql.rows[Len(b.rows) + 1].kind = "gitdrop"
    BY DEF BackedUp
  <2>1. PICK b \in backups : /\ b.side /\ Len(b.rows) < Len(sql.rows) /\ Begins(b.rows, sql.rows)
                             /\ sql.rows[Len(b.rows) + 1].kind = "gitdrop"
    BY DEF StoreInv, BackupRight
  <2>2. b.rows \in Seq(Line)
    BY StoreHas DEF Backup
  <2>3. IsPrefix(b.rows, sql.rows)
    BY <2>1, <2>2, StoreHas, BeginsIsPrefix
  <2> QED BY <2>1, <2>3
<1> QED BY <1>1, StoreHolds, PTL

-----------------------------------------------------------------------------
(* The store keeps the promise of a durable log *)

\* A record is added to the rows, and so to the log.
LEMMA LogGrows ==
    ASSUME StoreInv, w.at \in {"sqlready"} \union Removing, NEW l \in Line,
           sql'.rows = Append(sql.rows, l), UNCHANGED file
    PROVE  Log' = Append(Log, l) /\ Len(Log') = Len(sql'.rows)
<1>1. sql.rows = <<>> => file.lines = <<>>
  <2>1. w.at \in Removing => sql.rows # <<>>
    BY DEF StoreInv, RemovalRight
  <2> QED BY <2>1 DEF StoreInv, ImportRight
<1>2. Log = sql.rows
  BY <1>1 DEF Log
<1>3. Append(sql.rows, l) # <<>>
  <2>1. sql.rows \in Seq(Line)
    BY StoreHas
  <2> QED BY <2>1, AppendIs
<1> QED BY <1>2, <1>3 DEF Log

\* A step on the file adds the line it wrote, acknowledges it or changes no line.
LEMMA FileImplements ==
    ASSUME StoreInv, Legacy
    PROVE  Durable!Next \/ UNCHANGED <<Log, acked>>
<1>1. ~sql.exists /\ Log = file.lines /\ Log' = file'.lines
  BY LegacyHas DEF Legacy, Log, sqlvars
<1>2. CutOff(file).lines = file.lines /\ Torn(file).lines = file.lines
  BY <1>1, LegacyHas, FileFields
<1>3. CASE Open
  <2>1. file'.lines = file.lines /\ UNCHANGED acked
    BY <1>1, <1>3, LegacyHas, EmptyFiles DEF Open
  <2> QED BY <1>1, <2>1
<1>4. CASE CutTail \/ AppendFails
  <2>1. file'.lines = file.lines /\ UNCHANGED acked
    BY <1>2, <1>4 DEF CutTail, AppendFails, Synced, Written
  <2> QED BY <1>1, <2>1
<1>5. CASE SyncDir \/ Persist
  <2>1. UNCHANGED <<file, acked>>
    BY <1>5 DEF SyncDir, Persist
  <2> QED BY <1>1, <2>1
<1>6. CASE AppendPart
  <2>1. file'.lines = file.lines /\ UNCHANGED acked
    BY <1>2, <1>6 DEF AppendPart, Written
  <2> QED BY <1>1, <2>1
<1>7. CASE AppendAll
  <2>1. /\ file' = Added(file, w.line) /\ UNCHANGED acked
        /\ w.line = Header \/ w.line \in MayWrite(w)
    <3>1. w.glued = FALSE /\ w.at = "write"
      BY <1>1, <1>7, LegacyHas DEF Writer, AppendAll
    <3> QED BY <1>7, <3>1 DEF AppendAll, Written, StoreInv, WriterRight
  <2>2. CASE w.line = Header
    <3>1. file'.lines = file.lines
      BY <1>1, <2>1, <2>2, LegacyHas DEF Added, FileRec
    <3> QED BY <1>1, <2>1, <3>1
  <2>3. CASE w.line # Header
    <3>1. w.line \in Line
      BY <1>1, <2>1, <2>3, LegacyHas, MayWriteFits
    <3>2. file'.lines = Append(file.lines, w.line)
      BY <1>1, <2>1, <2>3, LegacyHas DEF Added, FileRec
    <3>3. Durable!Write(w.line)
      BY <1>1, <2>1, <3>2 DEF Durable!Write
    <3> QED BY <3>1, <3>3 DEF Durable!Next
  <2> QED BY <2>2, <2>3
<1>8. CASE SyncLine
  <2>1. CASE Synced(file) /\ acked' = Len(file.lines)
    BY <1>1, <2>1 DEF Synced, Durable!Next, Durable!Acknowledge
  <2>2. CASE UNCHANGED <<file, acked>>
    BY <1>1, <2>2
  <2> QED BY <1>8, <2>1, <2>2 DEF SyncLine
<1> QED BY <1>3, <1>4, <1>5, <1>6, <1>7, <1>8 DEF Legacy, FileNext

\* A power loss takes what was not acknowledged, from the end.
LEMMA PowerLossImplements ==
    ASSUME StoreInv, StorePowerLoss
    PROVE  Durable!Next \/ UNCHANGED <<Log, acked>>
<1>1. PICK f \in durable : file' = f
  BY DEF StorePowerLoss, PowerLoss
<1>2. UNCHANGED <<acked, sql>>
  BY DEF StorePowerLoss, PowerLoss, sqlvars
<1>3. CASE sql.rows # <<>>
  BY <1>2, <1>3 DEF Log
<1>4. CASE sql.rows = <<>>
  <2>1. Log = file.lines /\ Log' = f.lines
    BY <1>1, <1>2, <1>4 DEF Log
  <2>2. /\ f.lines \in Seq(Line) /\ file.lines \in Seq(Line) /\ Begins(f.lines, file.lines)
        /\ acked <= Len(f.lines)
    BY <1>4, FileFields DEF StoreInv, StoreTyped, FileRight, AckedRight
  <2>3. f.lines = SubSeq(file.lines, 1, Len(f.lines))
    BY <2>2, BeginsIsPrefix
  <2>4. Len(f.lines) \in acked..Len(Log)
    <3>1. Len(f.lines) \in Nat /\ Len(file.lines) \in Nat /\ acked \in Nat
      BY <2>2, StoreHas
    <3> QED BY <2>1, <2>2, <3>1 DEF Begins
  <2>5. Durable!Lose
    BY <1>2, <2>1, <2>3, <2>4 DEF Durable!Lose
  <2> QED BY <2>5 DEF Durable!Next
<1> QED BY <1>3, <1>4

\* The import acknowledges what it took over; a row is written and acknowledged
\* in one step, or written by a process that died in it.
LEMMA RowsImplement ==
    ASSUME StoreInv, ImportLegacy \/ Insert \/ RemoveRegistration
    PROVE  Durable!Next \/ UNCHANGED <<Log, acked>>
<1>1. sql \in SqlRec /\ sql.rows \in Seq(Line) /\ UNCHANGED file
  BY StoreHas DEF ImportLegacy, Insert, RemoveRegistration
<1>2. CASE ImportLegacy
  <2>1. CASE UNCHANGED <<sql, acked>>
    BY <1>1, <2>1 DEF Log
  <2>2. CASE sql' = [sql EXCEPT !.rows = @ \o file.lines] /\ acked' = Len(sql'.rows)
    <3>1. w.at = "import" /\ NoDeployments(sql.rows)
      BY <1>2 DEF ImportLegacy, StoreInv, ImportRight
    <3>2. sql'.rows = IF sql.rows = <<>> THEN file.lines ELSE sql.rows
      BY <1>1, <2>2, <3>1, ImportedRows DEF SqlRec
    <3>3. sql'.rows = Log
      BY <3>2 DEF Log
    <3>4. Log' = Log
      BY <1>1, <3>2 DEF Log
    <3> QED BY <2>2, <3>3, <3>4 DEF Durable!Next, Durable!Acknowledge
  <2> QED BY <1>2, <2>1, <2>2 DEF ImportLegacy
<1>3. ASSUME NEW l \in Line, sql'.rows = Append(sql.rows, l), w.at \in {"sqlready"} \union Removing,
             acked' = acked \/ acked' = Len(sql'.rows)
      PROVE  Durable!Next
  <2>1. Log' = Append(Log, l) /\ Len(Log') = Len(sql'.rows)
    BY <1>1, <1>3, LogGrows
  <2>2. Durable!Write(l) \/ Durable!Commit(l)
    BY <1>3, <2>1 DEF Durable!Write, Durable!Commit
  <2> QED BY <2>2 DEF Durable!Next
<1>4. CASE Insert
  <2>1. PICK l \in MayWrite(w) \union {Other("other")} :
           \/ /\ sql' = [sql EXCEPT !.rows = Append(@, l)]
              /\ acked' = Len(sql'.rows) \/ UNCHANGED acked
           \/ UNCHANGED <<sql, acked>>
    BY <1>4 DEF Insert, MayWrite
  <2>2. l \in Line /\ w.at = "sqlready"
    BY <1>4, StoreHas, MayWriteFits, SnapLines DEF Insert, SqlReady
  <2>3. CASE UNCHANGED <<sql, acked>>
    BY <1>1, <2>3 DEF Log
  <2>4. CASE sql' = [sql EXCEPT !.rows = Append(@, l)] /\ (acked' = Len(sql'.rows) \/ UNCHANGED acked)
    <3>1. sql'.rows = Append(sql.rows, l)
      BY <1>1, <2>4 DEF SqlRec
    <3> QED BY <1>3, <2>2, <2>4, <3>1
  <2> QED BY <2>1, <2>3, <2>4
<1>5. CASE RemoveRegistration
  <2>1. w.at \in Removing
    BY <1>5 DEF RemoveRegistration, Removing
  <2>2. CASE UNCHANGED <<sql, acked>>
    BY <1>1, <2>2 DEF Log
  <2>3. CASE /\ sql' = [sql EXCEPT !.schema = REMOVAL_SCHEMA, !.rows = Append(@, Other("gitdrop"))]
             /\ acked' = Len(sql'.rows)
    <3>1. sql'.rows = Append(sql.rows, Other("gitdrop"))
      BY <1>1, <2>3 DEF SqlRec
    <3> QED BY <1>3, <2>1, <2>3, <3>1, SnapLines
  <2> QED BY <1>5, <2>2, <2>3 DEF RemoveRegistration
<1> QED BY <1>2, <1>4, <1>5

\* Every other step changes neither the log nor what is acknowledged.
LEMMA LogStays ==
    ASSUME StoreInv,
           \/ UNCHANGED storeVars \/ StoreExit \/ OpenStore \/ Migrate \/ RestoreBackup
           \/ RemoveBegin \/ BackupInto \/ Prove \/ ReadBegin \/ ReadStore \/ ReadFile
    PROVE  UNCHANGED <<Log, acked>>
<1>1. sql \in SqlRec
  BY StoreHas
<1>2. UNCHANGED <<file, acked>>
  BY DEF storeVars, StoreExit, Exit, OpenStore, Migrate, RestoreBackup, RemoveBegin, BackupInto, Prove,
         ReadBegin, ReadStore, ReadFile, filevars
<1>3. CASE OpenStore \/ Migrate
  <2>1. sql'.rows = sql.rows
    BY <1>1, <1>3 DEF OpenStore, Migrate, SqlRec
  <2> QED BY <1>2, <2>1 DEF Log
<1>4. CASE ~OpenStore /\ ~Migrate
  <2>1. UNCHANGED sql
    BY <1>4 DEF storeVars, StoreExit, RestoreBackup, RemoveBegin, BackupInto, Prove,
                ReadBegin, ReadStore, ReadFile, sqlvars
  <2> QED BY <1>2, <2>1 DEF Log
<1> QED BY <1>3, <1>4

LEMMA StoreImplements ==
    ASSUME StoreInv, [StoreNext]_storeVars
    PROVE  [Durable!Next]_<<Log, acked>>
<1>1. CASE Legacy
  BY <1>1, FileImplements
<1>2. CASE StorePowerLoss
  BY <1>2, PowerLossImplements
<1>3. CASE ImportLegacy \/ Insert \/ RemoveRegistration
  BY <1>3, RowsImplement
<1>4. CASE \/ UNCHANGED storeVars \/ StoreExit \/ OpenStore \/ Migrate \/ RestoreBackup
           \/ RemoveBegin \/ BackupInto \/ Prove \/ ReadBegin \/ ReadStore \/ ReadFile
  BY <1>4, LogStays
<1> QED BY <1>1, <1>2, <1>3, <1>4 DEF StoreNext

\* The file journal, the import and the store implement a durable log, step by
\* step: records are kept in the order they were written, and no crash, failed
\* sync, power loss or change of store loses one that was acknowledged.
THEOREM LogIsDurable == FoundationsSpec => DurableSpec
<1>1. FoundationsInit => Durable!Init
  BY PartsMove DEF StoreInit, JournalInit, NoSql, Absent, Log, Durable!Init
<1>2. StoreInv /\ [FoundationsNext]_foundationVars => [Durable!Next]_<<Log, acked>>
  BY PartsMove, StoreImplements
<1> QED BY <1>1, <1>2, StoreHolds, PTL DEF FoundationsSpec, DurableSpec, Durable!Spec
=============================================================================
