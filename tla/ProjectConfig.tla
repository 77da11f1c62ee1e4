--------------------------- MODULE ProjectConfig ----------------------------
(***************************************************************************)
(* internal/projectconfig: the committed configuration and the layers over *)
(* it.  Two readers of the committed files, ValidateRepository ("golc      *)
(* check") and resolveCommittedOrigin (everything at run time); two        *)
(* resolvers, ResolveKey (the daemon, "pool update") over all layers and   *)
(* ResolveRuntime ("config explain") over two; one writer, WriteLocal      *)
(* ("config set"), that reads golc.local.toml, and renames a new one over  *)
(* it.                                                                     *)
(*                                                                         *)
(* A key's declaration is a literal text or a reference to another key.    *)
(* Both registries, of fields and of local keys, open the same keys to     *)
(* overrides.  The layer of typed CLI overrides, which no command fills,   *)
(* and deprecated keys, of which there are none, are left out.             *)
(***************************************************************************)
EXTENDS Naturals, Sequences, FiniteSets, SequencesExt

CONSTANTS
    Keys,       \* canonical keys
    Unlocked,   \* those a higher layer may override
    Required,   \* those their concern must declare
    Texts,      \* texts a file or the environment may hold
    Allowed,    \* each key's allowed values
    Setters,    \* processes that run "config set"
    MaxHands    \* bound: edits of golc.local.toml by hand

ASSUME ConfigAssumption ==
    /\ IsFiniteSet(Keys) /\ "" \notin Keys
    /\ Unlocked \subseteq Keys /\ Required \subseteq Keys
    /\ Allowed \in [Keys -> SUBSET Texts]
    /\ MaxHands \in Nat

Unset == [ref |-> "", text |-> ""]
Literal(t) == [ref |-> "", text |-> t]
RefTo(k) == [ref |-> k, text |-> ""]
Declarations == {Unset} \cup {Literal(t) : t \in Texts} \cup {RefTo(k) : k \in Keys}

\* A file of overrides: the text of each key ("" if it has none), and whether
\* it parses and declares only known keys
File == [sound : BOOLEAN, values : [Keys -> Texts \cup {""}]]
Empty == [sound |-> TRUE, values |-> [k \in Keys |-> ""]]

VARIABLES
    committed,  \* each key's declaration in its concern's file
    user,       \* the user's config.toml
    env,        \* the environment, by the key whose variable is set
    local,      \* golc.local.toml
    setter,     \* each "config set": idle, or what it read and is to write
    hands       \* edits by hand still to come (bound)

configVars == <<committed, user, env, local, setter, hands>>

NotSetting == [key |-> "", value |-> "", base |-> Empty]

-----------------------------------------------------------------------------
(* ValidateRepository *)

Declared(k) == committed[k] # Unset
IsRef(k) == committed[k].ref # ""

\* a literal must be allowed; a reference is only followed later
validateDeclaredValue(k) == IsRef(k) \/ committed[k].text \in Allowed[k]

\* the literal behind each key, "" if the chain of references has a cycle or
\* ends at a key nobody declares; chain holds the keys already followed
Follow[chain \in SUBSET Keys] ==
    [k \in Keys |->
        IF k \in chain \/ ~Declared(k) THEN ""
        ELSE IF ~IsRef(k) THEN committed[k].text
        ELSE Follow[chain \cup {k}][committed[k].ref]]

resolveReference(k) == Follow[{}][k]

ValidateConcern(k) ==
    /\ Declared(k) => validateDeclaredValue(k)
    /\ k \in Required => Declared(k)

ValidateRepository ==
    \A k \in Keys :
        /\ ValidateConcern(k)
        /\ IsRef(k) => resolveReference(k) \in Allowed[k]

-----------------------------------------------------------------------------
(* The layers *)

\* readUserValues, readLocalValues: one bad key and no key of it is read
Readable(file) ==
    /\ file.sound
    /\ \A k \in Keys : file.values[k] # "" => k \in Unlocked /\ file.values[k] \in Allowed[k]

Origin(layer, value) == [layer |-> layer, value |-> value]
Refused == [layer |-> "refused", value |-> "", shadowed |-> <<>>]

\* the declaration as it stands: a reference is not followed
resolveCommittedOrigin(k) ==
    Origin("committed", IF IsRef(k) THEN "ref" ELSE committed[k].text)

\* ResolvedRecord
Resolved(o, shadowed) == [layer |-> o.layer, value |-> o.value, shadowed |-> shadowed]

\* a layer that says nothing of the key is no candidate
Declaring(layer, value) == IF value = "" THEN <<>> ELSE <<Origin(layer, value)>>

\* A fault: the environment is asked before the files
FaultCandidates(k) ==
    Declaring("env", env[k]) \o Declaring("user", user.values[k]) \o Declaring("local", local.values[k])

\* the layers that declare the key, in the order of appending
Candidates(k) ==
    Declaring("user", user.values[k]) \o Declaring("local", local.values[k]) \o Declaring("env", env[k])

\* the candidates below the last one, downwards, and the committed value
Shadow(c, k) == Append(Reverse(Front(c)), resolveCommittedOrigin(k))

\* ResolveKey: the last candidate wins
resolveOne(k) ==
    LET c == Candidates(k) IN
    IF \/ ~Declared(k)
       \/ ~Readable(user) \/ ~Readable(local)
       \/ env[k] # "" /\ (k \notin Unlocked \/ env[k] \notin Allowed[k])
    THEN Refused
    ELSE IF c = <<>> THEN Resolved(resolveCommittedOrigin(k), <<>>)
    ELSE Resolved(Last(c), Shadow(c, k))

\* "config explain": the committed value and golc.local.toml only
ResolveRuntime(k) ==
    IF k \notin Unlocked \/ ~Declared(k) \/ ~Readable(local) THEN Refused
    ELSE IF local.values[k] # ""
    THEN Resolved(Origin("local", local.values[k]), <<resolveCommittedOrigin(k)>>)
    ELSE Resolved(resolveCommittedOrigin(k), <<>>)

-----------------------------------------------------------------------------
(* WriteLocal *)

assertWritable(k, v) == k \in Unlocked /\ v \in Allowed[k]

\* the checks, and the file as it is now; what is refused changes nothing
WriteLocal(s, k, v) ==
    /\ setter[s] = NotSetting
    /\ assertWritable(k, v)
    /\ Readable(local)
    /\ setter' = [setter EXCEPT ![s] = [key |-> k, value |-> v, base |-> local]]
    /\ UNCHANGED <<committed, user, env, local, hands>>

\* A fault: the file is written with the new key alone
FaultRendered(s) == [Empty EXCEPT !.values[setter[s].key] = setter[s].value]

renderLocalDocument(s) == [setter[s].base EXCEPT !.values[setter[s].key] = setter[s].value]

\* the staged file is renamed over the old one
RenameLocal(s) ==
    /\ setter[s] # NotSetting
    /\ local' = renderLocalDocument(s)
    /\ setter' = [setter EXCEPT ![s] = NotSetting]
    /\ UNCHANGED <<committed, user, env, hands>>

\* staging or the rename fails, or the process dies
WriteFails(s) ==
    /\ setter[s] # NotSetting
    /\ setter' = [setter EXCEPT ![s] = NotSetting]
    /\ UNCHANGED <<committed, user, env, local, hands>>

\* somebody edits golc.local.toml
EditLocal ==
    /\ hands > 0
    /\ hands' = hands - 1
    /\ \/ local' = [local EXCEPT !.sound = FALSE]
       \/ \E k \in Keys, t \in Texts \cup {""} :
            local' = [local EXCEPT !.sound = TRUE, !.values[k] = t]
    /\ UNCHANGED <<committed, user, env, setter>>

ConfigNext ==
    \/ \E s \in Setters :
         \/ \E k \in Keys, v \in Texts : WriteLocal(s, k, v)
         \/ RenameLocal(s)
         \/ WriteFails(s)
    \/ EditLocal

\* Whatever the files and the environment hold, no "config set" runs yet.
ConfigInit ==
    /\ committed \in [Keys -> Declarations]
    /\ user \in File /\ local \in File
    /\ env \in [Keys -> Texts \cup {""}]
    /\ setter = [s \in Setters |-> NotSetting]
    /\ hands = MaxHands

ConfigSpec == ConfigInit /\ [][ConfigNext]_configVars

-----------------------------------------------------------------------------
(* Properties *)

\* Every variable has its type.
ConfigTypeOK ==
    /\ committed \in [Keys -> Declarations]
    /\ user \in File /\ local \in File
    /\ env \in [Keys -> Texts \cup {""}]
    /\ setter \in [Setters -> [key : Keys \cup {""}, value : Texts \cup {""}, base : File]]
    /\ hands \in 0 .. MaxHands

Rank == [committed |-> 0, user |-> 1, local |-> 2, env |-> 3]

\* the layers that say something of a key
Speaking(k) ==
    {"committed"}
    \cup (IF user.values[k] # "" THEN {"user"} ELSE {})
    \cup (IF local.values[k] # "" THEN {"local"} ELSE {})
    \cup (IF env[k] # "" THEN {"env"} ELSE {})

\* ResolveKey answers with the highest layer that declares the key and lists
\* every other one below it, each once and downwards; a locked key only ever
\* has its committed value ("locked keys always resolve to their committed
\* value").
TopLayerWins ==
    \A k \in Keys :
        LET r == resolveOne(k)
            chain == <<r.layer>> \o [i \in 1 .. Len(r.shadowed) |-> r.shadowed[i].layer]
        IN  r # Refused =>
              /\ {chain[i] : i \in 1 .. Len(chain)} = Speaking(k)
              /\ \A i \in 2 .. Len(chain) : Rank[chain[i]] < Rank[chain[i - 1]]
              /\ k \notin Unlocked => r.layer = "committed"

\* the keys a chain of references from k passes through
Chains(k) ==
    {c \in UNION {[1 .. n -> Keys] : n \in 1 .. Cardinality(Keys)} :
        /\ c[1] = k
        /\ \A i \in 2 .. Len(c) : committed[c[i - 1]].ref = c[i]}

\* A reference resolves exactly when some chain of references leads to a
\* literal, and to that literal, however the keys refer to one another.
RefsReachLiteral ==
    \A k \in Keys :
        LET ends == {l \in {Last(c) : c \in Chains(k)} : Declared(l) /\ ~IsRef(l)}
        IN  {resolveReference(k)} = IF ends = {} THEN {""} ELSE {committed[l].text : l \in ends}

\* In a repository that "golc check" accepts, a key resolves at run time to a
\* value it may have, whatever the layers hold, or not at all; a key that
\* refers to another is excused, for the run time does not follow it.
ResolvesToAllowed ==
    ValidateRepository =>
        \A k \in Keys :
            resolveOne(k) # Refused /\ ~IsRef(k) => resolveOne(k).value \in Allowed[k]

\* "config explain" names the value the daemon works with, as long as neither
\* the user's file nor the environment has a say.
ExplainAgrees ==
    user = Empty =>
        \A k \in Unlocked : env[k] = "" => ResolveRuntime(k) = resolveOne(k)

\* Whatever the layers hold and whoever edits them meanwhile, a key resolves to
\* the allowed value of its highest layer, and explain names that layer.
ResolvesAsDeclared ==
  /\ ConfigTypeOK
  /\ RefsReachLiteral
  /\ TopLayerWins
  /\ ResolvesToAllowed
  /\ ExplainAgrees

\* "config set" never leaves a file that can no longer be read, which would
\* keep every key from being resolved and the daemon from starting.
SetLeavesReadable == [][\A s \in Setters :
    setter[s] # NotSetting /\ setter'[s] = NotSetting /\ local' # local
        => Readable(local')]_configVars

\* "config set" changes its own key and no other, provided that the file is
\* still the one it read.
SetTouchesOneKey == [][\A s \in Setters :
    setter[s] # NotSetting /\ setter'[s] = NotSetting /\ setter[s].base = local
        => \A k \in Keys \ {setter[s].key} : local'.values[k] = local.values[k]]_configVars

\* A "config set" changes the key it names and no other, and leaves a file that
\* can be read.
SetsAreLocal ==
  /\ SetTouchesOneKey
  /\ SetLeavesReadable
=============================================================================
