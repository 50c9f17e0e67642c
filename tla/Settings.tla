------------------------------ MODULE Settings ------------------------------
(* The layered settings files: the editing verbs of molmcp config, each a    *)
(* read, a change and a write of a whole file, and what a load makes of them.*)
EXTENDS Integers, Sequences, FiniteSets, Functions, Subsequences

CONSTANTS
    Layers,        \* the files, lowest precedence first
    Editors,       \* processes that run molmcp config
    Dicts, Lists,  \* the keys whose layers are combined,
    Scalars,       \* and those that a higher layer replaces
    Commands,      \* what may be asked: verb, key, member, value
    Unset,         \* no member, or no value
    MaxEdits,      \* bound: commands
    MaxCrashes,    \* bound: editors that die
    SerialEdits    \* a file is edited by one process at a time

Keys == Dicts \cup Lists \cup Scalars
Verbs == {"set", "add", "remove"}

SettingsAssumption ==
    /\ Layers \in Seq(Range(Layers)) /\ IsInjective(Layers)
    /\ Dicts \cap (Lists \cup Scalars) = {} /\ Lists \cap Scalars = {}
    /\ \A a \in Commands : /\ a.verb \in Verbs /\ a.key \in Keys
                           /\ a.verb # "remove" => a.value # Unset
    /\ MaxEdits \in Nat /\ MaxCrashes \in Nat /\ SerialEdits \in BOOLEAN

VARIABLES
    file,    \* file[l]: missing, torn, or the object it holds
    edit,    \* edit[e]: the command of an editor, and what it will write
    given,   \* given[l]: the settings that finished commands gave
    edits, crashes
vars == <<file, edit, given, edits, crashes>>

Empty == [k \in {} |-> Unset]
Missing == [is |-> "missing", data |-> Empty]
TornFile == [is |-> "torn", data |-> Empty]
Object(data) == [is |-> "object", data |-> data]
NoEdit == [at |-> "idle"]

Init ==
    /\ file = [l \in Range(Layers) |-> Missing]
    /\ edit = [e \in Editors |-> NoEdit]
    /\ given = [l \in Range(Layers) |-> {}]
    /\ edits = 0 /\ crashes = 0

------------------------------------------------------------------------------
(* The verbs: a change of the data of a file, where it is allowed.           *)
Put(data, k, v) == [x \in DOMAIN data \cup {k} |-> IF x = k THEN v ELSE data[x]]
Without(data, k) == Restrict(data, DOMAIN data \ {k})

Settable(a) == a.member = Unset \/ a.key \in Dicts

EmptyContainer(data, a) == Empty
Container(data, a) ==
    IF a.member = Unset THEN data
    ELSE IF a.key \in DOMAIN data THEN data[a.key] ELSE Empty
Leaf(a) == IF a.member = Unset THEN a.key ELSE a.member
Stored(data, a, container) == IF a.member = Unset THEN container ELSE Put(data, a.key, container)

Parsable(a) == a.member # Unset \/ a.key \notin Dicts
Parsed(a) == IF a.member = Unset /\ a.key \in Lists THEN <<a.value>> ELSE a.value

ListItems(data, a) == IF a.key \in DOMAIN data THEN data[a.key] ELSE <<>>
Appended(s, v) == IF v \in Range(s) THEN s ELSE Append(s, v)

Allowed(data, a) ==
    /\ Settable(a)
    /\ CASE a.verb = "set" -> Parsable(a)
         [] a.verb = "add" -> a.key \in Lists
         [] OTHER -> /\ Leaf(a) \in DOMAIN Container(data, a)
                     /\ a.value # Unset =>
                            /\ a.member = Unset /\ a.key \in Lists
                            /\ a.value \in Range(ListItems(data, a))

Changed(data, a) ==
    CASE a.verb = "set" -> Stored(data, a, Put(Container(data, a), Leaf(a), Parsed(a)))
      [] a.verb = "add" -> Put(data, a.key, Appended(ListItems(data, a), a.value))
      [] a.verb = "remove" /\ a.value = Unset ->
             Stored(data, a, Without(Container(data, a), Leaf(a)))
      [] OTHER -> Put(data, a.key, Those(ListItems(data, a), Range(ListItems(data, a)) \ {a.value}))

------------------------------------------------------------------------------
(* What a finished command means: the key, the member and the value it gives *)
(* or takes away.                                                            *)
About(a, x) == x[1] = a.key /\ (a.member # Unset => x[2] = a.member)
Gives(g, a) ==
    LET fact == <<a.key, a.member, a.value>> IN
    CASE a.verb = "set" -> {x \in g : ~About(a, x)} \cup {fact}
      [] a.verb = "add" -> g \cup {fact}
      [] OTHER -> {x \in g : ~(About(a, x) /\ a.value \in {Unset, x[3]})}

------------------------------------------------------------------------------
(* An editor. *)
Begin(e, l, a) ==
    /\ edit[e] = NoEdit /\ edits < MaxEdits
    /\ SerialEdits => ~\E d \in Editors : edit[d] # NoEdit /\ edit[d].layer = l
    /\ file[l].is # "torn" /\ Allowed(file[l].data, a)
    /\ edits' = edits + 1
    /\ edit' = [edit EXCEPT ![e] =
           [at |-> "open", layer |-> l, command |-> a, data |-> Changed(file[l].data, a)]]
    /\ UNCHANGED <<file, given, crashes>>

Open(e) ==
    /\ edit[e].at = "open"
    /\ file' = [file EXCEPT ![edit[e].layer] = TornFile]
    /\ edit' = [edit EXCEPT ![e].at = "write"]
    /\ UNCHANGED <<given, edits, crashes>>

Write(e) ==
    /\ edit[e].at = "write"
    /\ file' = [file EXCEPT ![edit[e].layer] = Object(edit[e].data)]
    /\ given' = [given EXCEPT ![edit[e].layer] = Gives(@, edit[e].command)]
    /\ edit' = [edit EXCEPT ![e] = NoEdit]
    /\ UNCHANGED <<edits, crashes>>

Crash(e) ==
    /\ edit[e] # NoEdit /\ crashes < MaxCrashes
    /\ crashes' = crashes + 1
    /\ edit' = [edit EXCEPT ![e] = NoEdit]
    /\ UNCHANGED <<file, given, edits>>

(* The user deletes a file that cannot be read. *)
Discard(l) ==
    /\ file[l].is = "torn" /\ \A e \in Editors : edit[e] = NoEdit
    /\ file' = [file EXCEPT ![l] = Missing]
    /\ given' = [given EXCEPT ![l] = {}]
    /\ UNCHANGED <<edit, edits, crashes>>

Next ==
    \/ \E e \in Editors, l \in Range(Layers), a \in Commands : Begin(e, l, a)
    \/ \E e \in Editors : Open(e) \/ Write(e) \/ Crash(e)
    \/ \E l \in Range(Layers) : Discard(l)

Spec == Init /\ [][Next]_vars

------------------------------------------------------------------------------
(* A load: dicts are updated, lists extended and scalars replaced, layer by  *)
(* layer, and the lists lose their duplicates.                               *)
Replaced(low, high) == high
Updated(low, high) == [x \in DOMAIN low \cup DOMAIN high |->
                          IF x \in DOMAIN high THEN high[x] ELSE low[x]]
Combined(k, low, high) ==
    CASE k \in Dicts -> Updated(low, high) [] k \in Lists -> low \o high [] OTHER -> high
Over(data, merged) ==
    [k \in DOMAIN merged \cup DOMAIN data |->
        IF k \notin DOMAIN data THEN merged[k]
        ELSE IF k \in DOMAIN merged THEN Combined(k, merged[k], data[k]) ELSE data[k]]
Merged ==
    LET upTo[n \in 0..Len(Layers)] ==
            IF n = 0 THEN Empty ELSE Over(file[Layers[n]].data, upTo[n - 1]) IN
    upTo[Len(Layers)]
Distinct(s) ==
    LET upTo[n \in 0..Len(s)] == IF n = 0 THEN <<>> ELSE Appended(upTo[n - 1], s[n]) IN
    upTo[Len(s)]
Loaded == [k \in DOMAIN Merged |-> IF k \in Lists THEN Distinct(Merged[k]) ELSE Merged[k]]
Unreadable == \E l \in Range(Layers) : file[l].is = "torn"

------------------------------------------------------------------------------
(* What the finished commands mean together. *)
Position(l) == CHOOSE i \in DOMAIN Layers : Layers[i] = l
Shadowed(l, x) ==
    \E h \in Range(Layers) : /\ Position(h) > Position(l)
                             /\ \E y \in given[h] : y[1] = x[1] /\ y[2] = x[2]
Effective == UNION {{x \in given[l] : x[1] \in Lists \/ ~Shadowed(l, x)} : l \in Range(Layers)}
Facts(data) ==
    UNION {CASE k \in Dicts -> {<<k, m, data[k][m]>> : m \in DOMAIN data[k]}
             [] k \in Lists -> {<<k, Unset, v>> : v \in Range(data[k])}
             [] OTHER -> {<<k, Unset, data[k]>>} : k \in DOMAIN data}

(* A load gives what the finished commands said, the higher layer first, and *)
(* no value twice: the read, the change and the write of a file keep every   *)
(* other setting of it, and a file that an editor died on is refused.        *)
LoadsWhatWasSet ==
    ~Unreadable => /\ Facts(Loaded) = Effective
                   /\ \A k \in Lists \cap DOMAIN Loaded : IsInjective(Loaded[k])
=============================================================================
