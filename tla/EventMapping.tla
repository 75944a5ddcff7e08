---------------------------- MODULE EventMapping ----------------------------
(***************************************************************************)
(* How a message of the meter becomes an event (mqtt_parser.go): each      *)
(* entry of the topic's mapping looks a value up in the JSON object,       *)
(* converts it to the entry's type and puts it under the destination.      *)
(*                                                                         *)
(* A JSON value is a record with its kind; an object has fields, a number  *)
(* has tenths, a string says what it reads as.  The text of a string or of *)
(* a time is left out: processEvent takes numbers only.                    *)
(***************************************************************************)
EXTENDS Integers, Sequences, SequencesExt

\* The mapping of a topic: its entries in the order they are configured.
Mappings ==
    Seq([Source : Seq(STRING), Type : STRING, Destination : STRING, IfNegative : STRING])

NumberTypes == {"int64", "float64"}

\* The walk of createEntry along a path.  It ends "short" of the path's end
\* at a key that is missing, and "panics" below a value that is no object.
Descend(at, key) ==
    CASE at.end # "full" -> at
      [] at.value.kind # "object" -> [at EXCEPT !.end = "panics"]
      [] key \in DOMAIN at.value.fields -> [at EXCEPT !.value = at.value.fields[key]]
      [] OTHER -> [at EXCEPT !.end = "short"]

Lookup(message, path) == FoldLeft(Descend, [value |-> message, end |-> "full"], path)

\* reflectType's conversion; any other type, and any other kind for one of
\* these, ends the process (a panic or a Fatalf).
Convertible(type, json) ==
    \/ type = "int64" /\ json.kind = "number"
    \/ type = "float64" /\ json.kind \in {"number", "string"}
    \/ type = "string" /\ json.kind = "string"
    \/ type = "time.Time" /\ json.kind = "string" /\ json.reads = "time"

\* int64 of a float cuts towards zero.
Truncated(tenths) == IF tenths >= 0 THEN 10 * (tenths \div 10)
                     ELSE -(10 * ((-tenths) \div 10))

Converted(type, json) ==
    CASE type = "int64" -> [type |-> type, tenths |-> Truncated(json.tenths)]
      [] type = "float64" ->
           [type |-> type,
            tenths |-> IF json.kind = "number" \/ json.reads = "number" THEN json.tenths ELSE 0]
      [] OTHER -> [type |-> type]

\* The entry turns a negative number into a positive one of another name.
Flips(entry, v) == entry.IfNegative # "" /\ v.type \in NumberTypes /\ v.tenths < 0

Negated(v) == [v EXCEPT !.tenths = -@]

Zeroed(v) == [v EXCEPT !.tenths = 0]

\* The event with a value under a name, whatever is there.
With(event, name, v) ==
    [n \in DOMAIN event \cup {name} |-> IF n = name THEN v ELSE event[n]]

\* The event with a value under a name that has none yet.
WithNew(event, name, v) == IF name \in DOMAIN event THEN event ELSE With(event, name, v)

\* Mutant of Put: a value that is there already is never replaced.
PutFirst(event, entry, v) ==
    IF Flips(entry, v)
    THEN WithNew(WithNew(event, entry.IfNegative, Negated(v)), entry.Destination, Zeroed(v))
    ELSE WithNew(event, entry.Destination, v)

\* A number does not replace what is there, unless it flips; the rest does.
\* With one name for both, the zero written last stays.
Put(event, entry, v) ==
    IF v.type \notin NumberTypes THEN With(event, entry.Destination, v)
    ELSE IF Flips(entry, v)
    THEN With(With(event, entry.IfNegative, Negated(v)), entry.Destination, Zeroed(v))
    ELSE WithNew(event, entry.Destination, v)

Value(entry, message) ==
    Converted(entry.Type, Lookup(message, entry.Source).value)

\* No entry ends the process.
Mappable(mapping, message) ==
    \A k \in DOMAIN mapping :
        LET found == Lookup(message, mapping[k].Source)
        IN  found.end # "panics" /\ Convertible(mapping[k].Type, found.value)

\* The event after the first k entries.
EventsAfter(mapping, message) ==
    LET after[k \in 0..Len(mapping)] ==
          IF k = 0 THEN <<>>
          ELSE Put(after[k - 1], mapping[k], Value(mapping[k], message))
    IN  after

CreateEntry(mapping, message) == EventsAfter(mapping, message)[Len(mapping)]

\* processEvent's type assertions.
Usable(event) ==
    \A name \in {"out", "power"} :
        name \in DOMAIN event /\ event[name].type = "float64"

\* Mutant of Taken: the type assertions are left out.
TakenUnasserted(mapping, message) == Mappable(mapping, message)

\* The message reaches the controller; else it ends the process.
Taken(mapping, message) ==
    Mappable(mapping, message) /\ Usable(CreateEntry(mapping, message))

\* What the controller is given, an element of RealtimeControl's Events.
EventReading(mapping, message) ==
    LET event == CreateEntry(mapping, message)
    IN  [power |-> event["power"].tenths, out |-> event["out"].tenths]
----------------------------------------------------------------------------
(* What a mapping promises, without the order of its steps. *)

\* The writes of an entry: a name and what it becomes.  One that "forces" its
\* value replaces another, one that "offers" it does not.
Writes(entry, v) ==
    IF Flips(entry, v)
    THEN {[name |-> entry.Destination, value |-> Zeroed(v), how |-> "forces"]}
           \cup {[name |-> name, value |-> Negated(v), how |-> "forces"] :
                   name \in {entry.IfNegative} \ {entry.Destination}}
    ELSE {[name |-> entry.Destination, value |-> v,
           how |-> IF v.type \in NumberTypes THEN "offers" ELSE "forces"]}

\* What the n-th entry writes under a name.
WritesOf(mapping, message, n, name) ==
    {w \in Writes(mapping[n], Value(mapping[n], message)) : w.name = name}

\* Of the first m entries the k-th decides on a name: it is the last that
\* forces a value, or the first that has one if none does.
Decides(mapping, message, m, k, w) ==
    LET forced(n) == \E u \in WritesOf(mapping, message, n, w.name) : u.how = "forces"
    IN  IF w.how = "forces" THEN \A n \in (k + 1)..m : ~forced(n)
        ELSE /\ \A n \in 1..m : ~forced(n)
             /\ \A n \in 1..(k - 1) : WritesOf(mapping, message, n, w.name) = {}

\* The event says of each name what the deciding entry of the first m says,
\* and of other names nothing.
MappedBy(mapping, message, event, m) ==
    \A name \in DOMAIN event \cup {mapping[k].Destination : k \in 1..m} :
        /\ name \in DOMAIN event
        /\ \E k \in 1..m : \E w \in WritesOf(mapping, message, k, name) :
             w.value = event[name] /\ Decides(mapping, message, m, k, w)

Mapped(mapping, message, event) == MappedBy(mapping, message, event, Len(mapping))
============================================================================
