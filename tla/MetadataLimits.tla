---------------------------- MODULE MetadataLimits ----------------------------
(***************************************************************************)
(* isBoundedMetadata (sms.service) after its check of the size: an         *)
(* inspection that stops at the first violation and shares one counter,    *)
(* against the limits as statements about the whole value.                 *)
(*                                                                         *)
(* A value is a text, another scalar, a list or an object with its entries *)
(* in order; an entry is `refused` for a key that is too long or reserved. *)
(* Of the reserved keys the framework drops some itself, with what is under*)
(* them, before the service sees the value: Nest's stripProtoKeys and      *)
(* class-transformer `__proto__` and `constructor`.                        *)
(***************************************************************************)
EXTENDS Naturals, Sequences, FiniteSets

CONSTANTS
  Items,              \* the values, and the values in them
  Converted,          \* what the ValidationPipe makes of each (external)
  MaxKeys, MaxDepth   \* 20 keys and depth 4

ASSUME LimitsAssumption == MaxKeys \in Nat /\ MaxDepth \in Nat

\* What JSON is.
ASSUME ItemsAssumption ==
  \A item \in Items :
    /\ item \in [kind : {"text", "scalar", "list", "object"}, long : BOOLEAN,
                entries : Seq([refused : BOOLEAN, dropped : BOOLEAN, item : Items])]
    /\ item.kind \in {"text", "scalar"} => item.entries = <<>>

\* The other entries keep their order, and so does all that is under them.
ASSUME ConversionAssumption ==
  /\ Converted \in [Items -> Items]
  /\ \A item \in Items :
       LET kept == SelectSeq(item.entries, LAMBDA entry : ~entry.dropped) IN
       Converted[item] =
         [item EXCEPT !.entries =
            [i \in DOMAIN kept |-> [kept[i] EXCEPT !.item = Converted[kept[i].item]]]]

IsTooLong(item) == item.kind = "text" /\ item.long

\* Mutant: each object counts its own keys.
InspectEntry_countsAnew(deeper, kind, seen, entry) ==
  LET count == seen.keyCount + (IF kind = "object" THEN 1 ELSE 0) IN
  CASE ~seen.ok -> seen
    [] seen.ok /\ kind = "object" /\ (count > MaxKeys \/ entry.refused) ->
         [ok |-> FALSE, keyCount |-> count]
    [] OTHER -> [ok |-> deeper[entry.item][0].ok, keyCount |-> count]

\* The callbacks of `every`, which asks no further after a failure.
InspectEntry(deeper, kind, seen, entry) ==
  LET count == seen.keyCount + (IF kind = "object" THEN 1 ELSE 0) IN
  CASE ~seen.ok -> seen
    [] seen.ok /\ kind = "object" /\ (count > MaxKeys \/ entry.refused) ->
         [ok |-> FALSE, keyCount |-> count]
    [] OTHER -> deeper[entry.item][count]

\* `every` over the entries of a list or an object.
Every(deeper, item, keyCount) ==
  LET seen[k \in 0..Len(item.entries)] ==
        IF k = 0 THEN [ok |-> TRUE, keyCount |-> keyCount]
                 ELSE InspectEntry(deeper, item.kind, seen[k - 1], item.entries[k])
  IN seen[Len(item.entries)]

\* `inspect`, by the levels left: none is left when depth > MaxDepth.
Inspect[left \in Nat] ==
  [item \in Items |-> [keyCount \in Nat |->
     CASE left = 0 -> [ok |-> FALSE, keyCount |-> keyCount]
       [] left > 0 /\ item.kind \in {"text", "scalar"} ->
            [ok |-> ~IsTooLong(item), keyCount |-> keyCount]
       [] OTHER -> Every(Inspect[left - 1], item, keyCount)]]

IsBoundedMetadata(metadata) == Inspect[MaxDepth + 1][metadata][0].ok

-----------------------------------------------------------------------------
(* The limits.                                                              *)

\* The entries of a value down to a level, each with the place where it is, as
\* long as its value is deep.
EntriesWithin[levels \in Nat] ==
  [item \in Items |->
     IF levels = 0 THEN {}
     ELSE UNION {{[at |-> <<i>>, keyed |-> item.kind = "object", entry |-> item.entries[i]]}
                 \cup {[at |-> <<i>> \o e.at, keyed |-> e.keyed, entry |-> e.entry] :
                         e \in EntriesWithin[levels - 1][item.entries[i].item]} :
                   i \in 1..Len(item.entries)}]

Keyed(entries) == {e \in entries : e.keyed}

IsWithinLimits(metadata) ==
  LET entries == EntriesWithin[MaxDepth + 1][metadata] IN
  /\ ~IsTooLong(metadata)
  /\ \A e \in entries : Len(e.at) <= MaxDepth /\ ~IsTooLong(e.entry.item)
  /\ \A e \in Keyed(entries) : ~e.entry.refused
  /\ Cardinality(Keyed(entries)) <= MaxKeys

=============================================================================
