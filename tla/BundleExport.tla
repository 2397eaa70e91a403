---------------------------- MODULE BundleExport ----------------------------
(***************************************************************************)
(* The rest of a replay bundle (bundle.rs): envelope and export metadata,  *)
(* timeline entries by their ids, frames, evidence, substrate bindings,    *)
(* and the directory of sealed blobs that may come with it.  A backend     *)
(* records one case, the exporter writes the bundle, then at most MaxEdits *)
(* single edits change the file, none of which recomputes a hash.          *)
(*                                                                         *)
(* What checks 2, 4 and 11 look at is abstracted to whether they accept it *)
(* (ordered, linked, governance): TimelineOrdering, ReceiptChain and       *)
(* AuthorityCheck say when they do.  A blob is named by a number and its   *)
(* hash is its content; a binding's hash is the term of its input.         *)
(*                                                                         *)
(* Backend and exporter are external code, modelled from the structs.      *)
(***************************************************************************)
EXTENDS Integers, Sequences, FiniteSets, SequencesExt

CONSTANTS
    Tenant, Case,   \* ids
    Agent, Human,   \* ids of actors
    AttributeList,  \* lists of attributes <<key, value>>, a key being in 1..2
    None,           \* an absent Option<..> field, a file that does not exist
    Malformed,      \* a hex field or a version that does not decode
    MaxEntries,     \* bound: timeline entries
    MaxSealed,      \* bound: frames, and also evidence bundles
    MaxBindings,    \* bound: bindings the backend records, of any tenant
    MaxItems,       \* bound: all of these together
    MaxEdits        \* bound: edits of the exported document and of the files

ASSUME ExportAssumption ==
    /\ {MaxEntries, MaxSealed, MaxBindings, MaxItems, MaxEdits} \subseteq Nat
    /\ {None, Malformed} \cap (Tenant \cup Case \cup Agent \cup Human) = {}
    /\ Malformed \notin Nat /\ Malformed # <<0, 1, 0>>
    /\ \A attrs \in AttributeList :
            attrs \in Seq(ToSet(attrs)) /\ \A a \in ToSet(attrs) : a[1] \in 1..2

VARIABLES
    bundle,         \* the document
    ledger,         \* the binding contexts the backend recorded, of any tenant
    files,          \* the payloads directory: the content of each blob
    original,       \* the document as exported, or None before
    edits           \* number of edits made so far

exportVars == <<bundle, ledger, files, original, edits>>

Blobs == 1..(2 * MaxSealed)

\* schema_hash_for_version: an unknown version gets the hash of v0.1.
SchemaHash(v) == IF v = <<0, 2>> THEN "v0.2" ELSE "v0.1"

-----------------------------------------------------------------------------
(* Substrate bindings.                                                     *)

\* The attributes of one key, in their order.
ValuesOf(attrs, k) ==
    LET upTo[i \in 0..Len(attrs)] ==
            IF i = 0 THEN <<>>
            ELSE IF attrs[i][1] = k THEN Append(upTo[i - 1], attrs[i])
            ELSE upTo[i - 1]
    IN  upTo[Len(attrs)]

\* sort_by key, which is stable.
Sorted(attrs) == ValuesOf(attrs, 1) \o ValuesOf(attrs, 2)

\* compute_verification_hash: the actor is the one that actor_kind selects.
BindingHash(b) == [message |-> b.message, tenant |-> b.tenant, kind |-> b.kind,
                   actor |-> IF b.kind = "agent" THEN b.agent ELSE b.human,
                   case |-> b.case, attrs |-> Sorted(b.attrs)]

Actors == {[kind |-> "agent", agent |-> a, human |-> None] : a \in Agent}
            \cup {[kind |-> "human", agent |-> None, human |-> h] : h \in Human}

-----------------------------------------------------------------------------
(* Recording and exporting a case.                                         *)

NewBundle(t, c) ==
    [version |-> <<0, 1>>, tenant |-> t, case |-> c,
     meta |-> [version |-> <<0, 1>>, schema |-> "v0.1", tenant |-> t, case |-> c,
               minVersion |-> <<0, 1, 0>>],
     continuity |-> TRUE, ordered |-> TRUE, linked |-> TRUE,
     governance |-> "unclaimed",
     entries |-> <<>>, agents |-> {}, frames |-> <<>>, evidence |-> <<>>,
     bindings |-> <<>>, refs |-> {"registered"}]

ExportInit ==
    /\ \E t \in Tenant, c \in Case : bundle = NewBundle(t, c)
    /\ ledger = {} /\ original = None /\ edits = 0
    /\ files = [b \in Blobs |-> None]

Recording == original = None

Room == Recording /\ Len(bundle.entries) + Len(bundle.frames) + Len(bundle.evidence)
                        + Cardinality(ledger) < MaxItems

RecordEntry(kind, agent) ==
    /\ Room /\ Len(bundle.entries) < MaxEntries
    /\ bundle' = [bundle EXCEPT
            !.entries = Append(@, [kind |-> kind, id |-> Len(@) + 1, agent |-> agent]),
            !.agents = @ \cup ({agent} \ {None})]
    /\ UNCHANGED <<ledger, files, original, edits>>

IdsOf(entries, kind) == {e.id : e \in {x \in ToSet(entries) : x.kind = kind}}

\* A frame lists the actions and proofs so far; its blob may stay elsewhere.
RecordFrame(blob) ==
    /\ Room /\ Len(bundle.frames) < MaxSealed
    /\ LET n == Len(bundle.frames) + 1
       IN  /\ blob \in {n, None}
           /\ bundle' = [bundle EXCEPT !.frames = Append(@,
                    [id |-> n, blob |-> blob, root |-> n,
                     actions |-> IdsOf(bundle.entries, "action"),
                     proofs |-> IdsOf(bundle.entries, "proof")])]
           /\ files' = IF blob = None THEN files ELSE [files EXCEPT ![blob] = n]
    /\ UNCHANGED <<ledger, original, edits>>

RecordEvidence(blob) ==
    /\ Room /\ Len(bundle.evidence) < MaxSealed
    /\ LET n == MaxSealed + Len(bundle.evidence) + 1
       IN  /\ blob \in {n, None}
           /\ bundle' = [bundle EXCEPT !.evidence =
                            Append(@, [blob |-> blob, root |-> n])]
           /\ files' = IF blob = None THEN files ELSE [files EXCEPT ![blob] = n]
    /\ UNCHANGED <<ledger, original, edits>>

\* The exporter takes the bindings of the tenant that belong to the case or none.
RecordBinding(t, c, actor, attrs) ==
    LET n == Cardinality(ledger) + 1
        b == [id |-> n, message |-> n, tenant |-> t, case |-> c, kind |-> actor.kind,
              agent |-> actor.agent, human |-> actor.human, attrs |-> attrs]
        row == [id |-> n, message |-> n, tenant |-> t, case |-> c, kind |-> actor.kind,
                agent |-> actor.agent, human |-> actor.human, attrs |-> attrs,
                hash |-> BindingHash(b)]
    IN  /\ Room /\ n <= MaxBindings
        /\ ledger' = ledger \cup {row}
        /\ bundle' = IF t = bundle.tenant /\ c \in {None, bundle.case}
                     THEN [bundle EXCEPT !.bindings = Append(@, row)]
                     ELSE bundle
        /\ UNCHANGED <<files, original, edits>>

\* Version 0.2 adds the governance graph, version 0.1 has none.  The backend
\* records in the order of time, but checks 2 and 11 compare timestamps as strings,
\* which fractional seconds put in another order: check 2 may find two entries out
\* of order, and check 11 a chain broken, in what nobody has edited.
ExportBundle(governance, ordered) ==
    /\ Recording
    /\ ordered \in BOOLEAN /\ (Len(bundle.entries) < 2 => ordered)
    /\ LET v == IF governance = "unclaimed" THEN <<0, 1>> ELSE <<0, 2>>
       IN  bundle' = [bundle EXCEPT !.version = v, !.meta.version = v,
                        !.meta.schema = SchemaHash(v), !.governance = governance,
                        !.ordered = ordered]
    /\ original' = bundle'
    /\ UNCHANGED <<ledger, files, edits>>

Record ==
    \/ \E agent \in Agent : RecordEntry("action", agent)
    \/ RecordEntry("proof", None)
    \/ \E blob \in Blobs \cup {None} : RecordFrame(blob) \/ RecordEvidence(blob)
    \/ \E t \in Tenant, c \in Case \cup {None}, actor \in Actors, attrs \in AttributeList :
            RecordBinding(t, c, actor, attrs)
    \/ \E governance \in {"unclaimed", "absent", "sound", "temporal", "integrity"},
          ordered \in BOOLEAN : ExportBundle(governance, ordered)

-----------------------------------------------------------------------------
(* Edits of the exported document.                                         *)

\* Every way to drop an item of sq, to change it to one of to[item], or to add a
\* copy of it, itself changed or not.
Altered(sq, to) ==
    {RemoveAt(sq, i) : i \in DOMAIN sq}
        \cup (UNION {{Append(sq, x) : x \in {sq[i]} \cup to[sq[i]]} : i \in DOMAIN sq})
        \cup (UNION {{[sq EXCEPT ![i] = x] : x \in to[sq[i]]} : i \in DOMAIN sq})

Versions == {<<0, 1>>, <<0, 2>>, <<0, 3>>, <<1, 0>>}

\* One version changed, or both versions to the same.
AlteredEnvelope ==
    {[bundle EXCEPT !.version = v] : v \in Versions}
        \cup {[bundle EXCEPT !.meta.version = v] : v \in Versions}
        \cup {[bundle EXCEPT !.version = v, !.meta.version = v] : v \in Versions}
        \cup {[bundle EXCEPT !.tenant = t] : t \in Tenant}
        \cup {[bundle EXCEPT !.case = c] : c \in Case}
        \cup {[bundle EXCEPT !.meta.case = c] : c \in Case}
        \cup {[bundle EXCEPT !.meta.schema = s] : s \in {"v0.1", "v0.2", "other"}}
        \cup {[bundle EXCEPT !.meta.tenant = t] : t \in Tenant}
        \cup {[bundle EXCEPT !.meta.minVersion = v] :
                v \in {<<0, 4, 0>>, <<0, 4, 1>>, <<0, 10, 0>>, Malformed}}

AlteredContent ==
    {[bundle EXCEPT !.continuity = FALSE], [bundle EXCEPT !.ordered = FALSE],
     [bundle EXCEPT !.linked = FALSE], [bundle EXCEPT !.agents = {}],
     [bundle EXCEPT !.refs = @ \cup {"unregistered"}]}
        \cup {[bundle EXCEPT !.governance = g] :
                g \in {"absent", "sound", "temporal", "integrity"}}

AlteredEntries ==
    LET To(e) == {[e EXCEPT !.id = i] : i \in 1..MaxEntries}
                    \cup {[e EXCEPT !.kind = k] : k \in {"action", "proof"}}
                    \cup {[e EXCEPT !.agent = a] : a \in Agent \cup {None}}
        to == [e \in ToSet(bundle.entries) |-> To(e)]
    IN  {[bundle EXCEPT !.entries = es] : es \in Altered(bundle.entries, to)}

AlteredSealed ==
    LET Stored(x) == {[x EXCEPT !.blob = b] : b \in Blobs \cup {None}}
                        \cup {[x EXCEPT !.root = n] : n \in Blobs}
        To(f) == Stored(f) \cup {[f EXCEPT !.actions = {}]}
                    \cup {[f EXCEPT !.proofs = @ \cup {1}]}
        frame == [f \in ToSet(bundle.frames) |-> To(f)]
        evidence == [x \in ToSet(bundle.evidence) |-> Stored(x)]
    IN  {[bundle EXCEPT !.frames = fs] : fs \in Altered(bundle.frames, frame)}
            \cup {[bundle EXCEPT !.evidence = es] : es \in Altered(bundle.evidence, evidence)}

AlteredBindings ==
    LET To(b) == {[b EXCEPT !.tenant = t] : t \in Tenant}
                    \cup {[b EXCEPT !.case = c] : c \in Case \cup {None}}
                    \cup {[b EXCEPT !.kind = k] : k \in {"agent", "human", "other"}}
                    \cup {[b EXCEPT !.agent = None], [b EXCEPT !.message = Malformed]}
                    \cup {[b EXCEPT !.attrs = a] : a \in AttributeList}
        to == [b \in ToSet(bundle.bindings) |-> To(b)]
        Foreign == UNION {{row} \cup To(row) : row \in ledger}
    IN  {[bundle EXCEPT !.bindings = bs] : bs \in Altered(bundle.bindings, to)}
            \cup {[bundle EXCEPT !.bindings = Append(@, b)] : b \in Foreign}

Exported == original # None

Edit ==
    /\ Exported /\ edits < MaxEdits
    /\ bundle' \in (AlteredEnvelope \cup AlteredContent \cup AlteredEntries
                        \cup AlteredSealed \cup AlteredBindings) \ {bundle}
    /\ edits' = edits + 1
    /\ UNCHANGED <<ledger, files, original>>

\* Somebody replaces or removes a file of the payloads directory.
ChangeFile ==
    /\ Exported /\ edits < MaxEdits
    /\ \E b \in Blobs, content \in {0, None} :
            files[b] # None /\ files' = [files EXCEPT ![b] = content]
    /\ edits' = edits + 1
    /\ UNCHANGED <<bundle, ledger, original>>
=============================================================================
