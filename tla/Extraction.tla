----------------------------- MODULE Extraction -----------------------------
(***************************************************************************)
(* What ingestion does to one document (internal/ingest): identification   *)
(* of the values to extract, their substitution by references, the guard,  *)
(* the generations, the staged document, an operator's later marks on it   *)
(* (Remark), and Resolve, extraction's inverse.                            *)
(*                                                                         *)
(* A document is its parsed nodes, numbered in document order; node 1 is   *)
(* its top mapping. A "host" is an identified embedded document: a string  *)
(* whose text is a document of its own, its members; "plain" tells that    *)
(* the text is as the encoder writes it, without styles and comments. A    *)
(* field whose key is "secret" is one the machinery redacts, one whose key *)
(* is "kind" tells it what document it loads. Texts stand for strings:     *)
(* "ab" and "a b" hold "a", and "0xa" is another spelling of the number    *)
(* "a".                                                                    *)
(***************************************************************************)
EXTENDS Integers, Sequences, FiniteSets, SequencesExt

CONSTANTS
    Inputs,     \* documents as they are read
    MaxRounds   \* bound on extractions of one document: the first, and remarks

None == "none"

\* No text is empty: an empty value discloses nothing, and the guard does not search for one.
Texts == (STRING \ {""}) \cup {None}

\* A node as it is parsed or, of kind "ref", written. Only an outer mapping's member has an anchor; an
\* alias is of an anchored node, and so is the scalar that an alias gives as a key. The members of an
\* embedded document are scalars.
Nodes == [up : Nat, key : Texts, keyTo : Nat, kind : {"scalar", "host", "map", "alias", "ref"}, text : Texts,
          anchor : BOOLEAN, to : Nat, note : Texts, plain : BOOLEAN]
Document(d) ==
    /\ \A n \in DOMAIN d : n \in Nat \ {0} /\ d[n] \in Nodes
    /\ 1 \in DOMAIN d /\ d[1].kind = "map" /\ d[1].up = 0
    /\ \A n \in DOMAIN d \ {1} : d[n].up \in DOMAIN d /\ d[d[n].up].kind \in {"map", "host"}
    /\ \A n \in DOMAIN d : d[n].anchor => n # 1 /\ d[d[n].up].kind = "map"
    /\ \A n \in DOMAIN d : d[n].kind = "alias" => d[n].to \in DOMAIN d /\ d[d[n].to].anchor /\ d[d[n].to].kind # "alias"
    /\ \A n \in DOMAIN d : d[n].keyTo # 0 => d[n].keyTo \in DOMAIN d /\ d[d[n].keyTo].anchor /\ d[d[n].keyTo].kind = "scalar"
    /\ \A n \in DOMAIN d \ {1} : d[d[n].up].kind = "host" => d[n].kind \in {"scalar", "ref"}

VARIABLES
    step,       \* "read", "create", "staged" or "refused"
    doc,        \* the document as ingestion holds it
    values,     \* what the provider is to hold, by reference name
    pending,    \* names whose generation is not created
    round,
    original,   \* history: the document as it was read
    persisted   \* the document and values ingestion started the round from: before a remark, the
                \* claim's stored envelope

extractionVars == <<step, doc, values, pending, round, original, persisted>>

Strings == {"scalar", "host"}

(* Texts.                                                                  *)
\* strings.Contains.
Holds(s, t) == s = t \/ (s = "ab" /\ t \in {"a", "b"}) \/ (s = "a b" /\ t \in {"a", "b"})

\* ContainsToken: neither neighbour a letter or digit.
HoldsToken(s, t) == s = t \/ (s = "a b" /\ t \in {"a", "b"})

\* sameValue: one number, however it is spelled.
Same(s, t) == s = t \/ {s, t} = {"a", "0xa"}

\* A value as it is stored: a number is decoded.
Decoded(t) == IF t = "0xa" THEN "a" ELSE t

-----------------------------------------------------------------------------
(* Nodes and paths.                                                        *)

Deref(d, n) == IF d[n].kind = "alias" THEN d[n].to ELSE n
Children(d, n) == {m \in DOMAIN d : d[m].up = n}
KeyText(d, n) == IF d[n].keyTo = 0 THEN d[n].key ELSE d[d[n].keyTo].text

\* The nodes under n, in the text; an alias is not followed.
Under(d, n) ==
    LET below == Children(d, n) IN below \cup UNION {Children(d, m) : m \in below}

\* resolveIn's step to the member of n under key k, aliases followed; 0 when there is none.
Member(d, n, k) ==
    LET m == Deref(d, n)
        found == {c \in Children(d, m) : KeyText(d, c) = k}
    IN IF d[m].kind \in {"map", "host"} /\ found # {} THEN Deref(d, CHOOSE c \in found : TRUE) ELSE 0

Keys(d) == {KeyText(d, n) : n \in DOMAIN d \ {1}}

\* Paths, each with the node it names, and those one token longer.
Extended(d, at) ==
    LET longer == UNION {{Append(p, k) : k \in {l \in Keys(d) : Member(d, at[p], l) # 0}} : p \in DOMAIN at}
    IN [q \in DOMAIN at \cup longer |->
          IF q \in DOMAIN at THEN at[q] ELSE Member(d, at[Front(q)], Last(q))]

\* resolve: every path that names a node of d, with the node. No document has a path of four.
PathsOf(d) == Extended(d, Extended(d, Extended(d, [q \in {<<>>} |-> 1])))

\* The paths of the hosts that path p goes into.
Holder(d, at, p) == {q \in DOMAIN at : d[at[q]].kind = "host" /\ IsStrictPrefix(q, p)}

\* The one path of n that follows no alias: the path a declaration gives a host.
Place(d, at, n) ==
    CHOOSE q \in DOMAIN at :
        at[q] = n /\ \A i \in DOMAIN q :
            \E m \in Children(d, at[SubSeq(q, 1, i - 1)]) : m = at[SubSeq(q, 1, i)]

\* The text a node persists as a string, or strings within it.
TextOf(d, n) ==
    LET in == Children(d, n)
        texts == {d[m].text : m \in {c \in in : d[c].kind = "scalar"}} \cup {KeyText(d, m) : m \in in}
    IN CASE d[n].kind = "scalar" -> {d[n].text}
         [] d[n].kind = "host" ->
              texts \cup (IF d[n].plain THEN {} ELSE {d[m].note : m \in in} \ {None})
                    \cup (IF d[n].plain /\ {"a", "b"} \subseteq texts THEN {"a b"} ELSE {})
         [] OTHER -> {}

\* An embedded document has members, a merge takes a mapping, and no path is longer than PathsOf looks.
Regular(d) ==
    /\ \A n \in DOMAIN d : d[n].kind = "host" => Children(d, n) # {}
    /\ \A n \in DOMAIN d \ {1} : KeyText(d, n) = "<<" => d[Deref(d, n)].kind \in {"map", "ref"}
    /\ LET at == PathsOf(d) IN
       \A p \in DOMAIN at : \A k \in Keys(d) : Member(d, at[p], k) # 0 => Append(p, k) \in DOMAIN at

\* The documents read declare no reference.
ASSUME ExtractionAssumption ==
    /\ MaxRounds \in Nat \ {0}
    /\ \A d \in Inputs : Document(d) /\ Regular(d) /\ \A n \in DOMAIN d : d[n].kind # "ref"

-----------------------------------------------------------------------------
(* The parse and the checks of a document as authored.                     *)

\* parseStream refuses two keys of one text, and an alias of a node it stands in.
Parses(d) ==
    /\ \A m, n \in DOMAIN d \ {1} : m # n /\ d[m].up = d[n].up => KeyText(d, m) # KeyText(d, n)
    /\ \A n \in DOMAIN d : d[n].kind = "alias" => n \notin Under(d, d[n].to)

\* validateRefs: a reference is a mapping value, never a key, and never the whole document.
WellPlaced(d) ==
    /\ d[1].kind # "ref"
    /\ \A n \in DOMAIN d : d[n].keyTo # 0 => d[d[n].keyTo].kind # "ref"

-----------------------------------------------------------------------------
(* identify.                                                               *)

\* What the machinery loads: not the inside of an embedded document.
Loaded(d, at) == {p \in DOMAIN at : Holder(d, at, p) = {} /\ \A i \in DOMAIN p : p[i] # "<<"}

\* A field of n, its own or merged.
Field(d, n, k) ==
    IF Member(d, n, k) # 0 \/ Member(d, n, "<<") = 0 THEN Member(d, n, k)
    ELSE Member(d, Member(d, n, "<<"), k)

\* A reference, and a node in nulled, loads as a null. A secret field holds a string or a null;
\* a document's kind is never a null.
Loads(d, at, nulled) ==
    LET null == nulled \cup {n \in DOMAIN d : d[n].kind = "ref"} IN
    /\ \A p \in Loaded(d, at) \ {<<>>} :
         Last(p) = "secret" /\ at[p] \notin null => d[at[p]].kind # "map"
    /\ \A n \in {Field(d, 1, "kind")} \ {0} : n \notin null /\ d[n].kind \in Strings

\* Each target is stored as a reference: the document must load that way too.
LoadsStored(d, at, ts) == Loads(d, at, ts)

\* schemaPointers: the paths of the values RedactSecrets changes.
SchemaPointers(d, at) ==
    {p \in Loaded(d, at) \ {<<>>} : Last(p) = "secret" /\ d[at[p]].kind \in Strings}

\* A secret the machinery finds through a merge key, at a path that names no node.
Indirect(d) ==
    \E n \in DOMAIN d \ {1} :
        /\ KeyText(d, n) = "<<"
        /\ Member(d, n, "secret") # 0 /\ d[Member(d, n, "secret")].kind \in Strings
        /\ Member(d, d[n].up, "secret") = 0

\* Defect: a number is taken however it is spelled.
ScalarValueAny(t) == TRUE

\* scalarValue takes only the spelling a reference renders.
ScalarValue(t) == t # "0xa"

\* valueOf: the node has a kind a reference can have.
ValueOf(d, n) ==
    LET string(m) == d[m].kind = "host" \/ (d[m].kind = "scalar" /\ ScalarValue(d[m].text)) IN
    \/ string(n)
    \/ /\ d[n].kind = "map"
       /\ \A m \in Children(d, n) : ~d[m].anchor /\ string(Deref(d, m))

\* The marks that stand inside an identified embedded document.
Inner(d, at, marks) == {p \in marks : Holder(d, at, p) # {}}

\* The paths that name each node to extract; a reference is not extracted again.
NamedBy(d, at, paths) ==
    [n \in {at[p] : p \in paths} \ {m \in DOMAIN d : d[m].kind = "ref"} |-> {p \in paths : at[p] = n}]

Named(d, at, marks) == NamedBy(d, at, SchemaPointers(d, at) \cup marks)

HoldsReference(d, n) == \E m \in Under(d, n) : d[m].kind = "ref"

\* refuseReferenceHolders: a target that is, or has as a member, a host holding a reference.
ReferenceHolder(d, n) ==
    \E m \in {n} \cup {Deref(d, c) : c \in {k \in Children(d, n) : d[n].kind = "map"}} :
        d[m].kind = "host" /\ HoldsReference(d, m)

\* identifyEmbedded: a mark inside a host gives the host's declared path, and the host is not itself
\* one of the outer targets.
Embedded(d, at, p, outer) ==
    \A q \in Holder(d, at, p) : q = Place(d, at, at[q]) /\ at[q] \notin outer

\* coalesce: a target that is a member of target n is reached only through it, and not by alias.
ReachedOnlyThrough(d, named, n, m) ==
    /\ d[m].kind # "alias"
    /\ \A p \in named[m] : \E q \in named[n] : IsStrictPrefix(q, p)

Inside(d, named, n) == {m \in Children(d, n) : d[n].kind = "map" /\ Deref(d, m) \in DOMAIN named}

\* identify, refuseReferenceHolders, identifyEmbedded and coalesce, in their order: the rule that
\* refuses, given what the outer paths and all paths name.
Identified(d, at, marks, outer, named) ==
    CASE ~Loads(d, at, {}) -> "schema-unloadable"
      [] Indirect(d) -> "schema-indirect"
      [] \E n \in outer : ~ValueOf(d, n) -> "mark-kind"
      [] ~LoadsStored(d, at, outer) -> "schema-unloadable"
      [] \E n \in outer : ReferenceHolder(d, n) -> "mark-kind"
      [] \E p \in marks : ~Embedded(d, at, p, outer) -> "embedded"
      [] \E n \in DOMAIN named : ~ValueOf(d, n) -> "mark-kind"
      [] \E n \in DOMAIN named : \E m \in Inside(d, named, n) : ~ReachedOnlyThrough(d, named, n, m) -> "mark-kind"
      [] OTHER -> None

\* The targets substituted: those that are not part of another's mapping.
Targets(d, named) ==
    DOMAIN named \ UNION {{Deref(d, m) : m \in Inside(d, named, n)} : n \in DOMAIN named}

-----------------------------------------------------------------------------
(* substitute and the guard.                                               *)

\* The value of a node: a string's texts, a mapping's members by key.
PlainOf(d, n) ==
    LET stored(m) == {Decoded(t) : t \in TextOf(d, m)} IN
    IF d[n].kind # "map" THEN [map |-> FALSE, texts |-> [k \in {"."} |-> stored(n)]]
    ELSE [map |-> TRUE,
          texts |-> [k \in {KeyText(d, m) : m \in Children(d, n)} |-> stored(Member(d, n, k))]]

\* The document with its targets as references, and embedded documents written back.
Substitute(d, ts, written) ==
    [n \in DOMAIN d \ UNION {Under(d, m) : m \in ts} |->
       IF n \in ts THEN [d[n] EXCEPT !.kind = "ref", !.text = None, !.plain = FALSE]
       ELSE IF n \in written THEN [d[n] EXCEPT !.plain = TRUE]
       ELSE IF d[n].up \in written THEN [d[n] EXCEPT !.note = None]
       ELSE d[n]]

\* The hosts marked inside.
WrittenBack(d, at, marks) == UNION {{at[q] : q \in Holder(d, at, p)} : p \in marks}

Scalars(vals) == UNION {UNION {v.texts[k] : k \in DOMAIN v.texts} : v \in vals}
MappingKeys(vals) == UNION {DOMAIN v.texts : v \in {w \in vals : w.map}}

\* The keys and scalars of the stream, those of an embedded document too: what equalsAny compares.
ScalarTexts(d) ==
    LET live == DOMAIN d \ {1} IN
    {d[n].key : n \in {m \in live : d[m].keyTo = 0}} \cup {d[n].text : n \in {m \in live : d[m].kind = "scalar"}}

\* Every text the stream persists: keys, strings, comments. A host is its whole text and its nodes.
PersistedTexts(d) ==
    LET live == DOMAIN d \ {1}
        notes == {d[n].note : n \in {m \in live : ~d[d[m].up].plain}} \ {None}
    IN ScalarTexts(d) \cup notes \cup UNION {TextOf(d, n) : n \in live}

\* guard: a text that holds a value, or a mapping's key as a token, or a key or scalar that is one,
\* a number however it is spelled. A comment's numbers are not read.
Copies(d, vals) ==
    \/ \E s \in PersistedTexts(d) :
          \/ \E t \in Scalars(vals) : Holds(s, t)
          \/ \E k \in MappingKeys(vals) : HoldsToken(s, k)
    \/ \E s \in ScalarTexts(d) : \E t \in Scalars(vals) \cup MappingKeys(vals) : Same(s, t)

\* Identified documents whose holder a substitution took out.
HoldersRemoved(d, e) == \E n \in DOMAIN d : d[n].kind = "host" /\ (n \notin DOMAIN e \/ e[n].kind = "ref")

\* The guard on the substituted stream, and its validation.
GuardRefusal(d, ts, e) ==
    CASE Copies(e, {PlainOf(d, n) : n \in ts}) -> "guard"
      [] ~WellPlaced(e) -> "tag-placement"
      [] HoldersRemoved(d, e) -> "embedded"
      [] OTHER -> None

\* extract on document d: the rule that refuses, the targets, and the substituted document.
Extraction(d, at, marks, outer, named, ts, e) ==
    LET identified == Identified(d, at, marks, outer, named) IN
    [rule |-> CASE ~Parses(d) -> "parse"
                [] ~WellPlaced(d) -> "tag-placement"
                [] identified # None -> identified
                [] OTHER -> GuardRefusal(d, ts, e),
     targets |-> ts, doc |-> e]

Substituted(d, at, marks, outer, named, ts) ==
    Extraction(d, at, marks, outer, named, ts, Substitute(d, ts, WrittenBack(d, at, marks)))

Coalesced(d, at, marks, outer, named) ==
    Substituted(d, at, marks, outer, named, Targets(d, named))

ExtractAt(d, at, marks) ==
    Coalesced(d, at, marks, DOMAIN Named(d, at, marks \ Inner(d, at, marks)), Named(d, at, marks))

Extracted(d, marks) == ExtractAt(d, PathsOf(d), marks)

-----------------------------------------------------------------------------
(* One document's ingestion.                                               *)

ExtractionInit ==
    /\ doc \in Inputs /\ original = doc
    /\ values = [n \in {} |-> {}] /\ persisted = [doc |-> doc, values |-> values]
    /\ step = "read" /\ pending = {} /\ round = 0

\* The operator's marks: at most two a round.
Marks(d) == {{p, q} : p, q \in DOMAIN PathsOf(d)} \cup {{}}

\* A candidate, whose values are not yet written.
Candidate(x) ==
    /\ doc' = x.doc
    /\ values' = [n \in DOMAIN values \cup x.targets |->
                    IF n \in x.targets THEN PlainOf(doc, n) ELSE values[n]]
    /\ pending' = x.targets /\ step' = "create" /\ round' = round + 1
    /\ UNCHANGED original

ExtractDocument(marks) ==
    /\ step = "read" /\ persisted' = [doc |-> doc, values |-> values]
    /\ \E x \in {Extracted(doc, marks)} :
         IF x.rule = None THEN Candidate(x)
         ELSE step' = "refused" /\ UNCHANGED <<doc, values, pending, round, original>>

\* Defect: a remark may write an embedded document back, whatever its text was.
RewritesAny(d, e) == TRUE

\* changedBesides: a string a remark changed is an embedded document that was in the encoder's form.
RewritesOnlyMarked(d, e) ==
    \A n \in DOMAIN e :
        e[n].kind = "host" /\ (\E m \in Under(d, n) : m \notin DOMAIN e \/ e[m] # d[m]) => d[n].plain

\* Remark: marks on a paused claim's staged document.
Remark(marks) ==
    /\ step = "staged" /\ round < MaxRounds /\ marks # {}
    /\ persisted' = [doc |-> doc, values |-> values]
    /\ \E x \in {Extracted(doc, marks)} :
         IF x.rule = None /\ RewritesOnlyMarked(doc, x.doc) THEN Candidate(x)
         ELSE UNCHANGED <<step, doc, values, pending, round, original>>

\* Commit: one generation after the other.
Create ==
    /\ step = "create" /\ pending # {}
    /\ LET n == CHOOSE m \in pending : \A k \in pending : m <= k IN pending' = pending \ {n}
    /\ UNCHANGED <<step, doc, values, round, original, persisted>>

\* A generation fails: no sanitized document is made. A mark of which no generation was created leaves
\* the claim its stored envelope and the review goes on; any other failure abandons the claim.
CreateFails ==
    /\ step = "create" /\ pending # {}
    /\ step' = IF round > 1 /\ pending = DOMAIN values \ DOMAIN persisted.values THEN "staged" ELSE "refused"
    /\ doc' = persisted.doc /\ values' = persisted.values /\ pending' = {}
    /\ UNCHANGED <<round, original, persisted>>

Seal ==
    /\ step = "create" /\ pending = {} /\ step' = "staged"
    /\ UNCHANGED <<doc, values, pending, round, original, persisted>>

ExtractionNext ==
    \/ \E marks \in Marks(doc) : ExtractDocument(marks) \/ Remark(marks)
    \/ Create \/ CreateFails \/ Seal

ExtractionSpec == ExtractionInit /\ [][ExtractionNext]_extractionVars

-----------------------------------------------------------------------------
(* Resolve, and what a stream's tree is to the machinery.                  *)

\* A value node of a resolved stream.
Leaf(texts) == [map |-> FALSE, texts |-> texts]
Mapping == [map |-> TRUE, texts |-> {}]

\* What stands at a path of d, a reference replaced by its value.
Resolved(d, n, vals) ==
    CASE d[n].kind = "ref" -> IF vals[n].map THEN Mapping ELSE Leaf(vals[n].texts["."])
      [] d[n].kind \in {"map", "host"} -> Mapping
      [] OTHER -> Leaf(TextOf(d, n))

\* Resolve on d, at its paths: the nodes by path, and the members of the mappings it places.
ResolvedAt(d, at, vals) ==
    LET refs == {p \in DOMAIN at : d[at[p]].kind = "ref" /\ vals[at[p]].map}
        placed == UNION {{Append(p, k) : k \in DOMAIN vals[at[p]].texts} : p \in refs}
    IN [p \in DOMAIN at \cup placed |->
          IF p \in DOMAIN at THEN Resolved(d, at[p], vals)
          ELSE Leaf(vals[at[Front(p)]].texts[Last(p)])]

Tree(d, vals) == ResolvedAt(d, PathsOf(d), vals)

-----------------------------------------------------------------------------
(* Properties.                                                             *)

\* A staged document holds no value the provider was given for it: no key, string or comment
\* equals or contains a value extracted in any round, or has a key of an extracted mapping as a
\* token, and no key or scalar is the number of one in another spelling, whatever the guard of that
\* round compared (extract, Remark). A comment may spell an extracted number another way: the guard
\* searches comments by text alone (guardValues, copied).
NoValuePersisted ==
    step = "staged" =>
        \A v \in {values[n] : n \in DOMAIN values} :
            /\ \A s \in PersistedTexts(doc) :
                 /\ \A k \in DOMAIN v.texts : \A t \in v.texts[k] : ~Holds(s, t)
                 /\ v.map => \A k \in DOMAIN v.texts : ~HoldsToken(s, k)
            /\ \A s \in ScalarTexts(doc) :
                 /\ \A k \in DOMAIN v.texts : \A t \in v.texts[k] : ~Same(s, t)
                 /\ v.map => \A k \in DOMAIN v.texts : ~Same(s, k)

\* Resolving the staged document gives back what was read: every path leads to the same value, or
\* to the same embedded document's members, through aliases too (substitute, Resolve). And it can be
\* ingested again as it is, with nothing more found in it (the second load of identify,
\* encodeStable, validate of the substituted stream).
RoundTrip ==
    step = "staged" =>
        /\ Tree(doc, values) = Tree(original, [n \in {} |-> {}])
        /\ \A x \in {Extracted(doc, {})} : x.rule = None /\ x.targets = {}
=============================================================================
