------------------------------ MODULE Compile ------------------------------
(***************************************************************************)
(* One machine's compilation (internal/compile and the trace pass of       *)
(* internal/ingest): the sources are resolved and composed, traced with a  *)
(* stand-in for every value, each value's outcome is read off the trace,   *)
(* and the output is checked for copies, validated and redacted.           *)
(*                                                                         *)
(* A source gives an item at each place: "absent", a literal, a reference, *)
(* an alias of another place, or a delete directive. Source 1 is the       *)
(* import base. A mapping reference stands at every place of Members at    *)
(* once, one member each; a place's key is then a value too. A text is     *)
(* long when it reaches copyFloor and the stand-in's head. "L1+" is a      *)
(* longer text holding "L1"; "x" is the shape of every short text; Heads   *)
(* are the stand-ins of long texts, by id.                                 *)
(***************************************************************************)
EXTENDS Integers, Sequences, FiniteSets, SequencesExt, FiniteSetsExt

CONSTANTS
    Compositions,   \* the inputs: sequences of sources
    Value,          \* the pinned value of each reference name
    KeyOf,          \* the key of each place
    Omitted,        \* places at which the machinery does not write a false
    SchemaSecrets   \* places the machinery redacts

VARIABLES
    stage,      \* "resolve", "trace", "flip", "outcomes", "check", "validate", "compiled" or "refused"
    input,
    attrs,      \* the places attributed to each tracer
    outcomes,   \* by tracer: its places, and the fragment that overrode it or -1
    rule,       \* why it was refused
    message     \* what a refusal quotes: the text shown, and the place of the text quoted

compileVars == <<stage, input, attrs, outcomes, rule, message>>

Places == <<"o", "p", "q">>
Members == {"p", "q"}
Heads == <<"zq0", "zq1", "zq2", "zq3">>
Nothing == "nothing"
Token == "<redacted>"
Withheld == "<withheld>"

\* There is an import base, and an alias is of a place of its source.
ASSUME CompileAssumption ==
    \A ss \in Compositions :
        /\ Len(ss) \in Nat \ {0}
        /\ \A i \in 1..Len(ss), p \in Range(Places) : ss[i][p].kind = "alias" => ss[i][p].to \in Range(Places)

Long(t) == t \in {"L1", "L1+", "L2", "L3"} \cup Range(Heads)
Has(s, t) == s = t \/ (s = "L1+" /\ t = "L1")

-----------------------------------------------------------------------------
(* References and tracers.                                                 *)

\* traceAll: one tracer for each occurrence of a source, or member of one.
Tracers(ss) ==
    UNION {{[source |-> i, place |-> p, name |-> ss[i][p].name] : p \in {q \in Range(Places) : ss[i][q].kind = "ref"}} :
             i \in 1..Len(ss)}

\* Its id, over the sources and, in a source, in walk order.
Id(ts, t) ==
    LET at(p) == CHOOSE j \in DOMAIN Places : Places[j] = p IN
    1 + Cardinality({u \in ts : u.source < t.source \/ (u.source = t.source /\ at(u.place) < at(t.place))})

Real(t) == Value[t.name].at[t.place]
IsBoolean(t) == Real(t) \in {"true", "false"}
IsMember(t) == Value[t.name].mapping

\* standIn: the head in a long text's, the shape alone in a short one's; a boolean is its own.
StandIn(ts, t) ==
    IF IsBoolean(t) THEN Real(t) ELSE IF Long(Real(t)) THEN Heads[Id(ts, t)] ELSE "x"

Headless(t) == ~Long(Real(t))

\* Carried: a long stand-in anywhere in a text, a headless one only as the whole text.
Carried(ts, t, text) ==
    /\ ~IsBoolean(t)
    /\ IF Headless(t) THEN text = StandIn(ts, t) ELSE Has(text, StandIn(ts, t))

\* Trace and Indistinct refuse more tracers than there are heads, a stand-in equal to its value, and
\* two that carry one another.
Indistinct(ts) ==
    \/ Cardinality(ts) > Len(Heads)
    \/ \E t \in ts : ~IsBoolean(t) /\ StandIn(ts, t) = Real(t)
    \/ \E t, u \in ts : t # u /\ ~IsBoolean(u) /\ Carried(ts, t, StandIn(ts, u))

-----------------------------------------------------------------------------
(* Composition. A pass gives each tracer a text.                           *)

RealPass(ts) == [t \in ts |-> Real(t)]
TracePass(ts) == [t \in ts |-> StandIn(ts, t)]
FlipPass(ts, b) ==
    [t \in ts |-> IF t # b THEN StandIn(ts, t) ELSE IF Real(t) = "true" THEN "false" ELSE "true"]

\* resolveWith: the text of an item of source i in a pass; an alias yields its anchored node's.
ItemText(ss, ts, pass, i, p) ==
    LET at == IF ss[i][p].kind = "alias" THEN ss[i][p].to ELSE p IN
    IF ss[i][at].kind = "ref"
    THEN pass[CHOOSE t \in ts : t.source = i /\ t.place = at]
    ELSE ss[i][at].text

\* The last of the first n sources that says something at p, or 0.
LastAt(ss, n, p) ==
    LET saying == {i \in 1..n : ss[i][p].kind # "absent"} IN
    IF saying = {} THEN 0 ELSE Max(saying)

\* The leaf at p of the first n sources merged in order; a false may be left unwritten.
LeafAt(ss, ts, pass, n, p) ==
    LET i == LastAt(ss, n, p)
        text == IF i = 0 THEN Nothing ELSE IF ss[i][p].kind = "delete" THEN Nothing ELSE ItemText(ss, ts, pass, i, p)
    IN IF p \in Omitted /\ text = "false" THEN Nothing ELSE text

Compose(ss, ts, pass, n) == [p \in Range(Places) |-> LeafAt(ss, ts, pass, n, p)]

Leaves(c) == {p \in DOMAIN c : c[p] # Nothing}
ShapeDiffers(c, d) == Leaves(c) # Leaves(d)

-----------------------------------------------------------------------------
(* Attribution and outcomes.                                               *)

CarriedAt(ts, t, trace) == {p \in Leaves(trace) : Carried(ts, t, trace[p])}

\* attribute: the leaves that differ are those that carry a tracer.
Unfaithful(ts, real, trace) ==
    \/ ShapeDiffers(real, trace)
    \/ \E p \in Leaves(trace) : (real[p] # trace[p]) # (\E t \in ts : Carried(ts, t, trace[p]))

Changed(trace, flip) == {p \in Leaves(trace) : trace[p] # flip[p]}

\* Defect: a literal shaped like a stand-in counts as one.
CountCarried(ts, t, real, trace, flip) ==
    IF IsBoolean(t) THEN Cardinality(Changed(trace, flip)) ELSE Cardinality(CarriedAt(ts, t, trace))

\* prefixes.count, on the passes of one prefix.
Count(ts, t, real, trace, flip) ==
    IF IsBoolean(t) THEN Cardinality(Changed(trace, flip))
    ELSE Cardinality({p \in CarriedAt(ts, t, trace) : real[p] # trace[p]})

CountAt(ss, ts, t, n) ==
    Count(ts, t, Compose(ss, ts, RealPass(ts), n), Compose(ss, ts, TracePass(ts), n),
          Compose(ss, ts, FlipPass(ts, t), n))

\* prefixes.at and flipped fail closed on a prefix whose passes differ in shape.
PrefixUnfaithful(ss, ts, t, n) ==
    \/ ShapeDiffers(Compose(ss, ts, RealPass(ts), n), Compose(ss, ts, TracePass(ts), n))
    \/ IsBoolean(t) /\ ShapeDiffers(Compose(ss, ts, TracePass(ts), n), Compose(ss, ts, FlipPass(ts, t), n))

\* narrowed: the fragment after which fewer leaves carry an occurrence of the base, or -1; -2 fails
\* closed. counts[n] is the count in the prefix of n sources, the full composition's last.
Narrowed(counts) ==
    LET other == {n \in DOMAIN counts : counts[n] # counts[1]} IN
    IF Last(counts) = counts[1] THEN -1
    ELSE IF counts[Min(other)] < counts[1] THEN Min(other) - 2 ELSE -2

\* overrider: the fragment after which an occurrence is first absent; -2 fails closed.
Overrider(counts, own) ==
    LET gone == {n \in DOMAIN counts : n > own /\ counts[n] = 0} IN
    IF counts[own] = 0 \/ gone = {} THEN -2 ELSE Min(gone) - 2

\* The outcome of tracer t, whose leaves in the full composition are full.
OutcomeOf(t, full, counts) ==
    [places |-> full,
     by |-> IF full = {} THEN Overrider(counts, t.source) ELSE IF t.source = 1 THEN Narrowed(counts) ELSE -1]

\* The proper prefixes that are composed to tell: narrowed stops at the first that differs.
Asked(ss, ts, t, full) ==
    IF full = {} THEN t.source..(Len(ss) - 1)
    ELSE IF t.source > 1 \/ Len(ss) = 1 THEN {}
    ELSE IF CountAt(ss, ts, t, 1) = Cardinality(full) THEN {1}
    ELSE {n \in 1..(Len(ss) - 1) : \A m \in 1..(n - 1) : CountAt(ss, ts, t, m) = CountAt(ss, ts, t, 1)}

Counts(ss, ts, t, full) ==
    [n \in 1..Len(ss) |-> IF n = Len(ss) THEN Cardinality(full) ELSE CountAt(ss, ts, t, n)]

-----------------------------------------------------------------------------
(* checkOutput and redaction.                                              *)

\* The strings the provider holds for the sources: a redactor's exact forms.
Held(ts) ==
    {Real(t) : t \in {u \in ts : ~IsBoolean(u)}} \cup {KeyOf[t.place] : t \in {u \in ts : IsMember(u)}}

\* A text holds a value of copyFloor or more.
Copied(text, ts) == \E v \in Held(ts) : Long(v) /\ Has(text, v)

Attributed(outs) == UNION {outs[t].places : t \in DOMAIN outs}
PlacedKeys(ts, outs) == UNION {outs[t].places : t \in {u \in ts : IsMember(u)}}

\* checkOutput's rule, or nothing.
OutputRule(real, ts, outs) ==
    CASE \E t \in ts : t.source = 1 /\ outs[t].by >= 0 -> "base-override"
      [] \E p \in Leaves(real) \ Attributed(outs) : Copied(real[p], ts) -> "exact-copy"
      [] \E p \in Leaves(real) \ PlacedKeys(ts, outs) : Copied(KeyOf[p], ts) -> "exact-copy"
      [] OTHER -> Nothing

\* A text outside every attributed leaf, as redactedText shows it.
ValueShown(text, ts) == IF text \in Held(ts) \/ Copied(text, ts) THEN Token ELSE text

\* redactedText: the leaf and the key shown at each place.
Redacted(real, ts, outs) ==
    [p \in Leaves(real) |->
       [leaf |-> IF p \in Attributed(outs) \cup SchemaSecrets THEN Token ELSE ValueShown(real[p], ts),
        key |-> IF p \in PlacedKeys(ts, outs) THEN Token ELSE ValueShown(KeyOf[p], ts)]]

\* redactor.path: a record names a place by its key, unless that holds a value.
ShownPlace(p, ts) == IF KeyOf[p] \in Held(ts) \/ Copied(KeyOf[p], ts) THEN Token ELSE KeyOf[p]

\* Defect: a message is shown whatever references stand in the step's input.
MarkedAlways(ts, upto) == TRUE

\* Nothing marks the quote of a boolean or of a mapping's key.
Marked(ts, upto) == \A t \in ts : t.source <= upto => ~IsBoolean(t) /\ ~IsMember(t)

\* redactMessage on a message that quotes one leaf: real on the real pass and, if the trace pass was
\* refused alike, trace there.
MessageShown(ts, real, trace, alike, upto) ==
    LET quoted == {t \in ts : ~Headless(t) /\ Carried(ts, t, trace)} IN
    IF ~alike \/ ~Marked(ts, upto) THEN Withheld
    ELSE IF quoted # {} THEN Token
    ELSE IF real # trace THEN Withheld
    ELSE IF Copied(real, ts) THEN Token ELSE real

-----------------------------------------------------------------------------
(* Compile, step by step.                                                  *)

Ts == Tracers(input)
N == Len(input)
RealLeaves(n) == Compose(input, Ts, RealPass(Ts), n)
TraceLeaves(n) == Compose(input, Ts, TracePass(Ts), n)

NoMessage == [shown |-> Nothing, of |-> Nothing, upto |-> 0]

CompileInit ==
    /\ input \in Compositions
    /\ stage = "resolve" /\ attrs = <<>> /\ outcomes = <<>> /\ rule = Nothing /\ message = NoMessage

Refuse(r) == stage' = "refused" /\ rule' = r

\* The machinery refuses the first n sources, quoting the text at p; on the trace pass too when alike.
Rejected(n, p, alike, r) ==
    /\ RealLeaves(n)[p] # Nothing
    /\ Refuse(r)
    /\ message' = [shown |-> MessageShown(Ts, RealLeaves(n)[p], TraceLeaves(n)[p], alike /\ ~Indistinct(Ts), n),
                   of |-> p, upto |-> n]

\* Resolve every source and compose them: the machinery may refuse an input.
Composes ==
    /\ stage = "resolve"
    /\ \/ stage' = "trace" /\ UNCHANGED <<rule, message>>
       \/ \E n \in 1..N, p \in Range(Places), alike \in BOOLEAN : Rejected(n, p, alike, "rejected")
    /\ UNCHANGED <<input, attrs, outcomes>>

\* Trace every source, compose the trace pass, and attribute the leaves.
Attribute ==
    /\ stage = "trace"
    /\ \E ts \in {Ts} :
         IF Indistinct(ts) THEN Refuse("trace-indistinct") /\ attrs' = attrs
         ELSE \E real \in {RealLeaves(N)}, trace \in {TraceLeaves(N)} :
              IF Unfaithful(ts, real, trace) THEN Refuse("fidelity") /\ attrs' = attrs
              ELSE /\ attrs' = [t \in ts |-> CarriedAt(ts, t, trace)]
                   /\ stage' = "flip" /\ rule' = rule
    /\ UNCHANGED <<input, outcomes, message>>

\* A flip pass for each boolean; the leaves it changes are the boolean's.
Flip ==
    /\ stage = "flip"
    /\ \E ts \in {Ts}, trace \in {TraceLeaves(N)} :
       \E booleans \in {{t \in ts : IsBoolean(t)}} :
       \E flips \in {[t \in booleans |-> Compose(input, ts, FlipPass(ts, t), N)]} :
         IF \E t \in booleans : ShapeDiffers(trace, flips[t]) THEN Refuse("fidelity") /\ attrs' = attrs
         ELSE /\ attrs' = [t \in ts |-> IF t \in booleans THEN Changed(trace, flips[t]) ELSE attrs[t]]
              /\ stage' = "outcomes" /\ rule' = rule
    /\ UNCHANGED <<input, outcomes, message>>

\* The outcome of every tracer, from the prefixes where its leaves alone do not tell.
Outcomes ==
    /\ stage = "outcomes"
    /\ \E ts \in {Ts} :
       \E outs \in {[t \in ts |-> OutcomeOf(t, attrs[t], Counts(input, ts, t, attrs[t]))]} :
         IF \/ \E t \in ts : \E n \in Asked(input, ts, t, attrs[t]) : PrefixUnfaithful(input, ts, t, n)
            \/ \E t \in ts : outs[t].by = -2
         THEN Refuse("fidelity") /\ outcomes' = outcomes
         ELSE outcomes' = outs /\ stage' = "check" /\ rule' = rule
    /\ UNCHANGED <<input, attrs, message>>

Check ==
    /\ stage = "check"
    /\ \E r \in {OutputRule(RealLeaves(N), Ts, outcomes)} :
         IF r = Nothing THEN stage' = "validate" /\ rule' = rule ELSE Refuse(r)
    /\ UNCHANGED <<input, attrs, outcomes, message>>

\* The real composition is validated, then every pass.
Validates ==
    /\ stage = "validate"
    /\ \/ stage' = "compiled" /\ UNCHANGED <<rule, message>>
       \/ \E p \in Range(Places), alike \in BOOLEAN : Rejected(N, p, alike, "invalid")
       \/ Ts # {} /\ Refuse("fidelity") /\ message' = message
    /\ UNCHANGED <<input, attrs, outcomes>>

CompileNext == Composes \/ Attribute \/ Flip \/ Outcomes \/ Check \/ Validates
CompileSpec == CompileInit /\ [][CompileNext]_compileVars

-----------------------------------------------------------------------------
(* The records of a compilation.                                           *)

\* Provenance: a row for each place a tracer reached, or the fragment that overrode it.
Provenance ==
    UNION {IF outcomes[t].by >= 0 THEN {<<t, "overridden", outcomes[t].by>>}
           ELSE {<<t, "reached", p>> : p \in outcomes[t].places} : t \in DOMAIN outcomes}

Effective == {t.name : t \in {u \in DOMAIN outcomes : outcomes[u].places # {}}}

\* What checkOutput's base-override refusal names: a fragment, and base occurrences.
OverrideNamed ==
    LET overridden == {t \in DOMAIN outcomes : t.source = 1 /\ outcomes[t].by >= 0}
        by == Min({outcomes[t].by : t \in overridden})
    IN [by |-> by, of |-> {t \in overridden : outcomes[t].by = by}]

-----------------------------------------------------------------------------
(* Properties.                                                             *)

\* Where the value of tracer t stands in the first n sources merged, by who wrote what.
Flows(t, n) ==
    {p \in Range(Places) :
        LET i == LastAt(input, n, p) IN
        /\ i = t.source
        /\ input[i][p].kind \in {"ref", "alias"}
        /\ t.place = (IF input[i][p].kind = "alias" THEN input[i][p].to ELSE p)}

\* The fragments after which an occurrence is absent or, for one of the base that still stands
\* somewhere, stands at fewer places: what overrider and narrowed say of themselves. For a base
\* occurrence that is gone in the end this is not the fragment compilation.md names (FirstOverriderNamed).
LostBy(t) ==
    {n - 2 : n \in {m \in (t.source + 1)..N :
                      IF t.source = 1 /\ Flows(t, N) # {} THEN Flows(t, m) # Flows(t, 1) ELSE Flows(t, m) = {}}}

\* Provenance is what happened: the places recorded for an occurrence hold its value and no others
\* do; one that stands nowhere any more names the fragment after which it is first absent, one of the
\* import base that stands at fewer places the fragment after which it first did, whatever literals
\* and other values look like its stand-in; and a compiled machine lost nothing of its import base
\* (attribute, flipped, prefixes, narrowed, overrider, checkOutput).
ProvenanceTrue ==
    /\ stage \in {"check", "validate", "compiled"} =>
         /\ Provenance =
              UNION {IF LostBy(t) # {} THEN {<<t, "overridden", Min(LostBy(t))>>}
                     ELSE {<<t, "reached", p>> : p \in Flows(t, N)} : t \in Ts}
         /\ Effective = {t.name : t \in {u \in Ts : Flows(u, N) # {}}}
    /\ stage = "compiled" => \A t \in Ts : t.source = 1 => LostBy(t) = {}

\* As compilation.md and checkOutput's comment have it, a base-override refusal names the first
\* fragment in composition order that overrode the base, the one after which fewer places first carry
\* a base occurrence, and only the occurrences it overrode. It does not hold: presence asks of a base
\* occurrence that is gone in the end only when its last place went.
FirstOverriderNamed ==
    LET overrides(t) == {n - 2 : n \in {m \in 2..N : Flows(t, m) # Flows(t, m - 1)}}
        base == {t \in Ts : t.source = 1}
        first == Min(UNION {overrides(t) : t \in base})
    IN rule = "base-override" => OverrideNamed = [by |-> first, of |-> {t \in base : first \in overrides(t)}]

\* No value is shown outside the configuration: a compiled machine's literals hold no long value,
\* its redacted text shows no place a value stands at, no string equal to a held value and no copy
\* of a long one, its records name no key that is a value, and a refusal's message quotes neither a
\* reference's value nor a copy of a long one (checkOutput, redactedText, redactor, redactMessage).
NoValueShown ==
    LET strings == Held(Ts)
        discloses(text) == text # Token /\ (text \in strings \/ \E v \in strings : Long(v) /\ Has(text, v))
        flows(n) == UNION {Flows(t, n) : t \in Ts}
    IN /\ stage = "compiled" =>
            \E real \in {RealLeaves(N)} : \E shown \in {Redacted(real, Ts, outcomes)} :
              \A p \in Leaves(real) :
                 /\ p \notin flows(N) => \A v \in strings : Long(v) => ~Has(real[p], v)
                 /\ p \in flows(N) => shown[p].leaf = Token
                 /\ ~discloses(shown[p].leaf) /\ ~discloses(shown[p].key)
                 /\ ~discloses(ShownPlace(p, Ts))
       /\ message.shown \notin {Nothing, Token, Withheld} =>
            /\ message.of \notin flows(message.upto)
            /\ \A v \in strings : Long(v) => ~Has(message.shown, v)
=============================================================================
