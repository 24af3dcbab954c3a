---------------------------- MODULE MCDocuments ----------------------------
(***************************************************************************)
(* The documents ingested: a top mapping and three nodes under it, and     *)
(* documents that embed one of three strings. The machines compiled: a     *)
(* base of one or two items, and up to two fragments of one, which         *)
(* literals look like values and stand-ins. A behaviour ingests a document *)
(* or compiles a machine.                                                  *)
(***************************************************************************)
EXTENDS Extraction, Compile

Node(up, key, keyTo, kind, text, anchor, to, note) ==
    [up |-> up, key |-> key, keyTo |-> keyTo, kind |-> kind, text |-> text,
     anchor |-> anchor, to |-> to, note |-> note, plain |-> FALSE]

Top == Node(0, None, 0, "map", None, FALSE, 0, None)

\* What stands at a place, besides an alias.
Forms == {<<"scalar", "a", FALSE, None>>, <<"scalar", "a", TRUE, None>>, <<"scalar", "ab", FALSE, None>>,
          <<"scalar", "0xa", FALSE, None>>, <<"scalar", "b", FALSE, "a">>,
          <<"map", None, FALSE, None>>, <<"map", None, TRUE, None>>,
          <<"host", None, FALSE, None>>, <<"host", None, TRUE, None>>}

Anchored(d) == {n \in DOMAIN d : d[n].anchor}

\* The nodes that can be written next; an alias does not leave or enter an embedded document.
Nexts(d) ==
    UNION {LET outer == d[u].kind = "map"
               aliases == IF outer THEN {n \in Anchored(d) : d[d[n].up].kind = "map"} ELSE {}
               keyed == {n \in aliases : d[n].kind = "scalar"}
               plain == {Node(u, k, 0, f[1], f[2], f[3], 0, f[4]) :
                           f \in {g \in Forms : outer \/ (g[1] = "scalar" /\ ~g[3])}, k \in {"secret", "a", "kind"}}
           IN plain \cup {Node(u, k, 0, "alias", None, FALSE, n, None) : n \in aliases, k \in {"secret", "a", "kind", "<<"}}
                    \cup {Node(u, None, n, "scalar", "b", FALSE, 0, None) : n \in keyed}
           : u \in {m \in DOMAIN d : d[m].kind \in {"map", "host"}}}

\* Mappings and embedded documents have members, a merge takes a mapping, and an anchor has an alias.
Written(d) ==
    /\ \A n \in DOMAIN d : d[n].anchor => \E m \in DOMAIN d : n \in {d[m].to, d[m].keyTo}
    /\ \A n \in DOMAIN d : d[n].kind \in {"map", "host"} => Children(d, n) # {}
    /\ \A n \in DOMAIN d : d[n].key = "<<" => d[Deref(d, n)].kind = "map"
    /\ Parses(d)

Grown(ds) == UNION {{Append(d, n) : n \in Nexts(d)} : d \in ds}
Documents(ds) == UNION {{e \in {Append(d, n) : n \in Nexts(d)} : Written(e)} : d \in ds}

Spread ==
    {<<Top, [Node(1, "a", 0, "host", None, FALSE, 0, None) EXCEPT !.plain = (c = "encoded")],
       Node(2, "a", 0, "scalar", x, FALSE, 0, None),
       Node(2, "kind", 0, "scalar", "b", FALSE, 0, IF c = "encoded" THEN None ELSE c),
       Node(2, "secret", 0, "scalar", "c", FALSE, 0, None),
       Node(1, "secret", 0, "scalar", t, FALSE, 0, None)>> :
       x \in {"a", "b"}, c \in {None, "b", "encoded"}, t \in {"a b", "ab", "0xa"}}

\* A comment that has the value in its text, or the number in another spelling.
Commented ==
    {<<Top, Node(1, "secret", 0, "scalar", "a", FALSE, 0, None), Node(1, "kind", 0, "scalar", "b", FALSE, 0, c),
       Node(1, "c", 0, "scalar", t, FALSE, 0, None)>> : c \in {"ab", "a b", "0xa"}, t \in {"c", "0xa"}}

MCInputs == Documents(Grown(Grown({<<Top>>}))) \cup Spread \cup Commented

-----------------------------------------------------------------------------
Item(kind, text, name, to) == [kind |-> kind, text |-> text, name |-> name, to |-> to]
Absent == Item("absent", Nothing, Nothing, Nothing)

Literals == {Item("literal", t, Nothing, Nothing) : t \in {"x", "zq0", "zq1", "L1+", "s", "L3", "false"}}
References == {Item("ref", Nothing, n, Nothing) : n \in {"n1", "n2", "nb"}}
Delete == Item("delete", Nothing, Nothing, Nothing)

Everywhere(t) == [p \in {"o", "p", "q"} |-> t]
MCValue ==
    [n1 |-> [mapping |-> FALSE, at |-> Everywhere("L1")], n2 |-> [mapping |-> FALSE, at |-> Everywhere("s")],
     nb |-> [mapping |-> FALSE, at |-> Everywhere("true")],
     nm |-> [mapping |-> TRUE, at |-> [Everywhere("s") EXCEPT !["p"] = "L2"]]]

MCKeyOf == [p \in {"o", "p", "q"} |-> IF p = "q" THEN "L3" ELSE p]

Empty == [p \in {"o", "p", "q"} |-> Absent]
MappingSource == [Empty EXCEPT !["p"] = Item("ref", Nothing, "nm", Nothing), !["q"] = Item("ref", Nothing, "nm", Nothing)]

Singles(items) == {[Empty EXCEPT ![p] = x] : p \in {"o", "p", "q"}, x \in items}
Pairs == {[s EXCEPT ![p] = x] : s \in Singles(References), p \in {"o", "p", "q"}, x \in Literals \cup References}
Aliased == {[Empty EXCEPT ![e[1]] = x, ![e[2]] = Item("alias", Nothing, Nothing, e[1])] :
              e \in {<<"o", "p">>, <<"o", "q">>, <<"p", "q">>}, x \in References}
Bases == Pairs \cup Aliased \cup {MappingSource} \cup {[MappingSource EXCEPT !["o"] = x] : x \in Literals \cup References}
Fragments == Singles(Literals \cup References \cup {Delete}) \cup {MappingSource}

\* An aliased base reference, and two fragments that each replace or delete one place.
MCOverrides == {<<b, f, g>> : b \in Aliased, f, g \in Singles({Delete} \cup {x \in Literals : x.text \in {"zq0", "x"}})}

MCCompositions ==
    {<<b>> : b \in Bases} \cup {<<b, f>> : b \in Bases, f \in Fragments \cup Aliased}
    \cup {<<b, f, g>> : b \in Singles(Literals \cup References), f, g \in Fragments}
    \cup MCOverrides

-----------------------------------------------------------------------------
\* The other component's state, when it does nothing.
NoExtraction ==
    /\ step = "idle" /\ doc = <<>> /\ values = <<>> /\ pending = {} /\ round = 0
    /\ original = <<>> /\ persisted = <<>>
NoCompilation ==
    /\ stage = "idle" /\ input = <<>> /\ attrs = <<>> /\ outcomes = <<>> /\ rule = Nothing
    /\ message = NoMessage

documentVars == <<extractionVars, compileVars>>

DocumentsInit == (ExtractionInit /\ NoCompilation) \/ (CompileInit /\ NoExtraction)
DocumentsNext == (ExtractionNext /\ UNCHANGED compileVars) \/ (CompileNext /\ UNCHANGED extractionVars)
DocumentsSpec == DocumentsInit /\ [][DocumentsNext]_documentVars
=============================================================================
