--------------------------- MODULE MCTraceCommands ---------------------------
(* Instances of TraceCommands for TLC. *)
EXTENDS TraceCommands, SequencesExt

CONSTANTS MaxRows, MaxFrames, MaxLines

\* Native traces to sample: frame_boundaries of a trace are in order, none after
\* the last entry's mark.
Ordered(s) == \A f, g \in 1..Len(s) : f < g => s[f] <= s[g]
Boundaries(total) == {s \in BoundedSeq(0..total, MaxFrames) : Ordered(s)}

\* Every trace of up to MaxRows rows with every condition on its rows, and with
\* the default filter of a trace without mcycle_phase.
SmallInputs ==
  UNION {{[total |-> n, keeps |-> k, boundaries |-> b] :
            k \in SUBSET (0..n - 1) \cup {EveryNth(4, n)}, b \in Boundaries(n)} :
         n \in 0..MaxRows}

\* A register, a nullable one, and a boolean the registry does not know.
SmallTypes == [a |-> "UInt8", n |-> "UInt8", x |-> "Bool"]

Line(kind) == [kind |-> kind]
Entry(cells, flag) == [kind |-> "entry", cells |-> cells, flag |-> flag]
Header(fields, defs, ext, known, conflict) ==
  [kind |-> "header", fields |-> fields, defs |-> defs, ext |-> ext,
   known |-> known, conflict |-> conflict]

\* Headers that declare their columns, that leave them to the registry or to the
\* first entry, and that are wrong in one way each.
Headers ==
  {Header({"a", "n"}, {"a", "n"}, {}, TRUE, FALSE), Header({"a", "x"}, {}, {"x"}, TRUE, FALSE),
   Header({}, {}, {}, TRUE, FALSE), Header({"a", "x"}, {"a"}, {}, TRUE, FALSE),
   Header({"a"}, {"a"}, {"a"}, TRUE, TRUE), Header({"a"}, {"a"}, {"a"}, TRUE, FALSE),
   Header({"a"}, {"a"}, {}, FALSE, FALSE)}

Entries ==
  {Entry([a |-> 257], FALSE), Entry([a |-> 3, n |-> 0], TRUE), Entry([n |-> 5], FALSE), Entry([a |-> Odd], FALSE),
   Entry([a |-> 200, x |-> 1], FALSE)}

Lines == {Line("noise"), Line("blank"), Line("broken"), Line("other")} \cup Entries

\* Whatever comes before and after the header, or without one; and runs of values.
SmallFiles ==
  BoundedSeq(Lines, MaxLines)
    \cup {<<h>> \o s : h \in Headers, s \in BoundedSeq(Lines, MaxLines - 1)}
    \cup {<<Line("noise"), h>> \o s : h \in Headers, s \in BoundedSeq(Lines, 1)}
    \cup {<<Header({"a"}, {"a"}, {}, TRUE, FALSE)>>
            \o [k \in DOMAIN s |-> Entry([a |-> s[k]], k = 2)] : s \in BoundedSeq({0, 129, 200}, MaxRows)}

SmallFlags == [z |-> [field |-> "a", bit |-> 7]]
SmallExact == ("overflow" :> [kind |-> "wraps", field |-> "a"])
SmallNumbered ==
  ("mode" :> [max |-> 1,
              of |-> [k \in 0..1 |-> [kind |-> "enters", field |-> "a", mask |-> {0},
                                      value |-> IF k = 1 THEN {0} ELSE {}]]])

Compared(form, field, value) == [form |-> form, field |-> field, value |-> value]

SmallTexts ==
  {Compared("equals", "a", 1), Compared("equals", "a", None), Compared("equals", "x", 1),
   Compared("changes to", "a", 200), Compared("changes from", "n", 0),
   [form |-> "changes", field |-> "a"], [form |-> "mask", field |-> "a", mask |-> {0}],
   [form |-> "mask equals", field |-> "a", mask |-> {0, 7}, value |-> {7}],
   [form |-> "flag", name |-> "z", to |-> TRUE, becomes |-> TRUE],
   [form |-> "flag", name |-> "z", to |-> FALSE, becomes |-> FALSE],
   [form |-> "flag", name |-> "q", to |-> TRUE, becomes |-> FALSE],
   [form |-> "phrase", name |-> "overflow"],
   [form |-> "numbered", name |-> "mode", number |-> 1],
   [form |-> "numbered", name |-> "mode", number |-> 2]}

Pairs == {<<p, q>> : p, q \in SmallTexts}
SmallQueries == {<<p>> : p \in SmallTexts} \cup {q \in Pairs : q[1].form = "equals" /\ q[2].form = "mask"}

\* For queries with two conditions.
FewFiles == {<<Header({"a"}, {"a"}, {}, TRUE, FALSE)>> \o [k \in DOMAIN s |-> Entry([a |-> s[k]], FALSE)] :
               s \in BoundedSeq({0, 1, 200}, 3)}
=============================================================================
