------------------------- MODULE MCBulkComparison -------------------------
(* Instances of BulkComparison for TLC. *)
EXTENDS BulkComparison

CONSTANTS Other, MaxA, MaxB, TestedKinds

\* A trace of these columns, records by field.
Trace(trigger, addr, count, kinds, cols, chunk, bulk) ==
  [trigger |-> trigger, addr |-> addr, count |-> count,
   kinds |-> kinds, cols |-> cols, chunk |-> chunk, bulk |-> bulk]

\* With an address column and a flag column.
WithFlag(trigger, pcs, flags) ==
  Trace(trigger, "pc", Len(pcs), [pc |-> "u16", flag |-> "u8"], [pc |-> pcs, flag |-> flags],
        HeadRows, TRUE)

Addressed(trigger, n) ==
  {WithFlag(trigger, pcs, [d \in 1..Len(pcs) |-> Len(pcs) - d]) :
     pcs \in BoundedSeq({Entry, AfterEntry, Other}, n)}

Flagged(trigger, n) ==
  UNION {{WithFlag(trigger, [d \in 1..Len(fs) |-> Entry + d \div 2], fs),
          Trace(trigger, None, Len(fs), [flag |-> "u8"], [flag |-> fs], HeadRows, TRUE)} :
           fs \in BoundedSeq({0, 1}, n)}

Unflagged(trigger, n) ==
  {Trace(trigger, "pc", Len(pcs), [pc |-> "u16"], [pc |-> pcs], HeadRows, TRUE) :
     pcs \in BoundedSeq({Entry, AfterEntry}, n)}

\* Traces of one column, of every type and with nulls, cut into chunks or not, out
\* of a file or not.
OfType(kinds, n, cells, bulks) ==
  {Trace("mcycle", None, Len(cs), [val |-> k], [val |-> cs], chunk, b) :
     k \in kinds, cs \in BoundedSeq(cells, n), chunk \in 1..2, b \in bulks}

\* A field's first rows, and those further on, as many as both traces have or more.
TestedCalls ==
  {[field |-> "val", start |-> st, len |-> MaxB + 1, wants |-> w] :
     st \in {0, 1}, w \in {"count", "indices"}}

TestedFilters == {None, {"pc"}, {"flag"}}

Mode(m) == [mode |-> m, field |-> None, values |-> {}]
Condition(field, values) == [mode |-> "condition", field |-> field, values |-> values]

Pairing(A, B, S) == [a : A, b : B, sync : S]

SmallPairs ==
  Pairing(Addressed("tcycle", MaxA), Addressed("mcycle", MaxB),
          {Mode("auto"), Mode("cartridge"), Mode("pc")})
    \cup
  Pairing(Addressed("mcycle", MaxB + 1), Addressed("mcycle", MaxB),
          {Mode("none"), Mode("auto"), Mode("pc")})
    \cup
  UNION {Pairing(OfType({k}, MaxB + 1, {0, 1, Null}, {TRUE}), OfType({k}, MaxB, {1, Null}, BOOLEAN),
                 {Mode("none"), Condition("val", {1})}) : k \in TestedKinds}
    \cup
  Pairing(OfType(TestedKinds, MaxB, {0, 1}, {TRUE}), OfType({"u16"}, MaxB, {1}, {TRUE}),
          {Mode("none")})
    \cup
  Pairing(Flagged("instruction", MaxB), Flagged("tcycle", MaxB + 1) \cup Unflagged("tcycle", MaxB),
          {Mode("pc"), Mode("malformed"), Condition("flag", {1})})
===========================================================================
