-------------------------------- MODULE Codec --------------------------------
(***************************************************************************)
(* The canonical codec (codec.cpp, and the put_ and get_ helpers of        *)
(* wire.cpp and persistence.cpp): how a value becomes a sequence of cells  *)
(* and is read back from one.  A cell is the outcome of one put: its width *)
(* in bytes and its content.                                               *)
(*                                                                         *)
(* A layout lists what an encoder puts, or what a decoder gets and tests,  *)
(* in the order of the code.  The layouts of WireFormat and StoreFormat    *)
(* are written twice, once from the encoder and once from the decoder, and *)
(* nothing here makes the two agree.                                       *)
(*                                                                         *)
(* Abstractions.  Bytes that were put by one call are read by one call or  *)
(* refused: a decoder that is out of step with its encoder would read      *)
(* garbage in the code and is refused here.  The lengths of texts are      *)
(* small; they differ from 1, 2, 4 and 8 so that a text is never taken for *)
(* an integer.                                                             *)
(***************************************************************************)
EXTENDS WellFormed

CONSTANTS MaxText,       \* wire_max_string_bytes, and the store's limit for a text
          MaxId,         \* the longest identifier
          MaxElements    \* wire_max_elements, and the limits of the store's lists

ASSUME CodecBounds ==
  /\ MaxText \in Nat /\ MaxId \in 1..MaxText /\ MaxElements \in Nat \ {0}
  /\ {1, 2, 4, 8} \cap (MaxId..MaxText + 1) = {}

\* No integer field of the model exceeds this.
Top == 10 * Scale

-----------------------------------------------------------------------------
(* Fields: what one put writes, and what the get that answers it accepts.   *)

Number(name, width, low, high) ==
  [name |-> name, kind |-> "int", width |-> width, low |-> low, high |-> high]

U8(name)   == Number(name, 1, 0, Top)
U16(name)  == Number(name, 2, 0, Top)
U32(name)  == Number(name, 4, 0, Top)
U64(name)  == Number(name, 8, 0, Top)
Flag(name) == Number(name, 1, 0, 1)        \* get_bool refuses anything else
Gen(name)  == Number(name, 8, 1, Top)      \* get_generation: zero is no generation

Enum(name, low, high) == Number(name, 1, low, high)

Str(name) == [name |-> name, kind |-> "text", low |-> 0, high |-> MaxText]
Id(name)  == [name |-> name, kind |-> "text", low |-> 1, high |-> MaxId]

\* A value behind a presence flag: put_optional_id, put_optional_generation and
\* every has_value() of the encoders.
Maybe(field) == [name |-> field.name, kind |-> "maybe", of |-> field]

ListOf(name, field, bound) == [name |-> name, kind |-> "list", of |-> field, bound |-> bound]

Several(name, field) == ListOf(name, field, MaxElements)

Ids(name) == Several(name, Id(""))

\* A structure, with the predicate its decoder applies to it when it is read.
Struct(name, layout, check) ==
  [name |-> name, kind |-> "struct", layout |-> layout, check |-> check]

\* A structure the store writes with its length in front; put_bytes takes any length,
\* get_bytes none beyond its bound.
Record(layout, bound, check) ==
  [name |-> "", kind |-> "record", layout |-> layout, bound |-> bound, check |-> check]

Passes(check, value) ==
  CASE check = "none"        -> TRUE
    [] check = "scope"       -> ScopeWellFormed(value)
    [] check = "metric"      -> MetricWellFormed(value)
    [] check = "requirement" -> RequirementValid(value)
    [] check = "semantics"   -> SemanticsValid(value)
    [] check = "binding"     -> BindingWellFormed(value)
    [] check = "publication" -> PublicationWellFormed(value)
    [] check = "proposal"    -> ProposalWellFormed(value)
    [] check = "preference"  -> PreferenceDecodable(value)
    [] check = "stable"      -> StableDecodable(value)
    [] check = "timing"      -> TimingDecodable(value)
    [] check = "store"       -> StoreConsistent(value)

-----------------------------------------------------------------------------
(* Writing                                                                  *)

\* The size of a buffer, summed up by halves.
RECURSIVE Bytes(_)
Bytes(cells) ==
  LET half == Len(cells) \div 2
  IN  IF cells = <<>> THEN 0
      ELSE IF half = 0 THEN cells[1][1]
      ELSE Bytes(SubSeq(cells, 1, half)) + Bytes(SubSeq(cells, half + 1, Len(cells)))

RECURSIVE Put(_, _), PutAll(_, _)

\* One put, or the puts of one structure.
Put(field, value) ==
  CASE field.kind = "int"    -> << <<field.width, value>> >>
    [] field.kind = "text"   -> << <<8, value[1]>> >> \o (IF value[1] = 0 THEN <<>> ELSE <<value>>)
    [] field.kind = "maybe"  -> IF value = <<>> THEN << <<1, 0>> >>
                                ELSE << <<1, 1>> >> \o Put(field.of, Head(value))
    [] field.kind = "list"   -> << <<8, Len(value)>> >>
                                \o FlattenSeq([i \in DOMAIN value |-> Put(field.of, value[i])])
    [] field.kind = "struct" -> PutAll(field.layout, value)
    [] field.kind = "record" -> LET cells == PutAll(field.layout, value)
                                IN  << <<8, Bytes(cells)>> >> \o cells

PutAll(layout, value) ==
  FlattenSeq([i \in DOMAIN layout |-> Put(layout[i], value[layout[i].name])])

\* integrity_of and store_integrity.  The digest is the sequence it covers, so that
\* no two contents share one.
Digest(cells) == <<8, "integrity", cells>>

Sealed(cells) == Last(cells) = Digest(Front(cells))

-----------------------------------------------------------------------------
(* Reading.  A read returns whether it succeeded, what it read and the      *)
(* place of the first cell that is left.                                    *)

Refused == [ok |-> FALSE, value |-> <<>>, at |-> 0]

Got(value, at) == [ok |-> TRUE, value |-> value, at |-> at]

\* take: the bytes are there and were put as one.
Takes(cells, at, width) == at <= Len(cells) /\ cells[at][1] = width

\* The place after the cells from "at" on that make up n bytes; 0 if there is none.
RECURSIVE EndOf(_, _, _)
EndOf(cells, at, n) ==
  IF n = 0 THEN at
  ELSE IF at > Len(cells) \/ cells[at][1] > n THEN 0
  ELSE EndOf(cells, at + 1, n - cells[at][1])

RECURSIVE Get(_, _, _), GetFrom(_, _, _), GetSeveral(_, _, _, _)

Get(field, cells, at) ==
  CASE field.kind = "int" ->
         IF Takes(cells, at, field.width) /\ cells[at][2] \in field.low..field.high
         THEN Got(cells[at][2], at + 1) ELSE Refused
    [] field.kind = "text" ->
         IF ~Takes(cells, at, 8) \/ cells[at][2] \notin field.low..field.high THEN Refused
         ELSE IF cells[at][2] = 0 THEN Got(<<0, 0>>, at + 1)
         ELSE IF Takes(cells, at + 1, cells[at][2]) THEN Got(cells[at + 1], at + 2) ELSE Refused
    [] field.kind = "maybe" ->
         IF ~Takes(cells, at, 1) \/ cells[at][2] \notin 0..1 THEN Refused
         ELSE IF cells[at][2] = 0 THEN Got(<<>>, at + 1)
         ELSE LET inner == Get(field.of, cells, at + 1)
              IN  IF inner.ok THEN Got(<<inner.value>>, inner.at) ELSE Refused
    [] field.kind = "list" ->
         IF ~Takes(cells, at, 8) \/ cells[at][2] > field.bound THEN Refused
         ELSE GetSeveral(field.of, cells[at][2], cells, at + 1)
    [] field.kind = "struct" ->
         LET read == GetFrom(field.layout, cells, Got(<<>>, at))
         IN  IF read.ok /\ Passes(field.check, read.value) THEN read ELSE Refused
    [] field.kind = "record" ->
         IF ~Takes(cells, at, 8) \/ cells[at][2] > field.bound THEN Refused
         ELSE LET end == EndOf(cells, at + 1, cells[at][2])
                  read == GetFrom(field.layout, SubSeq(cells, 1, end - 1), Got(<<>>, at + 1))
              IN  IF end > 0 /\ read.ok /\ read.at = end /\ Passes(field.check, read.value)
                  THEN read ELSE Refused

\* The fields of a layout, after those that are read already.
GetFrom(layout, cells, read) ==
  IF layout = <<>> \/ ~read.ok THEN read
  ELSE LET field == Head(layout)
           next == Get(field, cells, read.at)
       IN  GetFrom(Tail(layout), cells,
                   IF next.ok THEN Got((field.name :> next.value) @@ read.value, next.at)
                   ELSE Refused)

GetSeveral(field, count, cells, at) ==
  IF count = 0 THEN Got(<<>>, at)
  ELSE LET first == Get(field, cells, at)
       IN  IF ~first.ok THEN Refused
           ELSE LET rest == GetSeveral(field, count - 1, cells, first.at)
                IN  IF rest.ok THEN Got(<<first.value>> \o rest.value, rest.at) ELSE Refused

\* A decoder: its fields, its own test, and no byte left over (finished()).
Decode(field, cells) ==
  LET read == Get(field, cells, 1)
  IN  IF read.ok /\ read.at = Len(cells) + 1 THEN read ELSE Refused
=============================================================================
