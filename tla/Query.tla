--------------------------------- MODULE Query ---------------------------------
(***************************************************************************)
(* How the search box takes a query apart: split_and walks through the     *)
(* characters once, with a flag for being within quotation marks, and then *)
(* through the segments, with the connector "y" (or "and") between terms.  *)
(*                                                                         *)
(* A character is a letter that is no connector, the letter of the         *)
(* connector, a space or a quotation mark.                                 *)
(***************************************************************************)
EXTENDS Integers, Sequences, SequencesExt, FiniteSetsExt

CONSTANT MaxLength  \* bound: length of a query

Limits == MaxLength \in Nat

Letter == "a"
Connector == "y"
Space == " "
Mark == "'"
Chars == {Letter, Connector, Space, Mark}

VARIABLE typed  \* the query so far

TypeOK == typed \in BoundedSeq(Chars, MaxLength)

-----------------------------------------------------------------------------
\* split_and.

\* Mutant: a space separates segments wherever it stands.
SeparatesAlways(c, quoted) == c = Space

Separates(c, quoted) == c = Space /\ ~quoted

Closed(s) == IF s.cur = <<>> THEN s.segments ELSE Append(s.segments, s.cur)

Walk(s, c) ==
    IF Separates(c, s.quoted)
      THEN [segments |-> Closed(s), cur |-> <<>>, quoted |-> s.quoted]
      ELSE [segments |-> s.segments, cur |-> Append(s.cur, c),
            quoted |-> IF c = Mark THEN ~s.quoted ELSE s.quoted]

Segments(q) == Closed(FoldLeft(Walk, [segments |-> <<>>, cur |-> <<>>, quoted |-> FALSE], q))

\* trim
Trim(q) ==
    LET solid == {i \in DOMAIN q : q[i] # Space}
    IN  IF solid = {} THEN <<>> ELSE SubSeq(q, Min(solid), Max(solid))

Ended(p) == IF Trim(p.acc) = <<>> THEN p.parts ELSE Append(p.parts, Trim(p.acc))

Join(p, seg) ==
    IF seg = <<Connector>> THEN [parts |-> Ended(p), acc |-> <<>>]
    ELSE [parts |-> p.parts, acc |-> IF p.acc = <<>> THEN seg ELSE p.acc \o <<Space>> \o seg]

Split(q) == Ended(FoldLeft(Join, [parts |-> <<>>, acc |-> <<>>], Segments(q)))

-----------------------------------------------------------------------------
\* Somebody types.

Init == typed = <<>>

Type(c) == Len(typed) < MaxLength /\ typed' = Append(typed, c)

Next == \E c \in Chars : Type(c)

Spec == Init /\ [][Next]_typed

-----------------------------------------------------------------------------
\* What a query means to whoever reads it.

Quoted(q, i) == Quantify(1..(i - 1), LAMBDA j : q[j] = Mark) % 2 = 1
Blank(q, i) == i \in {0, Len(q) + 1} \/ (q[i] = Space /\ ~Quoted(q, i))

\* The connectors: words of their own outside the quotation marks.
Joints(q) == {i \in DOMAIN q : q[i] = Connector /\ ~Quoted(q, i) /\ Blank(q, i - 1) /\ Blank(q, i + 1)}

\* The elements of s at the positions in S, in their order.
Picked(s, S) == FoldLeftDomain(LAMBDA t, i : IF i \in S THEN Append(t, s[i]) ELSE t, <<>>, s)

\* The characters of a piece that count: of several blanks only the last.
Counts(q, lo, hi) == {i \in lo..hi : ~(Blank(q, i) /\ (i = hi \/ Blank(q, i + 1)))}

\* The piece that ends before position e, where a connector or the end is.
Before(q, e) == Max({0} \cup {j \in Joints(q) : j < e})
Piece(q, e) == Trim(Picked(q, Counts(q, Before(q, e) + 1, e - 1)))

Pieces(q) == Picked([e \in 1..(Len(q) + 1) |-> Piece(q, e)],
                    {e \in Joints(q) \cup {Len(q) + 1} : Piece(q, e) # <<>>})

\* The parts of a query are the pieces between its connectors, in their order: a
\* connector or a space within quotation marks, doubled, at an end or next to
\* another connector never makes, joins or loses a part.
PartsAreThePieces == Split(typed) = Pieces(typed)
=============================================================================
