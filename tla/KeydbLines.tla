----------------------------- MODULE KeydbLines -----------------------------
(***************************************************************************)
(* What the lines of a KEYDB.cfg mean: the keys, the host certificates and *)
(* the disc entries each line adds to what was read before.  Every line is *)
(* by itself: what a disc line lists belongs to the entry of that line.    *)
(*                                                                         *)
(* A line is a key (dk, pk, hc), a disc entry, or something the grammar    *)
(* rejects.  ok: the hex strings have the right length.  The grammar runs  *)
(* its actions while a line is read, so a line that is wrong at its end    *)
(* keeps what was done before: such a disc entry has the items up to the   *)
(* error, and it is open if the error follows the bar behind a unit key.   *)
(***************************************************************************)
EXTENDS Naturals, Sequences, SequencesExt

CONSTANT WantIds     \* the disc ids asked for

Kinds == {"dk", "pk", "hc", "disc", "bad"}

\* A configuration has the lists dk, pk, hc and entries (in the order they were made; cf->list
\* is the reverse).  A key without its newline is not complete.
KeyLine(cf, l, cut) ==
    IF l.ok /\ ~cut THEN [cf EXCEPT ![l.kind] = Append(@, l.val)] ELSE cf

\* A key is a sequence of the hex strings it was put together from; <<>> is all zeros.
NewEntry == [mk |-> <<>>, vid |-> <<>>, vuk |-> <<>>, uk |-> <<>>]

\* uk_entry: numbered keys; one of the wrong length is left out.
UnitKeys(keys) ==
    LET IsKey(k) == k.ok
        valid == SelectSeq(keys, IsKey)
    IN  [i \in DOMAIN valid |-> valid[i].val]

\* An item of the entry e.  The first list of unit keys counts; binding nonces, PAKs and
\* title keys ("list") are read and forgotten, a date too.
Item(e, it) ==
    CASE it.type = "uk"               -> IF e.uk = <<>> THEN [e EXCEPT !.uk = UnitKeys(it.keys)] ELSE e
      [] it.type \in {"list", "date"} -> e
      [] OTHER                        -> IF it.ok THEN [e EXCEPT ![it.type] = it.val] ELSE e

DiscLine(cf, l) ==
    IF l.ok /\ l.id \in WantIds
    THEN [cf EXCEPT !.entries = Append(@, FoldLeft(Item, NewEntry, l.items))] ELSE cf

\* One line; cut: the file ends before its newline.
ReadLine(cf, l, cut) ==
    CASE l.kind = "disc" -> DiscLine(cf, l)
      [] l.kind = "bad"  -> cf
      [] OTHER           -> KeyLine(cf, l, cut)

\* All lines of a file, after what was read before.
ReadLines(cf, lines, cut) ==
    LET read(c, i) == ReadLine(c, lines[i], cut /\ i = Len(lines))
    IN  FoldLeft(read, cf, [i \in DOMAIN lines |-> i])

\* A disc without a title (eats): the lexer takes the newline behind "=" for a bad
\* character, so that the error lasts to the end of the next line, or of the file.
Eats(l) == l.kind = "bad" /\ l.eats
Eaten(lines, i) == i > 1 /\ Eats(lines[i - 1])
Incomplete(lines, cut) == lines # <<>> /\ (cut \/ Eats(Last(lines)))

\* No line is behind one that eats it, and no disc line behind one whose list of unit keys
\* was not completed.
Separate(lines) ==
    \A i \in DOMAIN lines :
        /\ ~Eaten(lines, i)
        /\ lines[i].kind = "disc" => \A j \in 1 .. i - 1 : lines[j].kind = "disc" => ~lines[j].open
=============================================================================
