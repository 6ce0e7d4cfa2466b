----------------------------- MODULE ConfigLoad -----------------------------
(***************************************************************************)
(* keydbcfg_config_load(): the keys, host certificates and disc entries of *)
(* all configuration files: KEYDB.cfg (read by the steps of KeydbParser),  *)
(* the files with processing keys and a host certificate, and the keys     *)
(* built into the library (keydbcfg.c).  KeydbLines says what the lines of *)
(* a KEYDB.cfg should mean.                                                *)
(***************************************************************************)
EXTENDS KeydbParser

CONSTANTS
    Setups       \* what the files and the library may contain

L == INSTANCE KeydbLines

Missing == [text |-> <<>>, lines |-> <<>>, cut |-> FALSE, there |-> FALSE]

\* Every "=" in front of atom i of a text is in another piece of its line.
Stopped(t, i) == \A k \in 1 .. i - 1 : t[k].atom = "equals" =>
    \E j \in k + 1 .. i - 1 : t[j].atom \in {"bar", "escape", "newline"}
\* Atom n is reached behind a "=" that is not followed by a title.
Untitled(t, n) == \E i \in 1 .. n - 1 :
    /\ t[i].atom = "equals" /\ Stopped(t, i)
    /\ \A j \in i + 1 .. n - 1 : t[j].atom \in {"bar", "blank", "escape"}
\* The last token of a text, if there is one, is the NEWLINE at atom n.
EndsAt(t, n) ==
    /\ n > 0 => t[n].atom = "newline" /\ ~Untitled(t, n)
    /\ \A j \in n + 1 .. Len(t) : t[j].atom \in {"blank", "comment", "escape"}
EndsWhole(t) == \E n \in 0 .. Len(t) : EndsAt(t, n)

ASSUME ConfigLoadAssumption == \A s \in Setups :
    /\ s.given \in BOOLEAN
    /\ \A f \in {s.user, s.system} :
          /\ f.cut \in BOOLEAN /\ f.there \in BOOLEAN
          /\ \A i \in DOMAIN f.lines : f.lines[i].kind \in L!Kinds
          /\ f.text \in Seq(Range(f.text))
          /\ \A i \in DOMAIN f.text : f.text[i].token \in 3 .. YYNTOKENS - 1
          /\ ~L!Incomplete(f.lines, f.cut) => EndsWhole(f.text)

VARIABLES
    setup, stage,
    src,               \* the KEYDB.cfg being read: position in Sources
    before,            \* history: the configuration when it was opened
    config_ok, loaded

vars == <<parser, setup, stage, src, before, config_ok, loaded>>

\* The file the application names (setup.user), or the user's and the system's.
Sources == IF setup.given THEN <<setup.user>> ELSE <<setup.user, setup.system>>

-----------------------------------------------------------------------------
(* keydbcfg_parse_config() *)

OpenFile ==
    /\ stage = "open" /\ src <= Len(Sources)
    /\ \/ ~Sources[src].there /\ src' = src + 1 /\ UNCHANGED <<parser, stage, before>>
       \/ Sources[src].there /\ NewParse(Sources[src]) /\ stage' = "parse"
          /\ before' = cf /\ UNCHANGED src
    /\ UNCHANGED <<setup, config_ok, loaded>>

ParseFile ==
    /\ stage = "parse" /\ (Lex \/ Parse)
    /\ UNCHANGED <<setup, stage, src, before, config_ok, loaded>>

CloseFile ==
    /\ stage = "parse" /\ pc = "done"
    /\ config_ok' = (config_ok \/ result = 0)
    /\ src' = src + 1 /\ stage' = "open" /\ pc' = "idle"
    /\ UNCHANGED <<file, scanner, yychar, stacks, yyerrstatus, yynerrs, data, result>>
    /\ UNCHANGED <<setup, before, loaded>>

-----------------------------------------------------------------------------
(* keydbcfg.c *)

\* Only the configuration changes.
Collect(c) ==
    /\ cf' = c
    /\ UNCHANGED <<file, scanner, yychar, pc, stacks, yyerrstatus, yynerrs, hexkey, live, result>>
    /\ UNCHANGED <<setup, src, before>>

\* A key that is in the list is skipped; a new one becomes the first.
AddNew(list, x) == IF x \in ToSet(list) THEN list ELSE <<x>> \o list

\* _load_pk_file(): the user's file and the first one of the system that is there; every key
\* that is read counts, also one that is known.
LoadPkFiles ==
    LET keys == setup.pk_user \o setup.pk_system
    IN  /\ stage = "open" /\ src > Len(Sources)
        /\ Collect([cf EXCEPT !.pk = FoldLeft(AddNew, @, keys)])
        /\ config_ok' = (config_ok \/ keys # <<>>)
        /\ stage' = "cert"
        /\ UNCHANGED loaded

\* _load_cert_file(): at most one certificate in each of the two files; only a new one
\* counts.
LoadCertFiles ==
    /\ stage = "cert"
    /\ Collect([cf EXCEPT !.hc = FoldLeft(AddNew, @, setup.hc_user \o setup.hc_system)])
    /\ config_ok' = (config_ok \/ cf' # cf)
    /\ stage' = "embedded"
    /\ UNCHANGED loaded

\* _is_duplicate_dk() compares the pointers to the next key too: only a key at the end of
\* the list, where there is none, is recognised.
AddDk(list, x) == IF list # <<>> /\ Last(list) = x THEN list ELSE <<x>> \o list

\* Is there a configuration (mutant: only if KEYDB.cfg was found)?
OkIfKeydb == config_ok /\ \E i \in DOMAIN Sources : Sources[i].there
OkIfAny == config_ok \/ cf' # cf

\* _parse_embedded() (keys of zero are left out already) and the end of
\* keydbcfg_config_load().
ParseEmbedded ==
    /\ stage = "embedded"
    /\ Collect([cf EXCEPT !.dk = FoldLeft(AddDk, @, Reverse(setup.embedded.dk)),
                          !.pk = FoldLeft(AddNew, @, setup.embedded.pk),
                          !.hc = FoldLeft(AddNew, @, setup.embedded.hc)])
    /\ config_ok' = OkIfAny
    /\ loaded' = config_ok' /\ stage' = "done"

Init ==
    /\ ParserInit /\ setup \in Setups
    /\ stage = "open" /\ src = 1 /\ before = cf
    /\ config_ok = FALSE /\ loaded = FALSE

Next == OpenFile \/ ParseFile \/ CloseFile \/ LoadPkFiles \/ LoadCertFiles \/ ParseEmbedded

\* One thread, which never waits.
Spec == Init /\ [][Next]_vars /\ WF_vars(Next)

-----------------------------------------------------------------------------
\* What was read of the file is what its lines mean.
Meaning ==
    [cf EXCEPT !.celist = 0, !.dkplist = 0] =
    [L!ReadLines(before, file.lines, file.cut) EXCEPT !.celist = 0, !.dkplist = 0]

\* The parser gives a file the meaning of its lines, also behind lines that are wrong, as
\* long as these are separate; it fails only when the file ends in the middle of a line.
LinesAreRead ==
    pc = "done" =>
        /\ L!Separate(file.lines) => Meaning
        /\ (result = 0) <=> ~L!Incomplete(file.lines, file.cut)

\* Every line of a KEYDB.cfg is read by itself: "Each entry must be delimited by at least one
\* newline", and the data of "<DISCID> = <TITLE> | <ENTRY ID> | <ENTRY DATA>" are those of
\* that disc (KEYDB.cfg).
EveryLineIsRead == pc = "done" => Meaning

\* Loading comes to an end, whatever the files contain: the error recovery of the parser
\* always gets on in the text.
Returns == <>(stage = "done")

\* The lines that count: those that are not eaten.
Kept(f) == [i \in {j \in DOMAIN f.lines : ~L!Eaten(f.lines, j)} |-> f.lines[i]]

\* The well-formed lines of one kind in all files that are read.
Listed(kind) == UNION {
    {Sources[s].lines[i].val : i \in {j \in DOMAIN Kept(Sources[s]) :
        /\ Sources[s].lines[j].kind = kind /\ Sources[s].lines[j].ok
        /\ ~(Sources[s].cut /\ j = Len(Sources[s].lines))}} : s \in DOMAIN Sources}

\* No key and no certificate of any source is lost, and none is invented, whatever else is
\* in the files; only the line behind a disc without a title is not counted.
KeysAreKept ==
    stage = "done" =>
        /\ ToSet(cf.dk) = Listed("dk") \cup ToSet(setup.embedded.dk)
        /\ ToSet(cf.pk) = Listed("pk") \cup ToSet(setup.pk_user \o setup.pk_system)
                          \cup ToSet(setup.embedded.pk)
        /\ ToSet(cf.hc) = Listed("hc") \cup ToSet(setup.hc_user \o setup.hc_system)
                          \cup ToSet(setup.embedded.hc)

\* When the library says that there is no valid configuration, none was found: what was
\* read is thrown away only if it came from a file that ends in the middle of a line.
NothingIsThrownAway ==
    stage = "done" /\ ~loaded /\ (\A s \in DOMAIN Sources : ~L!Incomplete(Sources[s].lines, Sources[s].cut)) =>
        cf.dk \o cf.pk \o cf.hc \o cf.entries = <<>>
=============================================================================
