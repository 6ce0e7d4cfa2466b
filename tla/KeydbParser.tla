---------------------------- MODULE KeydbParser ----------------------------
(***************************************************************************)
(* The parser of KEYDB.cfg: the scanner with its start condition           *)
(* TITLE_STATE, and yyparse() with the tables bison made from the grammar, *)
(* its actions and its error recovery.                                     *)
(*                                                                         *)
(* The text of a file is a sequence of atoms, the pieces the rules of the  *)
(* scanner match outside titles:                                           *)
(*   word     a hex string, number, keyword, "-", or a character no other  *)
(*            rule takes;                                                  *)
(*   equals   "=";                                                         *)
(*   bar      "|", or an entry id such as "| V |";                         *)
(*   blank    one blank;  comment  ";" and the rest of the line, no bar;   *)
(*   escape   a newline behind "\";  newline  "\n";  return  "\r".         *)
(* A hex string has a length and a value; the text of a token stays in the *)
(* buffer of the scanner, which may be overwritten by the next yylex().    *)
(*                                                                         *)
(* The module has the steps of one parse; ConfigLoad runs them for each    *)
(* of its files.                                                           *)
(***************************************************************************)
EXTENDS Integers, Sequences, SequencesExt, FiniteSetsExt, TLC

CONSTANT WantIds   \* disc ids to keep: one, none, or all

\* Terminal symbols (the others are known to the tables only).
Sym == [EOF |-> 0, error |-> 1, HEXSTRING |-> 3, DISC_TITLE |-> 4, DIGIT |-> 5,
    DEVICE_KEY |-> 6, DEVICE_NODE |-> 7, KEY_UV |-> 8, KEY_U_MASK_SHIFT |-> 9,
    HOST_PRIV_KEY |-> 10, HOST_CERT |-> 11, HOST_NONCE |-> 12, HOST_KEY_POINT |-> 13,
    EQUALS_SIGN |-> 14, VERTICAL_BAR |-> 15, HYPHEN |-> 16, DK |-> 17, PK |-> 18, HC |-> 19,
    DATE |-> 20, MEK |-> 21, VID |-> 22, BN |-> 23, VUK |-> 24, PAK |-> 25, TK |-> 26, UK |-> 27,
    NEWLINE |-> 28, BAD_ENTRY |-> 29]
YYEMPTY == -2
YYFINAL == 25
YYLAST == 140
YYNTOKENS == 30
YYMAXDEPTH == 10000
YYPACT_NINF == -39
MAX_KEY_SIZE == 128

\* The tables; they are indexed from 0.
At(table, i) == table[i + 1]
yypact == <<
    11, -15, -39, 13, 14, 31, -39, 23, 15, -39, -39, -39, -39, -39, 18, 67, 28, 42, -39, 14, 32,
    -39, -2, 14, 33, -39, -39, 18, 13, 14, 31, -39, 67, 44, 47, 47, 46, 47, 60, 62, 63, 34, -39,
    -39, -39, -39, -39, -39, -39, -39, -39, 48, -39, 68, 56, -39, -39, 68, 59, 57, -1, 61, 58,
    79, 42, 42, 80, 82, -39, 42, 83, 86, -39, 87, 89, -39, 90, 92, -39, -39, -39, -39, -39, 14,
    -8, 14, -6, 56, -39, 59, -39, 69, 14, 46, 14, 60, 14, 62, 47, 63, 68, 94, -39, 68, 93, -39,
    10, 16, 95, 68, -39, 68, -39, 68, -39, 42, -39, 14, 97, 14, 98, 94, -39, 93, -39, 103, 68,
    100, 68, 102, 104, 105, -39, 14, 96, 14, 99, 100, 102, 68, -39, 68, -39, 101, 106, -39, -39>>
yydefact == <<
    0, 0, 69, 0, 0, 0, 34, 0, 0, 7, 8, 9, 10, 11, 4, 0, 0, 36, 12, 0, 0, 71, 0, 0, 0, 1, 6, 2,
    0, 0, 0, 33, 0, 0, 0, 0, 0, 0, 0, 0, 0, 0, 39, 40, 41, 42, 43, 44, 45, 46, 47, 0, 68, 17, 0,
    70, 22, 27, 0, 0, 0, 0, 0, 0, 49, 50, 0, 51, 53, 55, 0, 56, 58, 0, 60, 62, 0, 64, 66, 32,
    38, 37, 35, 0, 0, 0, 0, 0, 21, 0, 31, 0, 0, 0, 0, 0, 0, 0, 0, 0, 18, 0, 16, 28, 0, 26, 0, 0,
    0, 54, 52, 59, 57, 63, 61, 67, 65, 0, 0, 0, 0, 0, 14, 0, 25, 0, 19, 0, 29, 0, 0, 0, 48, 0,
    0, 0, 0, 0, 0, 20, 15, 30, 24, 0, 0, 13, 23>>
yypgoto == <<
    -39, -39, -39, 109, -39, 107, 35, -11, -16, -39, -39, 88, 36, 0, -12, -39, 120, 26, -39,
    -39, 108, -38, -39, -39, -39, -39, -39, 37, -39, -39, -39, 38, -39, -39, 39, -39, -39, 40,
    -29, -19>>
yydefgoto == <<
    0, 7, 8, 9, 10, 20, 84, 118, 134, 11, 12, 24, 86, 120, 136, 13, 14, 15, 16, 82, 41, 42, 43,
    44, 45, 46, 67, 68, 47, 48, 71, 72, 49, 74, 75, 50, 77, 78, 17, 22>>
yytable == <<
    53, 55, 55, 80, 57, 64, 65, 101, 69, 104, 60, -5, 1, 18, 2, -3, 1, 21, 2, 19, 102, 2, 105,
    25, 80, 121, 56, 88, 3, 4, 5, 123, 3, 4, 5, 28, 29, 30, 122, 6, 32, 23, 51, 6, 124, 52, 31,
    54, 58, 63, 2, 66, 81, 32, 33, 34, 35, 36, 37, 38, 39, 40, 79, 83, 100, 70, 103, 73, 76,
    115, 85, 55, 87, 109, 108, 111, 89, 113, 33, 34, 35, 36, 37, 38, 39, 40, 90, 33, 34, 35, 36,
    37, 38, 39, 40, 91, 92, 93, 126, 94, 128, 95, 117, 96, 97, 119, 98, 99, 132, 133, 130, 125,
    127, 129, 139, 135, 141, 26, 61, 137, 138, 143, 106, 131, 140, 107, 144, 142, 27, 145, 110,
    0, 0, 112, 146, 59, 114, 0, 0, 116, 62>>
yycheck == <<
    19, 3, 3, 41, 23, 34, 35, 15, 37, 15, 29, 0, 1, 28, 3, 0, 1, 3, 3, 6, 28, 3, 28, 0, 62, 15,
    28, 28, 17, 18, 19, 15, 17, 18, 19, 17, 18, 19, 28, 28, 14, 10, 14, 28, 28, 3, 28, 15, 15,
    5, 3, 5, 4, 27, 20, 21, 22, 23, 24, 25, 26, 27, 28, 7, 83, 5, 85, 5, 5, 98, 11, 3, 15, 92,
    5, 94, 15, 96, 20, 21, 22, 23, 24, 25, 26, 27, 28, 20, 21, 22, 23, 24, 25, 26, 27, 16, 16,
    15, 117, 16, 119, 15, 8, 16, 15, 12, 16, 15, 5, 9, 121, 16, 15, 15, 133, 13, 135, 8, 30, 15,
    15, 137, 87, 123, 28, 89, 138, 28, 8, 28, 93, -1, -1, 95, 28, 28, 97, -1, -1, 99, 32>>
yyr1 == <<
    0, 30, 31, 31, 31, 31, 32, 32, 33, 33, 33, 33, 33, 34, 34, 34, 34, 35, 36, 37, 38, 39, 39,
    40, 40, 40, 40, 41, 42, 43, 44, 45, 45, 46, 46, 47, 48, 49, 50, 50, 51, 51, 51, 51, 51, 51,
    51, 51, 52, 53, 54, 55, 56, 56, 57, 58, 59, 60, 60, 61, 62, 63, 63, 64, 65, 66, 66, 67, 68,
    68, 69, 69>>
yyr2 == <<
    0, 2, 2, 1, 1, 0, 2, 1, 1, 1, 1, 1, 2, 10, 6, 9, 5, 2, 2, 2, 2, 4, 3, 10, 9, 6, 5, 2, 2, 2,
    2, 4, 3, 2, 1, 3, 1, 1, 2, 1, 1, 1, 1, 1, 1, 1, 1, 1, 6, 2, 2, 2, 3, 1, 3, 2, 2, 3, 1, 3, 2,
    3, 1, 3, 2, 3, 1, 3, 2, 1, 2, 1>>

VARIABLES
    file,              \* the file being read
    pos, start,        \* scanner: next atom, start condition
    yychar, yylval,    \* lookahead and its value
    lexed,             \* history: calls of yylex() so far
    pc,
    yyss, yyvs,        \* the stacks of states and of values
    yyerrstatus,
    yynerrs,           \* has there been a syntax error
    hexkey,            \* parser_state.hexkey and hexkey_size
    cf,                \* the configuration, with parser_state.celist and dkplist
    live,              \* strings of hexstring_list that are allocated
    result

scanner == <<pos, start, yylval, lexed>>
stacks  == <<yyss, yyvs>>
data    == <<hexkey, cf, live>>
parser == <<file, scanner, yychar, pc, stacks, yyerrstatus, yynerrs, data, result>>

-----------------------------------------------------------------------------
(* yylex(): longest match, then the first rule.                            *)

Text == file.text
None == [len |-> 0, val |-> <<>>, at |-> 0]

\* DISC_TITLE takes everything up to a bar, a backslash or a newline.
EndsTitle(i) == i > Len(Text) \/ Text[i].atom \in {"bar", "escape", "newline"}
TitleEnd(i) == Min({j \in i .. Len(Text) + 1 : EndsTitle(j)})
\* A single blank is taken by the earlier rule for blanks.
TitleAt(i) ==
    LET n == TitleEnd(i) - i IN n > 1 \/ (n = 1 /\ Text[i].atom # "blank")

Ignored(i) ==
    IF start = "TITLE" THEN Text[i].atom \in {"blank", "escape"} /\ ~TitleAt(i)
    ELSE Text[i].atom \in {"blank", "comment", "escape"}

Return(token, value) ==
    /\ yychar' = token /\ yylval' = value
    /\ pc' = "backup"
    /\ UNCHANGED <<file, lexed, stacks, yyerrstatus, yynerrs, data, result>>

\* A rule with an empty action.
LexIgnored ==
    /\ pc = "lex" /\ pos <= Len(Text) /\ Ignored(pos)
    /\ pos' = pos + 1
    /\ UNCHANGED <<file, start, yylval, lexed, yychar, pc, stacks, yyerrstatus, yynerrs, data, result>>

LexTitle ==
    /\ pc = "lex" /\ pos <= Len(Text) /\ start = "TITLE" /\ TitleAt(pos)
    /\ pos' = TitleEnd(pos) /\ start' = "INITIAL"
    /\ Return(Sym.DISC_TITLE, None)

\* The newline that ends a line (with mutant).
NewlineAlways == Sym.NEWLINE
NewlineToken == IF start = "TITLE" THEN Sym.BAD_ENTRY ELSE Sym.NEWLINE

LexNewline ==
    /\ pc = "lex" /\ pos <= Len(Text) /\ Text[pos].atom \in {"newline", "return"}
    /\ start = "INITIAL" \/ ~TitleAt(pos)
    /\ pos' = pos + 1 /\ start' = "INITIAL"
    /\ Return(NewlineToken, None)

\* "=" begins a title; a bar in front of the title does not end TITLE_STATE.
LexToken ==
    /\ pc = "lex" /\ pos <= Len(Text)
    /\ \/ Text[pos].atom = "bar" /\ UNCHANGED start
       \/ start = "INITIAL" /\ Text[pos].atom = "word" /\ UNCHANGED start
       \/ start = "INITIAL" /\ Text[pos].atom = "equals" /\ start' = "TITLE"
    /\ pos' = pos + 1
    /\ Return(Text[pos].token, [len |-> Text[pos].len, val |-> Text[pos].val, at |-> lexed])

LexEof ==
    /\ pc = "lex" /\ pos > Len(Text)
    /\ UNCHANGED <<pos, start>>
    /\ Return(Sym.EOF, None)

-----------------------------------------------------------------------------
(* yyparse()                                                               *)

yystate == Last(yyss)
Entry(table, i, sym) ==
    IF i \in 0 .. YYLAST /\ At(yycheck, i) = sym THEN At(table, i) ELSE 0

\* yybackup: a state whose entry in yypact is YYPACT_NINF does without a lookahead (mutant:
\* the lookahead is read first).
NeedsAlways == TRUE
NeedsLookahead == At(yypact, yystate) # YYPACT_NINF

\* Positive: the state to shift to; negative: the rule to reduce by; 0: a syntax error.
Decision ==
    LET found == IF NeedsLookahead THEN Entry(yytable, At(yypact, yystate) + yychar, yychar) ELSE 0
    IN  IF found = 0 THEN -At(yydefact, yystate) ELSE found
Deciding == pc = "backup" /\ (NeedsLookahead => yychar # YYEMPTY)

\* yynewstate, yysetstate: the stacks grow up to YYMAXDEPTH.
Push(states, values, s, v) ==
    /\ yyss' = Append(states, s) /\ yyvs' = Append(values, v)
    /\ result' = IF Len(states) + 1 >= YYMAXDEPTH THEN 2 ELSE IF s = YYFINAL THEN 0 ELSE result
    /\ pc' = IF Len(states) + 1 >= YYMAXDEPTH \/ s = YYFINAL THEN "done" ELSE "backup"

ReadToken ==
    /\ pc = "backup" /\ NeedsLookahead /\ yychar = YYEMPTY
    /\ lexed' = lexed + 1 /\ pc' = "lex"
    /\ UNCHANGED <<file, pos, start, yylval, yychar, stacks, yyerrstatus, yynerrs, data, result>>

Shift ==
    /\ Deciding /\ Decision > 0
    /\ Push(yyss, yyvs, Decision, yylval)
    /\ yychar' = YYEMPTY
    /\ yyerrstatus' = IF yyerrstatus = 0 THEN 0 ELSE yyerrstatus - 1
    /\ UNCHANGED <<file, scanner, yynerrs, data>>

\* yyreduce with $$ = v, for one of the given rules.
Rule == -Decision
Reduces(rules) == Deciding /\ Rule \in rules
Arg(k) == yyvs[Len(yyvs) + k]
Reduce(v) ==
    LET len == At(yyr2, Rule)
        below == SubSeq(yyss, 1, Len(yyss) - len)
        lhs == At(yyr1, Rule) - YYNTOKENS
        to == Entry(yytable, At(yypgoto, lhs) + Last(below), Last(below))
    IN  /\ Push(below, SubSeq(yyvs, 1, Len(yyvs) - len), IF to # 0 THEN to ELSE At(yydefgoto, lhs), v)
        /\ UNCHANGED <<file, scanner, yychar, yynerrs>>

\* Rules without an action, and $$ = $2 of the fields of keys and certificates.
ReducePlain ==
    /\ Deciding /\ Rule > 0
    /\ Rule \notin (12 .. 16) \cup (21 .. 26) \cup {35} \cup {49, 50, 51, 55, 56, 60, 64} \cup (67 .. 71)
    /\ Reduce(IF Rule \in (17 .. 20) \cup (27 .. 30) THEN Arg(0)
              ELSE IF At(yyr2, Rule) = 0 THEN None ELSE Arg(1 - At(yyr2, Rule)))
    /\ UNCHANGED <<yyerrstatus, data>>

\* error NEWLINE: yyerrok.
ReduceError ==
    /\ Reduces({12}) /\ Reduce(Arg(-1))
    /\ yyerrstatus' = 0 /\ UNCHANGED data

\* A new entry goes behind the others (mutant: the entry behind the first is replaced).
SecondReplaced(list, x) == IF list = <<>> THEN <<x>> ELSE <<Head(list), x>>
Added(list, x) == Append(list, x)

\* add_dk_entry()
ReduceDk ==
    /\ Reduces(13 .. 16) /\ Reduce(Arg(1 - At(yyr2, Rule)))
    /\ LET full == Rule \in {13, 15}
           key  == Arg(IF full THEN -7 ELSE -3)
           node == Arg(IF full THEN -5 ELSE -1)
           dk   == <<key.val, node.val>> \o IF full THEN <<Arg(-3).val, Arg(-1).val>> ELSE <<>>
       IN  /\ cf' = IF key.len = 32 THEN [cf EXCEPT !.dk = Added(@, dk)] ELSE cf
           /\ live' = live - (IF full THEN 4 ELSE 2)
    /\ UNCHANGED <<yyerrstatus, hexkey>>

\* add_pk_entry()
ReducePk ==
    /\ Reduces({21, 22}) /\ Reduce(Arg(1 - At(yyr2, Rule)))
    /\ cf' = IF Arg(-1).len = 32 THEN [cf EXCEPT !.pk = Added(@, <<Arg(-1).val>>)] ELSE cf
    /\ live' = live - 1
    /\ UNCHANGED <<yyerrstatus, hexkey>>

\* add_cert_entry(); the host nonce and the host key point are freed (mutant: they are not).
CertStringsLeft(full) == 2
CertStringsFreed(full) == IF full THEN 4 ELSE 2
ReduceHc ==
    /\ Reduces(23 .. 26) /\ Reduce(Arg(1 - At(yyr2, Rule)))
    /\ LET full == Rule \in {23, 24}
           key  == Arg(IF full THEN -7 ELSE -3)
           cert == Arg(IF full THEN -5 ELSE -1)
       IN  /\ cf' = IF key.len = 40 /\ cert.len = 184
                    THEN [cf EXCEPT !.hc = Added(@, <<key.val, cert.val>>)] ELSE cf
           /\ live' = live - CertStringsFreed(full)
    /\ UNCHANGED <<yyerrstatus, hexkey>>

\* disc_info: the id is still in hexkey.  Another disc is not kept.
NewEntry == [mk |-> <<>>, vid |-> <<>>, vuk |-> <<>>, uk |-> <<>>]
ReduceDisc ==
    /\ Reduces({35}) /\ Reduce(Arg(-2))
    /\ cf' = IF hexkey.len = 40 /\ hexkey.val \in WantIds
             THEN [cf EXCEPT !.entries = Append(@, NewEntry), !.celist = Len(cf.entries) + 1]
             ELSE [cf EXCEPT !.celist = 0]
    /\ UNCHANGED <<yyerrstatus, hexkey, live>>

\* add_entry()
FieldOf == 49 :> "mk" @@ 50 :> "vid" @@ 55 :> "vuk"
ReduceField ==
    /\ Reduces({49, 50, 55}) /\ Reduce(Arg(-1))
    /\ cf' = IF cf.celist # 0 /\ hexkey.len = 32
             THEN [cf EXCEPT !.entries[cf.celist][FieldOf[Rule]] = hexkey.val] ELSE cf
    /\ UNCHANGED <<yyerrstatus, hexkey, live>>

\* bn_entry, pak_entry, tk_entry, uk_entry: the list is complete (mutant: it stays the list
\* unit keys are added to).
ListGoesOn == cf
ListIsComplete == [cf EXCEPT !.dkplist = 0]
ReduceList ==
    /\ Reduces({51, 56, 60, 64}) /\ Reduce(Arg(-1))
    /\ cf' = ListIsComplete
    /\ UNCHANGED <<yyerrstatus, hexkey, live>>

\* uk_data: new_digit_key_pair_entry() makes nothing of a key of the wrong length; a second
\* list of the same entry is ignored.
ReduceUk ==
    /\ Reduces({67}) /\ Reduce(Arg(-2))
    /\ LET first == cf.dkplist = 0
           n == IF first THEN cf.celist ELSE cf.dkplist
       IN  cf' = IF /\ cf.celist # 0 /\ hexkey.len = 32
                    /\ first => cf.entries[cf.celist].uk = <<>>
                 THEN [cf EXCEPT !.entries[n].uk = Append(@, hexkey.val), !.dkplist = n]
                 ELSE cf
    /\ UNCHANGED <<yyerrstatus, hexkey, live>>

\* hexkey: the pieces are put together in parser_state; one that does not fit is dropped.
Joined(a, b) == [len |-> a.len + b.len, val |-> a.val \o b.val, at |-> 0]
FirstPiece(t) == IF t.len >= MAX_KEY_SIZE THEN None ELSE [t EXCEPT !.at = 0]
ReduceHexkey ==
    /\ Reduces({68, 69}) /\ Reduce(None)
    /\ hexkey' = IF Rule = 69 THEN FirstPiece(Arg(0))
                 ELSE IF hexkey.len + Arg(0).len >= MAX_KEY_SIZE THEN hexkey
                 ELSE Joined(hexkey, Arg(0))
    /\ UNCHANGED <<yyerrstatus, cf, live>>

\* hexstring_list: the pieces are put together in a new string, the old one is freed.
ReduceString ==
    /\ Reduces({70, 71})
    /\ Reduce(IF Rule = 71 THEN [Arg(0) EXCEPT !.at = 0] ELSE Joined(Arg(-1), Arg(0)))
    /\ live' = IF Rule = 71 THEN live + 1 ELSE live
    /\ UNCHANGED <<yyerrstatus, hexkey, cf>>

\* yyerrlab, yyerrlab1: a lookahead that failed right after an error is discarded (mutant:
\* it is kept); the states that cannot shift the error token are popped, without destructors.
KeepLookahead == yychar
Discarded == IF yyerrstatus = 3 THEN YYEMPTY ELSE yychar
OnError(s) == IF At(yypact, s) = YYPACT_NINF THEN 0
              ELSE Entry(yytable, At(yypact, s) + Sym.error, Sym.error)
SyntaxError ==
    /\ Deciding /\ Decision = 0
    /\ yynerrs' = TRUE /\ yyerrstatus' = 3
    /\ LET keep == {n \in 1 .. Len(yyss) : OnError(yyss[n]) > 0}
           n == Max(keep)
       IN  IF (yyerrstatus = 3 /\ yychar = Sym.EOF) \/ keep = {}
           THEN pc' = "done" /\ result' = 1 /\ UNCHANGED <<yychar, stacks>>
           ELSE /\ yychar' = Discarded
                /\ Push(SubSeq(yyss, 1, n), SubSeq(yyvs, 1, n), OnError(yyss[n]), yylval)
    /\ UNCHANGED <<file, scanner, data>>

\* keydbcfg_parse_config(): the parser before a file is opened ...
ParserInit ==
    /\ file = [text |-> <<>>]
    /\ pos = 1 /\ start = "INITIAL" /\ lexed = 0
    /\ yychar = YYEMPTY /\ yylval = None
    /\ pc = "idle" /\ yyss = <<0>> /\ yyvs = <<None>> /\ yyerrstatus = 0 /\ yynerrs = FALSE
    /\ hexkey = None /\ live = 0 /\ result = 1
    /\ cf = [dk |-> <<>>, pk |-> <<>>, hc |-> <<>>, entries |-> <<>>, celist |-> 0, dkplist |-> 0]

\* ... and a new one for file f; cf is the configuration read so far.
NewParse(f) ==
    /\ file' = f
    /\ pos' = 1 /\ start' = "INITIAL" /\ lexed' = 0
    /\ yychar' = YYEMPTY /\ yylval' = None
    /\ pc' = "backup" /\ yyss' = <<0>> /\ yyvs' = <<None>> /\ yyerrstatus' = 0 /\ yynerrs' = FALSE
    /\ hexkey' = None /\ live' = 0 /\ result' = 1
    /\ cf' = [cf EXCEPT !.celist = 0, !.dkplist = 0]

Lex == LexIgnored \/ LexTitle \/ LexNewline \/ LexToken \/ LexEof
Parse == ReadToken \/ Shift \/ SyntaxError
         \/ ReducePlain \/ ReduceError \/ ReduceDk \/ ReducePk \/ ReduceHc \/ ReduceDisc
         \/ ReduceField \/ ReduceList \/ ReduceUk \/ ReduceHexkey \/ ReduceString

-----------------------------------------------------------------------------
(* Properties.                                                             *)

\* The text of a hex string is used before yylex() is called again: yylval.string points
\* into the buffer of the scanner, and only because the states behind a hex string reduce
\* without a lookahead is it copied in time.
TextIsFresh == Reduces(68 .. 71) => Arg(0).at = lexed

\* A file without a syntax error leaves no string of hexstring_list allocated, and no
\* string is freed twice.  (Syntax errors, and the lists of binding nonces, PAKs and title
\* keys, whose rules have no action, do leave strings behind.)
HasForgottenList == \E i \in DOMAIN Text : Text[i].token \in {Sym.BN, Sym.PAK, Sym.TK}
StringsAreFreed ==
    live >= 0 /\ (pc = "done" /\ ~yynerrs /\ ~HasForgottenList => live = 0)
=============================================================================
