-------------------------- MODULE ConfigLoadProofs --------------------------
(***************************************************************************)
(* Proofs about the parser of KEYDB.cfg for every file, whatever its text. *)
(*                                                                         *)
(* Behind a hex string the parser is in one of four states.  The tables    *)
(* say that these are entered only by shifting a hex string, that all      *)
(* four reduce without a lookahead, and that no other state reduces by a   *)
(* rule that uses the text of the string.  So no yylex() comes between.    *)
(***************************************************************************)
EXTENDS ConfigLoad, SequenceTheorems, WellFoundedInduction, TLAPS

States == 0 .. 146
HexStates == {2, 21, 52, 55}

\* The two stacks are sequences of the same length; the one of values may hold anything.
Stacks ==
    /\ yyss \in Seq(States) /\ yyss # <<>>
    /\ yyvs \in Seq(Range(yyvs)) /\ Len(yyvs) = Len(yyss)

\* The text of a hex string on top of the stack, or in the lookahead, is that of the last
\* call of yylex(); another call has not begun.
Fresh ==
    /\ yystate \in HexStates => Last(yyvs).at = lexed /\ pc # "lex"
    /\ yychar = Sym.HEXSTRING => yylval.at = lexed

FInv == Stacks /\ Fresh

-----------------------------------------------------------------------------
(* The tables.                                                             *)

LEMMA HexShift ==
    \A i \in 0 .. YYLAST : At(yytable, i) \in HexStates => At(yycheck, i) = 3
BY DEF YYLAST, At, yytable, yycheck, HexStates

LEMMA HexDefault ==
    \A s \in States : At(yydefact, s) \in 0 .. 71 /\ (At(yydefact, s) \in 68 .. 71 => s \in HexStates)
BY DEF At, yydefact, HexStates, States

LEMMA HexReduce == \A s \in HexStates : At(yypact, s) = YYPACT_NINF
BY DEF At, yypact, HexStates, YYPACT_NINF

LEMMA TableEntries ==
    \A i \in 0 .. YYLAST : /\ At(yytable, i) \in -5 .. 146
                           /\ At(yytable, i) < 0 => At(yytable, i) > -6 /\ At(yycheck, i) = 0 /\ i \in {11, 15}
BY DEF YYLAST, At, yytable, yycheck

LEMMA RuleEntries == \A r \in 1 .. 71 : At(yyr1, r) - YYNTOKENS \in 0 .. 39 /\ At(yyr2, r) \in 0 .. 10
BY DEF At, yyr1, yyr2, YYNTOKENS

LEMMA GotoEntries ==
    \A n \in 0 .. 39 : /\ At(yydefgoto, n) \in States \ HexStates
                       /\ At(yypgoto, n) \in Int \ {11, 15}
                       /\ At(yypgoto, n) + 3 \in 0 .. YYLAST => At(yytable, At(yypgoto, n) + 3) \notin HexStates
BY DEF At, yydefgoto, yypgoto, yytable, YYLAST, States, HexStates

\* A goto never leads to one of the four states, from whichever state.
LEMMA GotoState ==
    ASSUME NEW n \in 0 .. 39, NEW q
    PROVE  Entry(yytable, At(yypgoto, n) + q, q) \in States \ HexStates
<1> DEFINE i == At(yypgoto, n) + q
<1>1. CASE i \in 0 .. YYLAST /\ At(yycheck, i) = q
    <2>1. Entry(yytable, i, q) = At(yytable, i)
        BY <1>1 DEF Entry
    <2>2. At(yytable, i) \notin HexStates
        BY <1>1, HexShift, GotoEntries
    <2>3. ~(At(yytable, i) < 0)
        <3>1. ASSUME At(yytable, i) < 0 PROVE FALSE
            <4>1. q = 0 /\ i \in {11, 15}
                BY <1>1, <3>1, TableEntries
            <4>2. At(yypgoto, n) \in Int \ {11, 15}
                BY GotoEntries
            <4> QED BY <4>1, <4>2
        <3> QED BY <3>1
    <2>4. At(yytable, i) \in -5 .. 146
        BY <1>1, TableEntries
    <2> QED BY <2>1, <2>2, <2>3, <2>4 DEF States
<1>2. CASE ~(i \in 0 .. YYLAST /\ At(yycheck, i) = q)
    <2>1. Entry(yytable, i, q) = 0
        BY <1>2 DEF Entry
    <2> QED BY <2>1 DEF States, HexStates
<1> QED BY <1>1, <1>2

\* What the tables decide: a state or a rule; rules 68 to 71 in the four states only, and
\* to the four states only by shifting a hex string.
LEMMA Decisions ==
    ASSUME yystate \in States
    PROVE  /\ Decision \in -71 .. 146
           /\ Decision \in -71 .. -68 => yystate \in HexStates
           /\ Decision \in HexStates => yychar = Sym.HEXSTRING
<1> DEFINE i == At(yypact, yystate) + yychar
           found == IF NeedsLookahead THEN Entry(yytable, i, yychar) ELSE 0
<1>1. found = 0 \/ (i \in 0 .. YYLAST /\ At(yycheck, i) = yychar /\ found = At(yytable, i))
    BY DEF Entry
<1>2. Decision = IF found = 0 THEN -At(yydefact, yystate) ELSE found
    BY DEF Decision
<1>3. CASE found = 0
    BY <1>2, <1>3, HexDefault DEF HexStates
<1>4. CASE found # 0
    <2>1. found \in -5 .. 146
        BY <1>1, <1>4, TableEntries
    <2>2. found \in HexStates => yychar = 3
        BY <1>1, <1>4, HexShift
    <2> QED BY <1>2, <1>4, <2>1, <2>2 DEF Sym
<1> QED BY <1>3, <1>4

LEMMA ErrorState ==
    ASSUME NEW s, OnError(s) > 0
    PROVE  OnError(s) \in States \ HexStates
<1> DEFINE i == At(yypact, s) + Sym.error
<1>1. OnError(s) = 0 \/ (i \in 0 .. YYLAST /\ At(yycheck, i) = 1 /\ OnError(s) = At(yytable, i))
    BY DEF OnError, Entry, Sym
<1>2. i \in 0 .. YYLAST /\ At(yycheck, i) = 1 /\ OnError(s) = At(yytable, i)
    BY <1>1
<1> QED BY <1>2, HexShift, TableEntries DEF States

-----------------------------------------------------------------------------
(* The stacks.                                                             *)

LEMMA NatOrder == \E R : IsWellFoundedOn(R, Nat) /\ \A x, y \in Nat : x < y => <<x, y>> \in R
<1>1. \A x, y \in Nat : x < y => <<x, y>> \in OpToRel(<, Nat)
    BY DEF OpToRel
<1> QED BY <1>1, NatLessThanWellFounded, Zenon

LEMMA LeastNatural ==
    ASSUME NEW T, T \subseteq Nat, T # {}
    PROVE  \E x \in T : \A y \in T : x <= y
<1>1. PICK R : IsWellFoundedOn(R, Nat) /\ \A x, y \in Nat : x < y => <<x, y>> \in R
    BY NatOrder
<1>2. IsWellFoundedOn(R, Nat)
    BY <1>1
<1>3. PICK x \in T : \A y \in T : ~(<<y, x>> \in R)
    BY <1>2, WFMin
<1>4. ASSUME NEW y \in T PROVE x <= y
    <2>1. x \in Nat /\ y \in Nat
        OBVIOUS
    <2>2. ~(y < x)
        BY <1>1, <1>3, <2>1
    <2> QED BY <2>1, <2>2
<1> QED BY <1>4

LEMMA LargestOf ==
    ASSUME NEW n \in Nat, NEW T, T \subseteq 1 .. n, T # {}
    PROVE  Max(T) \in T /\ \A y \in T : Max(T) >= y
<1> DEFINE U == {n - x : x \in T}
<1>1. U \subseteq Nat /\ U # {}
    <2>1. ASSUME NEW x \in T PROVE n - x \in Nat
        <3>1. x \in 1 .. n
            OBVIOUS
        <3> QED BY <3>1
    <2> QED BY <2>1
<1>2. PICK u \in U : \A w \in U : u <= w
    BY <1>1, LeastNatural
<1>3. PICK x \in T : u = n - x
    OBVIOUS
<1>4. \A y \in T : x >= y
    <2>1. ASSUME NEW y \in T PROVE x >= y
        <3>1. n - x <= n - y
            BY <1>2, <1>3
        <3> QED BY <3>1
    <2> QED BY <2>1
<1> QED BY <1>4 DEF Max

LEMMA WholeSeq == ASSUME NEW V, NEW s \in Seq(V) PROVE SubSeq(s, 1, Len(s)) = s
<1>1. Len(s) \in Nat /\ \A i \in 1 .. Len(s) : s[i] \in V
    BY LenProperties, ElementOfSeq
<1>2. /\ SubSeq(s, 1, Len(s)) \in Seq(V) /\ Len(SubSeq(s, 1, Len(s))) = Len(s)
      /\ \A i \in 1 .. Len(s) : SubSeq(s, 1, Len(s))[i] = s[i]
    BY <1>1, SubSeqProperties
<1> QED BY <1>2, SeqEqual

LEMMA TopIsState == ASSUME Stacks PROVE yystate \in States /\ Len(yyss) \in Nat /\ Len(yyss) > 0
BY LenProperties, EmptySeq DEF Stacks, Last, yystate

\* A push onto a part of the stacks.
LEMMA PushKeeps ==
    ASSUME Stacks, NEW n \in Int, n <= Len(yyss), NEW s \in States, NEW v,
           Push(SubSeq(yyss, 1, n), SubSeq(yyvs, 1, n), s, v)
    PROVE  Stacks' /\ yystate' = s /\ Last(yyvs)' = v /\ pc' # "lex"
<1> DEFINE ss == SubSeq(yyss, 1, n)
           vs == SubSeq(yyvs, 1, n)
           V == Range(yyvs) \cup {v}
<1>0. yyss \in Seq(States) /\ yyvs \in Seq(Range(yyvs)) /\ Len(yyvs) = Len(yyss)
    BY DEF Stacks
<1>1. ss \in Seq(States) /\ vs \in Seq(Range(yyvs)) /\ Len(ss) = Len(vs)
    BY <1>0, SubSeqProperties
<1>2. yyss' = Append(ss, s) /\ yyvs' = Append(vs, v)
    BY DEF Push
<1>3. vs \in Seq(V)
    BY <1>1, SeqMonotonic
<1> HIDE DEF ss, vs
<1>4. yyss' \in Seq(States) /\ Len(yyss') = Len(ss) + 1 /\ yyss'[Len(ss) + 1] = s
    BY <1>1, <1>2, AppendProperties
<1>5. yyvs' \in Seq(V) /\ Len(yyvs') = Len(vs) + 1 /\ yyvs'[Len(vs) + 1] = v
    BY <1>2, <1>3, AppendProperties
<1>6. yyvs' \in Seq(Range(yyvs'))
    BY <1>5, SeqOfRange
<1>7. yyss' # <<>>
    BY <1>1, <1>4, LenProperties, EmptySeq
<1>8. pc' # "lex"
    BY DEF Push
<1> QED BY <1>1, <1>4, <1>5, <1>6, <1>7, <1>8 DEF Stacks, yystate, Last

\* A reduction pops the right-hand side of its rule and never enters one of the four states.
LEMMA ReduceKeeps ==
    ASSUME FInv, Deciding, Rule > 0, NEW v, Reduce(v)
    PROVE  FInv'
<1> DEFINE len == At(yyr2, Rule)
           below == SubSeq(yyss, 1, Len(yyss) - len)
           lhs == At(yyr1, Rule) - YYNTOKENS
           to == Entry(yytable, At(yypgoto, lhs) + Last(below), Last(below))
           next == IF to # 0 THEN to ELSE At(yydefgoto, lhs)
<1>1. Stacks /\ Fresh
    BY DEF FInv
<1>2. Rule \in 1 .. 71
    <2>1. yystate \in States
        BY <1>1, TopIsState
    <2>2. Decision \in -71 .. 146
        BY <2>1, Decisions
    <2> QED BY <2>2 DEF Rule
<1>3. lhs \in 0 .. 39 /\ len \in 0 .. 10
    BY <1>2, RuleEntries
<1>4. next \in States \ HexStates
    BY <1>3, GotoState, GotoEntries
<1>5. Push(below, SubSeq(yyvs, 1, Len(yyss) - len), next, v)
    BY <1>1 DEF Reduce, Stacks
<1>6. Len(yyss) - len \in Int /\ Len(yyss) - len <= Len(yyss)
    BY <1>1, <1>3, TopIsState
<1> HIDE DEF len, next
<1>7. Stacks' /\ yystate' = next
    BY <1>1, <1>4, <1>5, <1>6, PushKeeps
<1>8. UNCHANGED <<yylval, lexed, yychar>>
    BY DEF Reduce, scanner
<1> QED BY <1>1, <1>4, <1>7, <1>8 DEF FInv, Fresh

LEMMA ShiftKeeps == ASSUME FInv, Shift PROVE FInv'
<1>1. Stacks /\ Fresh
    BY DEF FInv
<1>2. Decision \in 1 .. 146 /\ (Decision \in HexStates => yychar = Sym.HEXSTRING)
    <2>1. yystate \in States
        BY <1>1, TopIsState
    <2>2. Decision \in -71 .. 146 /\ (Decision \in HexStates => yychar = Sym.HEXSTRING)
        BY <2>1, Decisions
    <2> QED BY <2>2 DEF Shift
<1>3. SubSeq(yyss, 1, Len(yyss)) = yyss /\ SubSeq(yyvs, 1, Len(yyss)) = yyvs
    BY <1>1, WholeSeq DEF Stacks
<1>4. Push(SubSeq(yyss, 1, Len(yyss)), SubSeq(yyvs, 1, Len(yyss)), Decision, yylval)
    BY <1>3 DEF Shift
<1>5. Stacks' /\ yystate' = Decision /\ Last(yyvs)' = yylval /\ pc' # "lex"
    BY <1>1, <1>2, <1>4, TopIsState, PushKeeps DEF States
<1>6. UNCHANGED <<yylval, lexed>> /\ yychar' = YYEMPTY
    BY DEF Shift, scanner
<1>7. YYEMPTY # Sym.HEXSTRING
    BY DEF YYEMPTY, Sym
<1> QED BY <1>1, <1>2, <1>5, <1>6, <1>7 DEF FInv, Fresh

LEMMA ErrorKeeps == ASSUME FInv, SyntaxError PROVE FInv'
<1> DEFINE keep == {n \in 1 .. Len(yyss) : OnError(yyss[n]) > 0}
<1>1. Stacks /\ Fresh /\ pc = "backup"
    BY DEF FInv, SyntaxError, Deciding
<1>2. UNCHANGED <<yylval, lexed>>
    BY DEF SyntaxError, scanner
<1>3. CASE pc' = "done" /\ UNCHANGED <<yychar, yyss, yyvs>>
    BY <1>1, <1>2, <1>3 DEF FInv, Stacks, Fresh, yystate
<1>4. CASE /\ keep # {} /\ yychar' = Discarded
           /\ Push(SubSeq(yyss, 1, Max(keep)), SubSeq(yyvs, 1, Max(keep)), OnError(yyss[Max(keep)]), yylval)
    <2>1. Max(keep) \in keep
        BY <1>1, <1>4, TopIsState, LargestOf DEF Max
    <2>2. OnError(yyss[Max(keep)]) \in States \ HexStates
        BY <2>1, ErrorState
    <2>3. Max(keep) \in Int /\ Max(keep) <= Len(yyss)
        BY <1>1, <2>1, TopIsState
    <2>4. Stacks' /\ yystate' = OnError(yyss[Max(keep)])
        BY <1>1, <1>4, <2>2, <2>3, PushKeeps
    <2>5. yychar' = Sym.HEXSTRING => yychar = Sym.HEXSTRING
        BY <1>4 DEF Discarded, YYEMPTY, Sym
    <2> QED BY <1>1, <1>2, <2>2, <2>4, <2>5 DEF FInv, Fresh
<1> QED BY <1>3, <1>4 DEF SyntaxError, stacks

-----------------------------------------------------------------------------
(* The steps.                                                              *)

LEMMA ReductionKeeps ==
    ASSUME FInv,
           ReducePlain \/ ReduceError \/ ReduceDk \/ ReducePk \/ ReduceHc \/ ReduceDisc
             \/ ReduceField \/ ReduceList \/ ReduceUk \/ ReduceHexkey \/ ReduceString
    PROVE  FInv'
<1>1. CASE ReducePlain
    BY <1>1, ReduceKeeps DEF ReducePlain
<1>2. CASE ReduceError
    BY <1>2, ReduceKeeps DEF ReduceError, Reduces
<1>3. CASE ReduceDk
    BY <1>3, ReduceKeeps DEF ReduceDk, Reduces
<1>4. CASE ReducePk
    BY <1>4, ReduceKeeps DEF ReducePk, Reduces
<1>5. CASE ReduceHc
    BY <1>5, ReduceKeeps DEF ReduceHc, Reduces
<1>6. CASE ReduceDisc
    BY <1>6, ReduceKeeps DEF ReduceDisc, Reduces
<1>7. CASE ReduceField
    BY <1>7, ReduceKeeps DEF ReduceField, Reduces
<1>8. CASE ReduceList
    BY <1>8, ReduceKeeps DEF ReduceList, Reduces
<1>9. CASE ReduceUk
    BY <1>9, ReduceKeeps DEF ReduceUk, Reduces
<1>10. CASE ReduceHexkey
    BY <1>10, ReduceKeeps DEF ReduceHexkey, Reduces
<1>11. CASE ReduceString
    BY <1>11, ReduceKeeps DEF ReduceString, Reduces
<1> QED BY <1>1, <1>2, <1>3, <1>4, <1>5, <1>6, <1>7, <1>8, <1>9, <1>10, <1>11

\* A call of yylex() begins only in a state that needs a lookahead.
LEMMA ReadKeeps == ASSUME FInv, ReadToken PROVE FInv'
<1>1. yystate \notin HexStates
    BY HexReduce DEF ReadToken, NeedsLookahead
<1>2. yychar' # Sym.HEXSTRING
    BY DEF ReadToken, YYEMPTY, Sym
<1>3. UNCHANGED <<yyss, yyvs>>
    BY DEF ReadToken, stacks
<1> QED BY <1>1, <1>2, <1>3 DEF FInv, Stacks, Fresh, yystate

LEMMA LexKeeps == ASSUME FInv, Lex PROVE FInv'
<1>0. pc = "lex" /\ UNCHANGED <<yyss, yyvs, lexed>> /\ yystate \notin HexStates
    BY DEF FInv, Fresh, Lex, LexIgnored, LexTitle, LexNewline, LexToken, LexEof, Return, stacks
<1>1. yychar' = Sym.HEXSTRING => yylval'.at = lexed
    <2>1. CASE LexIgnored
        BY <2>1 DEF LexIgnored, FInv, Fresh
    <2>2. CASE LexTitle \/ LexNewline \/ LexEof
        BY <2>2 DEF LexTitle, LexNewline, LexEof, Return, NewlineToken, Sym
    <2>3. CASE LexToken
        BY <2>3 DEF LexToken, Return
    <2> QED BY <2>1, <2>2, <2>3 DEF Lex
<1> QED BY <1>0, <1>1 DEF FInv, Stacks, Fresh, yystate

LEMMA NewParseKeeps == ASSUME NEW f, NewParse(f) PROVE FInv'
<1>1. yyss' = <<0>> /\ yyvs' = <<None>> /\ yychar' # Sym.HEXSTRING
    BY DEF NewParse, YYEMPTY, Sym
<1>2. <<0>> \in Seq(States) /\ <<0>> # <<>> /\ <<None>> \in Seq({None}) /\ Len(<<None>>) = Len(<<0>>)
    BY DEF States
<1>3. <<None>> \in Seq(Range(<<None>>))
    BY <1>2, SeqOfRange
<1>4. Last(yyss)' = 0
    BY <1>1 DEF Last
<1> QED BY <1>1, <1>2, <1>3, <1>4 DEF FInv, Stacks, Fresh, yystate, HexStates

LEMMA FreshInit == Init => FInv
<1> SUFFICES ASSUME Init PROVE FInv
    OBVIOUS
<1>1. yyss = <<0>> /\ yyvs = <<None>> /\ yychar # Sym.HEXSTRING
    BY DEF Init, ParserInit, YYEMPTY, Sym
<1>2. <<0>> \in Seq(States) /\ <<0>> # <<>> /\ <<None>> \in Seq({None}) /\ Len(<<None>>) = Len(<<0>>)
    BY DEF States
<1>3. <<None>> \in Seq(Range(<<None>>))
    BY <1>2, SeqOfRange
<1>4. yystate = 0
    BY <1>1 DEF Last, yystate
<1> QED BY <1>1, <1>2, <1>3, <1>4 DEF FInv, Stacks, Fresh, HexStates

LEMMA FreshStep == FInv /\ [Next]_vars => FInv'
<1> SUFFICES ASSUME FInv, [Next]_vars PROVE FInv'
    OBVIOUS
<1>1. CASE UNCHANGED <<yyss, yyvs, yychar, yylval, lexed, pc>>
    BY <1>1 DEF FInv, Stacks, Fresh, yystate
<1>2. CASE OpenFile
    BY <1>1, <1>2, NewParseKeeps DEF OpenFile, parser, scanner, stacks
<1>3. CASE ParseFile
    BY <1>3, LexKeeps, ReadKeeps, ShiftKeeps, ErrorKeeps, ReductionKeeps DEF ParseFile, Parse
<1>4. CASE CloseFile
    <2>1. UNCHANGED <<yyss, yyvs, yychar, yylval, lexed>> /\ pc' = "idle"
        BY <1>4 DEF CloseFile, scanner, stacks
    <2> QED BY <2>1 DEF FInv, Stacks, Fresh, yystate
<1>5. CASE LoadPkFiles \/ LoadCertFiles \/ ParseEmbedded
    BY <1>1, <1>5 DEF LoadPkFiles, LoadCertFiles, ParseEmbedded, Collect, scanner, stacks
<1>6. CASE UNCHANGED vars
    BY <1>1, <1>6 DEF vars, parser, scanner, stacks
<1> QED BY <1>2, <1>3, <1>4, <1>5, <1>6 DEF Next

LEMMA FreshImplies == FInv => TextIsFresh
<1> SUFFICES ASSUME FInv, Reduces(68 .. 71) PROVE Arg(0).at = lexed
    BY DEF TextIsFresh
<1>1. yystate \in States /\ Stacks
    BY TopIsState DEF FInv
<1>2. Decision \in -71 .. 146 /\ (Decision \in -71 .. -68 => yystate \in HexStates)
    BY <1>1, Decisions
<1>3. Decision \in -71 .. -68
    BY <1>2 DEF Reduces, Rule
<1>4. Last(yyvs).at = lexed
    BY <1>2, <1>3 DEF FInv, Fresh
<1>5. Len(yyvs) + 0 = Len(yyvs)
    BY <1>1, TopIsState DEF Stacks
<1> QED BY <1>4, <1>5 DEF Arg, Last

\* Whatever a KEYDB.cfg contains, syntax errors included, the actions of hexkey and
\* hexstring_list copy the text of a hex string before the scanner is called again.
THEOREM TextStaysFresh == Spec => []TextIsFresh
<1>1. Init /\ [][Next]_vars => []FInv
    BY FreshInit, FreshStep, PTL
<1> QED BY <1>1, FreshImplies, PTL DEF Spec
-----------------------------------------------------------------------------
(***************************************************************************)
(* The strings of hexstring_list.  The grammar has no right recursion, so  *)
(* what stands on the stack is known from its top, down to the state in    *)
(* which the right-hand side being read began.  The tables below say what  *)
(* that is; the lemmas check them against the tables of the parser.        *)
(***************************************************************************)

\* For every state: the states that may stand right below it, ...
under == <<
    {}, {0, 8}, {0, 8, 14, 27, 34, 35, 37, 98}, {0, 8}, {0, 8}, {0, 8}, {0, 8}, {0}, {0}, {0},
    {0, 8}, {0, 8}, {0, 8}, {0, 8}, {0}, {0, 8}, {0, 8, 14, 27}, {0, 8, 14, 27}, {1}, {3, 28},
    {3}, {4, 19, 23, 29, 83, 85, 92, 94, 96, 117, 119, 133, 135}, {4}, {5, 30}, {5}, {7}, {8},
    {8}, {14, 27}, {14, 27}, {14, 27}, {14, 27}, {14, 27}, {15, 32, 41, 62}, {15, 32, 41, 62},
    {15, 32, 41, 62}, {15, 32, 41, 62}, {15, 32, 41, 62}, {15, 32, 41, 62}, {15, 32, 41, 62},
    {15, 32, 41, 62}, {15}, {15, 32}, {15, 32, 41, 62}, {15, 32, 41, 62}, {15, 32, 41, 62},
    {15, 32, 41, 62}, {15, 32, 41, 62}, {15, 32, 41, 62}, {15, 32, 41, 62}, {15, 32, 41, 62},
    {16}, {17, 64, 65, 69, 115}, {19}, {20},
    {22, 53, 57, 60, 100, 103, 109, 111, 113, 126, 128, 139, 141}, {22}, {23}, {24}, {28}, {29},
    {30}, {32}, {33}, {34}, {35}, {36, 93}, {36}, {36}, {37}, {38, 95}, {38}, {38}, {39, 97},
    {39}, {39}, {40, 99}, {40}, {40}, {41}, {41, 62}, {51}, {51}, {54, 87}, {54}, {58, 89},
    {58}, {59}, {60}, {61}, {62}, {63}, {66}, {67}, {70}, {71}, {73}, {74}, {76}, {77}, {83},
    {84}, {84}, {85}, {86}, {86}, {87}, {89}, {91}, {92}, {93}, {94}, {95}, {96}, {97}, {98},
    {99}, {101, 121}, {101}, {104, 123}, {104}, {106}, {106}, {107}, {107}, {108}, {117}, {118},
    {119}, {120}, {121}, {123}, {125}, {127, 137}, {127}, {129, 138}, {129}, {130}, {131},
    {133}, {134}, {135}, {136}, {137}, {138}, {143}, {144}>>
\* ... the nonterminal that is being read (counted from YYNTOKENS), ...
phrase == <<
    0, 3, 38, 4, 9, 10, 16, 0, 1, 2, 3, 3, 3, 3, 1, 15, 17, 18, 3, 5, 4, 39, 9, 11, 10, 0, 2, 1,
    4, 9, 10, 16, 15, 22, 23, 24, 25, 28, 29, 32, 35, 15, 20, 21, 21, 21, 21, 21, 21, 21, 21,
    17, 38, 5, 4, 39, 9, 11, 10, 4, 9, 10, 15, 22, 23, 24, 27, 25, 26, 28, 31, 29, 30, 34, 32,
    33, 37, 35, 36, 15, 20, 19, 17, 6, 4, 12, 10, 4, 9, 10, 15, 22, 27, 26, 31, 30, 34, 33, 37,
    36, 6, 4, 4, 12, 10, 10, 4, 10, 22, 27, 26, 31, 30, 34, 33, 37, 36, 7, 4, 13, 10, 4, 4, 10,
    10, 22, 7, 4, 13, 10, 4, 10, 22, 8, 4, 14, 10, 4, 10, 8, 4, 14, 10, 4, 10, 4, 10>>
\* ... how many symbols of it have been read, ...
dot == <<
    0, 1, 1, 1, 1, 1, 1, 1, 1, 1, 1, 1, 1, 1, 1, 1, 1, 1, 2, 1, 2, 1, 2, 1, 2, 2, 2, 2, 2, 2, 2,
    2, 2, 1, 1, 1, 1, 1, 1, 1, 1, 2, 1, 1, 1, 1, 1, 1, 1, 1, 1, 2, 2, 2, 3, 2, 3, 2, 3, 3, 3, 3,
    3, 2, 2, 2, 1, 2, 1, 2, 1, 2, 1, 1, 2, 1, 1, 2, 1, 3, 2, 1, 3, 1, 4, 1, 4, 4, 4, 4, 4, 3, 2,
    2, 2, 2, 2, 2, 2, 2, 2, 5, 5, 2, 5, 5, 5, 5, 4, 3, 3, 3, 3, 3, 3, 3, 3, 1, 6, 1, 6, 6, 6, 6,
    6, 5, 2, 7, 2, 7, 7, 7, 6, 1, 8, 1, 8, 8, 8, 2, 9, 2, 9, 9, 9, 10, 10>>
\* ... how many entries the stack has at most, and how many strings of hexstring_list
\* its values own (states 21 and 55, which many rules share, are left out).
level == <<
    1, 3, 11, 3, 3, 3, 3, 2, 2, 2, 3, 3, 3, 3, 2, 3, 4, 4, 4, 5, 4, 12, 4, 5, 4, 3, 3, 3, 4, 4,
    4, 4, 4, 6, 6, 6, 6, 6, 6, 6, 6, 4, 5, 6, 6, 6, 6, 6, 6, 6, 6, 5, 12, 6, 5, 13, 5, 6, 5, 5,
    5, 5, 5, 7, 7, 7, 9, 7, 7, 7, 9, 7, 7, 9, 7, 7, 9, 7, 7, 5, 6, 6, 6, 7, 6, 7, 6, 6, 6, 6, 6,
    8, 10, 8, 10, 8, 10, 8, 10, 8, 8, 7, 7, 8, 7, 7, 7, 7, 9, 11, 9, 11, 9, 11, 9, 11, 9, 9, 8,
    9, 8, 8, 8, 8, 8, 10, 10, 9, 10, 9, 9, 9, 11, 11, 10, 11, 10, 10, 10, 12, 11, 12, 11, 11,
    11, 12, 12>>
held == <<
    0, 0, 0, 0, 0, 0, 0, 0, 0, 0, 0, 0, 0, 0, 0, 0, 0, 0, 0, 0, 1, 0, 1, 0, 1, 0, 0, 0, 0, 0, 0,
    0, 0, 0, 0, 0, 0, 0, 0, 0, 0, 0, 0, 0, 0, 0, 0, 0, 0, 0, 0, 0, 0, 1, 1, 0, 1, 1, 1, 1, 1, 1,
    0, 0, 0, 0, 0, 0, 0, 0, 0, 0, 0, 0, 0, 0, 0, 0, 0, 0, 0, 0, 0, 1, 2, 1, 2, 1, 1, 1, 0, 0, 0,
    0, 0, 0, 0, 0, 0, 0, 2, 2, 2, 2, 2, 2, 2, 2, 0, 1, 0, 1, 0, 1, 0, 0, 0, 2, 3, 2, 3, 2, 2, 2,
    2, 0, 3, 3, 3, 3, 3, 3, 0, 3, 4, 3, 4, 3, 3, 4, 4, 4, 4, 4, 4, 4, 4>>
\* For every nonterminal: the states in which it may begin.
begins == <<
    {0}, {0}, {0}, {0, 8}, {0, 8}, {3, 28}, {54, 87}, {101, 121}, {127, 137}, {0, 8}, {0, 8},
    {5, 30}, {58, 89}, {104, 123}, {129, 138}, {0, 8}, {0, 8}, {0, 8, 14, 27}, {0, 8, 14, 27},
    {51}, {15, 32}, {15, 32, 41, 62}, {15, 32, 41, 62}, {15, 32, 41, 62}, {15, 32, 41, 62},
    {15, 32, 41, 62}, {36}, {36, 93}, {15, 32, 41, 62}, {15, 32, 41, 62}, {38}, {38, 95},
    {15, 32, 41, 62}, {39}, {39, 97}, {15, 32, 41, 62}, {40}, {40, 99},
    {0, 8, 14, 27, 34, 35, 37, 98}, {4, 19, 23, 29, 83, 85, 92, 94, 96, 117, 119, 133, 135}>>
\* The states inside the lists of binding nonces, PAKs and title keys.
ForgottenStates == {
    36, 38, 39, 66, 67, 68, 70, 71, 72, 73, 74, 75, 92, 93, 94, 95, 96, 97, 109, 110, 111, 112,
    113, 114}

Under(s) == At(under, s)
Dot(s)   == At(dot, s)
Level(s) == At(level, s)
Held(s)  == At(held, s)
Start(s) == At(begins, At(phrase, s))
Goto(a, n) ==
    LET to == Entry(yytable, At(yypgoto, n) + a, a) IN IF to # 0 THEN to ELSE At(yydefgoto, n)

\* The strings that the value of a nonterminal owns, and those that a rule gives up: its
\* action frees them or, for the three lists, forgets them.
Value(n) == IF n \in (5 .. 8) \cup (11 .. 14) \cup {39} THEN 1 ELSE 0
GivenUp(r) == IF r \in {13, 15, 23, 24} THEN 4
              ELSE IF r \in {14, 16, 25, 26} THEN 2
              ELSE IF r \in {21, 22, 54, 59, 63} THEN 1 ELSE 0

\* Every state stands where the tables say.
Linked == \A i \in 1 .. Len(yyss) :
    /\ i <= Level(yyss[i]) /\ i > Dot(yyss[i])
    /\ yyss[i - Dot(yyss[i])] \in Start(yyss[i])
    /\ i > 1 => yyss[i - 1] \in Under(yyss[i])

\* The strings that the values on the stack own.
Strings == IF yystate = 21 THEN Held(yyss[Len(yyss) - 1])
           ELSE IF yystate = 55 THEN Held(yyss[Len(yyss) - 2]) + 1 ELSE Held(yystate)

\* All strings of the stack are allocated, and without errors and forgotten lists no others.
Counted == /\ live \in Int /\ live >= Strings
           /\ ~yynerrs /\ ~HasForgottenList => live = Strings

\* yyparse() accepts in YYFINAL, and it ends nowhere else unless there was an error.
Ended == /\ yystate = YYFINAL => pc \in {"done", "idle"}
         /\ pc = "done" /\ ~yynerrs => yystate = YYFINAL

\* A file without the forgotten lists never leads into their states.
Forgotten == {Sym.BN, Sym.PAK, Sym.TK}
Unlisted == ~HasForgottenList => /\ \A i \in 1 .. Len(yyss) : yyss[i] \notin ForgottenStates
                                 /\ yychar \notin Forgotten

Tokens == 0 .. YYNTOKENS - 1
Scanned == /\ Text \in Seq(Range(Text)) /\ \A i \in DOMAIN Text : Text[i].token \in Tokens
           /\ pos \in Nat \ {0} /\ yychar \in {YYEMPTY} \cup Tokens
           /\ setup \in Setups /\ src \in Nat \ {0}

SInv == Stacks /\ Linked /\ Scanned /\ Ended /\ Unlisted /\ Counted

LEMMA UnderStates == \A b \in States : \A a \in Under(b) : a \in States /\ Level(a) < Level(b)
BY DEF States, At, Under, under, Level, level

LEMMA StateRange ==
    \A s \in States : /\ Dot(s) \in 0 .. 10 /\ Level(s) \in 1 .. 13 /\ Held(s) \in 0 .. 4
                      /\ At(phrase, s) \in 0 .. 39
BY DEF States, At, Dot, dot, Level, level, Held, held, phrase

LEMMA ActionEntries == \A s \in States : At(yypact, s) \in Int
BY DEF States, At, yypact

LEMMA BeginStates == \A n \in 0 .. 39 : At(begins, n) \subseteq States
BY DEF States, At, begins

\* A symbol is the first of its right-hand side, or the next one.
LEMMA FirstSymbol == \A b \in States : \A a \in Under(b) : Dot(b) = 1 => a \in Start(b)
BY DEF States, At, Under, under, Dot, dot, phrase, Start, begins

LEMMA NextSymbol ==
    \A b \in States : \A a \in Under(b) : Dot(b) # 1 =>
        \/ Dot(b) = Dot(a) + 1 /\ Start(a) \subseteq Start(b)
        \/ Dot(b) = 2 /\ Dot(a) >= 1 /\ Under(a) \subseteq Start(b)
BY DEF States, At, Under, under, Dot, dot, phrase, Start, begins

\* Shifts.
Shifts(s, i) == At(yypact, s) + At(yycheck, i) = i /\ At(yycheck, i) \in Tokens /\ At(yytable, i) > 0

LEMMA ShiftUnder == \A s \in States : \A i \in 0 .. YYLAST : Shifts(s, i) => s \in Under(At(yytable, i))
BY DEF States, YYLAST, Shifts, Tokens, YYNTOKENS, At, yypact, yytable, yycheck, Under, under

LEMMA ShiftHeld ==
    \A s \in States : \A i \in 0 .. YYLAST :
        Shifts(s, i) /\ At(yytable, i) \notin {21, 55} => Held(At(yytable, i)) = Held(s)
BY DEF States, YYLAST, Shifts, Tokens, YYNTOKENS, At, yypact, yytable, yycheck, Held, held

LEMMA ShiftListed ==
    \A s \in States \ ForgottenStates : \A i \in 0 .. YYLAST :
        Shifts(s, i) /\ At(yytable, i) \in ForgottenStates => At(yycheck, i) \in {23, 25, 26}
BY DEF States, YYLAST, Shifts, Tokens, YYNTOKENS, At, yypact, yytable, yycheck, ForgottenStates

\* The second piece of a string.
LEMMA PieceHeld == \A s \in Under(55) : Dot(s) >= 1 /\ \A a \in Under(s) : Held(s) = Held(a) + 1
BY DEF At, Under, under, Held, held, Dot, dot

\* Gotos.
LEMMA GotoUnder == \A n \in 1 .. 39 : \A a \in At(begins, n) : a \in Under(Goto(a, n))
BY DEF YYLAST, At, yytable, yycheck, Under, under, Goto, Entry, yypgoto, yydefgoto, begins

LEMMA GotoHeld == \A n \in 1 .. 39 : \A a \in At(begins, n) : Held(Goto(a, n)) = Held(a) + Value(n)
BY DEF YYLAST, At, yytable, yycheck, Goto, Entry, yypgoto, yydefgoto, begins, Held, held, Value

LEMMA GotoListed ==
    \A n \in 1 .. 39 : \A a \in At(begins, n) \ ForgottenStates : Goto(a, n) \notin ForgottenStates
BY DEF YYLAST, At, yytable, yycheck, Goto, Entry, yypgoto, yydefgoto, begins, ForgottenStates

\* Reductions: what a state owes when it reduces by rule r.
Completes(s, r) ==
    LET n == At(yyr1, r) - YYNTOKENS
    IN  /\ n \in 1 .. 39 /\ At(yyr2, r) = Dot(s) /\ Start(s) \subseteq At(begins, n)
        /\ s \notin {21, 55} => \A a \in Start(s) : Held(s) = Held(a) + Value(n) + GivenUp(r)
        /\ s = 21 => r = 71 /\ n = 39
        /\ s = 55 => r = 70 /\ n = 39
        /\ r = 71 => s = 21
        /\ r \in {54, 59, 63} => s \in ForgottenStates

LEMMA DefaultRules ==
    \A s \in States \ {YYFINAL} : At(yydefact, s) # 0 =>
        /\ At(yydefact, s) \in 2 .. 71
        /\ At(yyr1, At(yydefact, s)) - YYNTOKENS = At(phrase, s) /\ At(phrase, s) # 0
        /\ At(yyr2, At(yydefact, s)) = Dot(s)
        /\ At(yydefact, s) \in {54, 59, 63} => s \in ForgottenStates
BY DEF States, YYFINAL, At, yydefact, yyr1, yyr2, YYNTOKENS, phrase, Dot, dot, ForgottenStates

LEMMA DefaultHeld ==
    \A s \in States \ {YYFINAL, 21, 55} : At(yydefact, s) # 0 =>
        /\ \A a \in Start(s) : Held(s) = Held(a) + Value(At(phrase, s)) + GivenUp(At(yydefact, s))
        /\ At(yydefact, s) # 71
BY DEF States, YYFINAL, At, Start, phrase, begins, yydefact, Held, held, Value, GivenUp

LEMMA DefaultCompletes ==
    ASSUME NEW s \in States \ {YYFINAL}, At(yydefact, s) # 0
    PROVE  Completes(s, At(yydefact, s))
<1>1. s \in {21, 55} => At(phrase, s) = 39 /\ At(yydefact, s) = IF s = 21 THEN 71 ELSE 70
    BY DEF At, phrase, yydefact
<1>2. At(phrase, s) \in 0 .. 39 /\ Start(s) = At(begins, At(phrase, s))
    BY StateRange DEF Start
<1> QED BY <1>1, <1>2, DefaultRules, DefaultHeld DEF Completes

\* The two rules that the table chooses at the end of the file.
LEMMA EndCompletes == Completes(0, 5) /\ Completes(8, 3)
<1>1. Start(0) = {0} /\ Start(8) = {0} /\ Held(0) = 0 /\ Held(8) = 0 /\ Dot(0) = 0 /\ Dot(8) = 1
    BY DEF Start, At, begins, phrase, Held, held, Dot, dot
<1>2. /\ At(yyr1, 5) - YYNTOKENS = 1 /\ At(yyr1, 3) - YYNTOKENS = 1 /\ At(begins, 1) = {0}
      /\ At(yyr2, 5) = 0 /\ At(yyr2, 3) = 1
    BY DEF At, yyr1, yyr2, YYNTOKENS, begins
<1> QED BY <1>1, <1>2 DEF Completes, Value, GivenUp

LEMMA EndRules ==
    /\ \A s \in States : (At(yypact, s) = 11 => s = 0) /\ (At(yypact, s) = 15 => s = 8)
    /\ At(yytable, 11) = -5 /\ At(yytable, 15) = -3
BY DEF States, At, yypact, yytable

LEMMA RuleCompletes ==
    ASSUME yystate \in States \ {YYFINAL}, Rule > 0
    PROVE  Completes(yystate, Rule)
<1> DEFINE i == At(yypact, yystate) + yychar
           found == IF NeedsLookahead THEN Entry(yytable, i, yychar) ELSE 0
<1>1. found = 0 \/ (i \in 0 .. YYLAST /\ At(yycheck, i) = yychar /\ found = At(yytable, i))
    BY DEF Entry
<1>2. Decision = IF found = 0 THEN -At(yydefact, yystate) ELSE found
    BY DEF Decision
<1>3. Decision \in -71 .. 146 /\ At(yydefact, yystate) \in 0 .. 71
    BY Decisions, HexDefault
<1>4. CASE found = 0
    <2>1. Rule = At(yydefact, yystate) /\ At(yydefact, yystate) # 0
        BY <1>2, <1>3, <1>4 DEF Rule
    <2> QED BY <2>1, DefaultCompletes
<1>5. CASE found # 0
    <2>1. found < 0 /\ Rule = -found
        BY <1>2, <1>3, <1>5 DEF Rule
    <2>2. At(yycheck, i) = 0 /\ i \in {11, 15} /\ yychar = 0
        BY <1>1, <1>5, <2>1, TableEntries
    <2>3. At(yypact, yystate) \in Int
        BY DEF States, At, yypact
    <2>4. At(yypact, yystate) = i
        BY <2>2, <2>3
    <2>5. (yystate = 0 /\ Rule = 5) \/ (yystate = 8 /\ Rule = 3)
        BY <1>1, <1>5, <2>1, <2>2, <2>4, EndRules
    <2> QED BY <2>5, EndCompletes
<1> QED BY <1>4, <1>5

-----------------------------------------------------------------------------
(* The stack stays linked.                                                 *)

\* A state is pushed onto the first n entries, behind one that may stand below it.
LEMMA PushLinks ==
    ASSUME Stacks, Linked, NEW n \in 1 .. Len(yyss), NEW s \in States, yyss[n] \in Under(s), NEW v,
           Push(SubSeq(yyss, 1, n), SubSeq(yyvs, 1, n), s, v)
    PROVE  /\ Stacks' /\ Linked' /\ yystate' = s
           /\ Len(yyss') = n + 1 /\ yyss'[n + 1] = s /\ \A i \in 1 .. n : yyss'[i] = yyss[i]
           /\ pc' = IF s = YYFINAL THEN "done" ELSE "backup"
<1> DEFINE a == yyss[n]
<1>0. Len(yyss) \in Nat /\ n \in Nat /\ n >= 1 /\ n <= Len(yyss) /\ yyss \in Seq(States)
    BY TopIsState DEF Stacks
<1>1. Stacks' /\ yystate' = s
    BY <1>0, PushKeeps
<1>2. /\ SubSeq(yyss, 1, n) \in Seq(States) /\ Len(SubSeq(yyss, 1, n)) = n
      /\ \A i \in 1 .. n : SubSeq(yyss, 1, n)[i] = yyss[i]
    BY <1>0, SubSeqProperties
<1>3. yyss' = Append(SubSeq(yyss, 1, n), s)
    BY DEF Push
<1>4. Len(yyss') = n + 1 /\ yyss'[n + 1] = s /\ \A i \in 1 .. n : yyss'[i] = yyss[i]
    BY <1>2, <1>3, AppendProperties
<1>5. a \in States /\ \A i \in 1 .. n : yyss[i] \in States
    BY <1>0, ElementOfSeq
<1>6. n <= Level(a) /\ n > Dot(a) /\ yyss[n - Dot(a)] \in Start(a) /\ (n > 1 => yyss[n - 1] \in Under(a))
    BY DEF Linked
<1>7. /\ Dot(a) \in 0 .. 10 /\ Dot(s) \in 0 .. 10 /\ Level(a) \in Int /\ Level(s) \in 1 .. 13
      /\ Level(a) < Level(s)
    BY <1>5, StateRange, UnderStates
<1>8. n + 1 > Dot(s) /\ yyss'[n + 1 - Dot(s)] \in Start(s)
    <2>1. CASE Dot(s) = 1
        BY <1>0, <1>4, <2>1, FirstSymbol
    <2>2. CASE Dot(s) = Dot(a) + 1 /\ Start(a) \subseteq Start(s)
        <3>1. n + 1 - Dot(s) = n - Dot(a) /\ n - Dot(a) \in 1 .. n
            BY <1>0, <1>6, <1>7, <2>2
        <3>2. yyss'[n + 1 - Dot(s)] = yyss[n - Dot(a)]
            BY <1>4, <3>1
        <3>3. yyss[n - Dot(a)] \in Start(s)
            BY <1>6, <2>2
        <3>4. n + 1 > Dot(s)
            BY <1>0, <1>7, <3>1
        <3> QED BY <3>2, <3>3, <3>4
    <2>3. CASE Dot(s) = 2 /\ Dot(a) >= 1 /\ Under(a) \subseteq Start(s)
        <3>1. n + 1 - Dot(s) = n - 1 /\ n - 1 \in 1 .. n /\ n > 1
            BY <1>0, <1>6, <1>7, <2>3
        <3>2. yyss'[n + 1 - Dot(s)] = yyss[n - 1]
            BY <1>4, <3>1
        <3>3. yyss[n - 1] \in Start(s)
            BY <1>6, <2>3, <3>1
        <3>4. n + 1 > Dot(s)
            BY <1>0, <1>7, <3>1
        <3> QED BY <3>2, <3>3, <3>4
    <2> QED BY <2>1, <2>2, <2>3, NextSymbol
<1>9. Linked'
    <2> SUFFICES ASSUME NEW i \in 1 .. n + 1
                 PROVE  /\ i <= Level(yyss'[i]) /\ i > Dot(yyss'[i])
                        /\ yyss'[i - Dot(yyss'[i])] \in Start(yyss'[i])
                        /\ i > 1 => yyss'[i - 1] \in Under(yyss'[i])
        BY <1>4 DEF Linked
    <2>1. CASE i = n + 1
        <3>1. yyss'[i] = s /\ i - 1 = n /\ yyss'[n] = a
            BY <1>0, <1>4, <2>1
        <3>2. n + 1 <= Level(s)
            BY <1>0, <1>6, <1>7
        <3>3. yyss'[n] \in Under(s) /\ yyss'[n + 1] = s
            BY <1>4, <3>1
        <3>4. i <= Level(yyss'[i]) /\ i > Dot(yyss'[i])
            BY <1>8, <2>1, <3>1, <3>2
        <3>5. yyss'[i - Dot(yyss'[i])] \in Start(yyss'[i])
            <4>1. Dot(yyss'[i]) = Dot(s) /\ Start(yyss'[i]) = Start(s)
                BY <3>1
            <4>2. i - Dot(s) = n + 1 - Dot(s)
                BY <1>0, <1>7, <2>1
            <4> QED BY <1>8, <4>1, <4>2, Zenon
        <3>6. yyss'[i - 1] \in Under(yyss'[i])
            BY <3>1, <3>3
        <3> QED BY <3>4, <3>5, <3>6
    <2>2. CASE i \in 1 .. n
        <3>1. /\ yyss'[i] = yyss[i] /\ i <= Level(yyss[i]) /\ i > Dot(yyss[i])
              /\ yyss[i - Dot(yyss[i])] \in Start(yyss[i]) /\ (i > 1 => yyss[i - 1] \in Under(yyss[i]))
            BY <1>0, <1>4, <2>2 DEF Linked
        <3>2. Dot(yyss[i]) \in 0 .. 10
            BY <1>5, <2>2, StateRange
        <3>3. i - Dot(yyss[i]) \in 1 .. n /\ (i > 1 => i - 1 \in 1 .. n)
            BY <1>0, <2>2, <3>1, <3>2
        <3> QED BY <1>4, <3>1, <3>3
    <2> QED BY <1>0, <2>1, <2>2
<1>10. pc' = IF s = YYFINAL THEN "done" ELSE "backup"
    <2>1. n + 1 < YYMAXDEPTH
        BY <1>0, <1>6, <1>7 DEF YYMAXDEPTH
    <2> QED BY <1>0, <1>2, <2>1 DEF Push, YYMAXDEPTH
<1> QED BY <1>1, <1>4, <1>9, <1>10

\* A reduction: it uncovers a state in which the nonterminal may begin.
LEMMA ReduceLinks ==
    ASSUME Stacks, Linked, Ended, Deciding, Rule > 0, NEW v, Reduce(v)
    PROVE  \E n \in 1 .. Len(yyss) :
              LET k == At(yyr1, Rule) - YYNTOKENS
                  to == Goto(yyss[n], k)
              IN  /\ n = Len(yyss) - Dot(yystate) /\ yyss[n] \in Start(yystate)
                  /\ Completes(yystate, Rule) /\ yyss[n] \in At(begins, k)
                  /\ to \in States \ HexStates /\ yyss[n] \in Under(to)
                  /\ Push(SubSeq(yyss, 1, n), SubSeq(yyvs, 1, n), to, v)
<1> DEFINE k == At(yyr1, Rule) - YYNTOKENS
           n == Len(yyss) - Dot(yystate)
           to == Goto(yyss[n], k)
<1>1. yystate \in States \ {YYFINAL} /\ Len(yyss) \in Nat /\ Len(yyss) > 0 /\ yystate = yyss[Len(yyss)]
    BY TopIsState DEF Ended, Deciding, yystate, Last
<1>2. Completes(yystate, Rule)
    BY <1>1, RuleCompletes
<1>3. k \in 1 .. 39 /\ At(yyr2, Rule) = Dot(yystate) /\ Start(yystate) \subseteq At(begins, k)
    BY <1>2 DEF Completes
<1>4. Len(yyss) > Dot(yystate) /\ yyss[n] \in Start(yystate) /\ Dot(yystate) \in 0 .. 10
    BY <1>1, StateRange DEF Linked
<1>5. n \in 1 .. Len(yyss)
    BY <1>1, <1>4
<1>6. yyss[n] \in Under(to)
    BY <1>3, <1>4, GotoUnder
<1>7. to \in States \ HexStates
    <2> HIDE DEF k, n
    <2>1. k \in 0 .. 39
        BY <1>3
    <2>2. Entry(yytable, At(yypgoto, k) + yyss[n], yyss[n]) \in States \ HexStates
        BY <2>1, GotoState
    <2>3. At(yydefgoto, k) \in States \ HexStates
        BY <2>1, GotoEntries
    <2> QED BY <2>2, <2>3 DEF Goto
<1>8. /\ Len(SubSeq(yyss, 1, n)) = n /\ SubSeq(yyss, 1, n)[n] = yyss[n]
      /\ SubSeq(yyss, 1, n) \in Seq(States)
    BY <1>5, SubSeqProperties DEF Stacks
<1>9. Last(SubSeq(yyss, 1, n)) = yyss[n]
    BY <1>8 DEF Last
<1>10. Len(yyvs) - At(yyr2, Rule) = n /\ Len(yyss) - At(yyr2, Rule) = n
    BY <1>3 DEF Stacks
<1>11. Push(SubSeq(yyss, 1, n), SubSeq(yyvs, 1, n), to, v)
    BY <1>9, <1>10 DEF Reduce, Goto
<1> QED BY <1>2, <1>3, <1>4, <1>5, <1>6, <1>7, <1>11

\* The values own no negative number of strings.
LEMMA StringsRange == ASSUME Stacks, Linked PROVE Strings \in 0 .. 5 /\ (yystate = YYFINAL => Strings = 0)
<1>1. Len(yyss) \in Nat /\ Len(yyss) > 0 /\ yystate \in States /\ yystate = yyss[Len(yyss)]
    BY TopIsState DEF yystate, Last
<1>2. \A i \in 1 .. Len(yyss) : yyss[i] \in States /\ Held(yyss[i]) \in 0 .. 4
    BY StateRange, ElementOfSeq DEF Stacks
<1>3. Len(yyss) > Dot(yystate)
    BY <1>1 DEF Linked
<1>4. Dot(21) = 1 /\ Dot(55) = 2 /\ Held(YYFINAL) = 0
    BY DEF At, Dot, dot, Held, held, YYFINAL
<1>5. CASE yystate = 21
    <2>1. Len(yyss) - 1 \in 1 .. Len(yyss)
        BY <1>1, <1>3, <1>4, <1>5
    <2> QED BY <1>2, <1>5, <2>1 DEF Strings, YYFINAL
<1>6. CASE yystate = 55
    <2>1. Len(yyss) - 2 \in 1 .. Len(yyss)
        BY <1>1, <1>3, <1>4, <1>6
    <2> QED BY <1>2, <1>6, <2>1 DEF Strings, YYFINAL
<1>7. CASE yystate \notin {21, 55}
    BY <1>1, <1>4, <1>7, StateRange DEF Strings
<1> QED BY <1>5, <1>6, <1>7

\* What a push leaves true.
LEMMA PushEnds ==
    ASSUME NEW s \in States, yystate' = s, pc' = IF s = YYFINAL THEN "done" ELSE "backup"
    PROVE  Ended'
BY DEF Ended

LEMMA PushUnlisted ==
    ASSUME Stacks, Unlisted, NEW n \in 1 .. Len(yyss), NEW s \in States,
           Len(yyss') = n + 1, yyss'[n + 1] = s, \A i \in 1 .. n : yyss'[i] = yyss[i],
           UNCHANGED file, yychar' \in {yychar, YYEMPTY},
           ~HasForgottenList => s \notin ForgottenStates
    PROVE  Unlisted'
<1>1. HasForgottenList' <=> HasForgottenList
    BY DEF HasForgottenList, Text
<1>2. ASSUME ~HasForgottenList
      PROVE  (\A i \in 1 .. Len(yyss') : yyss'[i] \notin ForgottenStates) /\ yychar' \notin Forgotten
    <2>1. \A i \in 1 .. n : yyss[i] \notin ForgottenStates
        BY <1>2, TopIsState DEF Unlisted
    <2>2. yychar' \notin Forgotten
        BY <1>2 DEF Unlisted, Forgotten, Sym, YYEMPTY
    <2>3. n \in Nat
        BY TopIsState
    <2> QED BY <1>2, <2>1, <2>2, <2>3
<1> QED BY <1>1, <1>2 DEF Unlisted

LEMMA StillScanned ==
    ASSUME Scanned, UNCHANGED <<file, pos, setup, src>>, yychar' \in {yychar, YYEMPTY}
    PROVE  Scanned'
BY DEF Scanned, Text

\* The strings of the stack before and after a reduction.
Gain(r) == IF r = 71 THEN 1 ELSE -GivenUp(r)

LEMMA ReduceStrings ==
    ASSUME SInv, Deciding, Rule > 0, NEW v, Reduce(v), UNCHANGED <<setup, src>>
    PROVE  /\ Stacks' /\ Linked' /\ Scanned' /\ Ended' /\ Unlisted'
           /\ Strings' = Strings + Gain(Rule)
           /\ Rule \in {54, 59, 63} => HasForgottenList
           /\ UNCHANGED <<file, yynerrs>>
<1> DEFINE k == At(yyr1, Rule) - YYNTOKENS
<1>0. Stacks /\ Linked /\ Scanned /\ Ended /\ Unlisted
    BY DEF SInv
<1>1. PICK n \in 1 .. Len(yyss) :
              /\ n = Len(yyss) - Dot(yystate) /\ yyss[n] \in Start(yystate)
              /\ Completes(yystate, Rule) /\ yyss[n] \in At(begins, k)
              /\ Goto(yyss[n], k) \in States \ HexStates /\ yyss[n] \in Under(Goto(yyss[n], k))
              /\ Push(SubSeq(yyss, 1, n), SubSeq(yyvs, 1, n), Goto(yyss[n], k), v)
    BY <1>0, ReduceLinks
<1> DEFINE a == yyss[n]
           to == Goto(a, k)
<1>2. /\ Stacks' /\ Linked' /\ yystate' = to
      /\ Len(yyss') = n + 1 /\ yyss'[n + 1] = to /\ (\A i \in 1 .. n : yyss'[i] = yyss[i])
      /\ pc' = IF to = YYFINAL THEN "done" ELSE "backup"
    BY <1>0, <1>1, PushLinks
<1>3. UNCHANGED <<file, pos, yychar, yynerrs>>
    BY DEF Reduce, scanner
<1>4. Scanned'
    BY <1>0, <1>3, StillScanned
<1>5. Ended'
    BY <1>1, <1>2, PushEnds
<1>6. /\ k \in 1 .. 39 /\ yystate = yyss[Len(yyss)] /\ yystate \in States
      /\ Len(yyss) \in Nat /\ Len(yyss) > 0
    BY <1>0, <1>1, TopIsState DEF Completes, yystate, Last
<1>7. ~HasForgottenList => a \notin ForgottenStates /\ yystate \notin ForgottenStates
    BY <1>0, <1>6 DEF Unlisted
<1>8. ~HasForgottenList => to \notin ForgottenStates
    BY <1>1, <1>6, <1>7, GotoListed
<1>9. Unlisted'
    BY <1>0, <1>1, <1>2, <1>3, <1>8, PushUnlisted
<1>10. Rule \in {54, 59, 63} => HasForgottenList
    BY <1>1, <1>7 DEF Completes
<1>11. Strings' = Held(a) + Value(k)
    <2>1. to \notin {21, 55}
        BY <1>1 DEF HexStates
    <2>2. Held(to) = Held(a) + Value(k)
        BY <1>1, <1>6, GotoHeld
    <2> QED BY <1>2, <2>1, <2>2 DEF Strings
<1>12. Held(a) \in Int /\ Rule \in Int /\ GivenUp(Rule) \in Int /\ Value(k) \in Int
    <2>1. a \in States
        BY <1>0, ElementOfSeq DEF Stacks
    <2>2. Rule \in Int
        <3>1. Decision \in -71 .. 146
            BY <1>6, Decisions
        <3> QED BY <3>1 DEF Rule
    <2>3. GivenUp(Rule) \in Int
        BY DEF GivenUp
    <2>4. Value(k) \in Int
        BY DEF Value
    <2> QED BY <2>1, <2>2, <2>3, <2>4, StateRange
<1>13. CASE yystate = 21
    <2>1. Dot(21) = 1 /\ Value(39) = 1
        BY DEF At, Dot, dot, Value
    <2>2. Rule = 71 /\ k = 39 /\ n = Len(yyss) - 1
        BY <1>1, <1>13, <2>1 DEF Completes
    <2> QED BY <1>2, <1>3, <1>4, <1>5, <1>9, <1>10, <1>11, <1>12, <1>13, <2>1, <2>2 DEF Strings, Gain
<1>14. CASE yystate = 55
    <2>1. Dot(55) = 2 /\ Value(39) = 1
        BY DEF At, Dot, dot, Value
    <2>2. Rule = 70 /\ k = 39 /\ n = Len(yyss) - 2
        BY <1>1, <1>14, <2>1 DEF Completes
    <2>3. Strings = Held(a) + 1 /\ Gain(Rule) = 0
        <3>1. Strings = Held(yyss[Len(yyss) - 2]) + 1
            BY <1>14 DEF Strings
        <3>2. Gain(70) = 0
            <4>1. GivenUp(70) = 0
                BY DEF GivenUp
            <4> QED BY <4>1 DEF Gain
        <3> QED BY <2>2, <3>1, <3>2
    <2>4. Strings' = Held(a) + 1
        BY <1>11, <2>1, <2>2
    <2> QED BY <1>2, <1>3, <1>4, <1>5, <1>9, <1>10, <1>12, <2>3, <2>4
<1>15. CASE yystate \notin {21, 55}
    <2>1. Rule # 71 /\ Held(yystate) = Held(a) + Value(k) + GivenUp(Rule)
        BY <1>1, <1>15 DEF Completes
    <2>2. Strings = Held(yystate) /\ Gain(Rule) = -GivenUp(Rule)
        BY <1>15, <2>1 DEF Strings, Gain
    <2>3. Strings' = Strings + Gain(Rule)
        BY <1>11, <1>12, <2>1, <2>2
    <2> QED BY <1>2, <1>3, <1>4, <1>5, <1>9, <1>10, <2>3
<1> QED BY <1>13, <1>14, <1>15

LEMMA CountedAfter ==
    ASSUME Stacks, Linked, Counted, Strings' = Strings + Gain(Rule), UNCHANGED <<file, yynerrs>>,
           Rule \in {54, 59, 63} => HasForgottenList,
           live' = live + Gain(Rule) \/ (live' = live /\ Rule \in {54, 59, 63})
    PROVE  Counted'
<1>1. Strings \in Int /\ live \in Int /\ live >= Strings
    BY StringsRange DEF Counted
<1>2. HasForgottenList' <=> HasForgottenList
    BY DEF HasForgottenList, Text
<1>3. Gain(Rule) \in Int
    <2>1. GivenUp(Rule) \in Int
        BY DEF GivenUp
    <2> QED BY <2>1 DEF Gain
<1>4. CASE live' = live + Gain(Rule)
    <2>1. live' \in Int /\ live' >= Strings' /\ (live = Strings => live' = Strings')
        BY <1>1, <1>3, <1>4
    <2> QED BY <1>2, <2>1 DEF Counted
<1>5. CASE live' = live /\ Rule \in {54, 59, 63}
    <2>1. Gain(Rule) = -1
        BY <1>5 DEF Gain, GivenUp
    <2>2. live' \in Int /\ live' >= Strings'
        BY <1>1, <1>5, <2>1
    <2> QED BY <1>2, <1>5, <2>2 DEF Counted
<1> QED BY <1>4, <1>5

\* The actions free what their rules give up, but for the three lists.
LEMMA ActionCounts ==
    ASSUME Deciding, Rule \in Int, live \in Int,
           ReducePlain \/ ReduceError \/ ReduceDk \/ ReducePk \/ ReduceHc \/ ReduceDisc
             \/ ReduceField \/ ReduceList \/ ReduceUk \/ ReduceHexkey \/ ReduceString
    PROVE  /\ Rule > 0 /\ \E v : Reduce(v)
           /\ live' = live + Gain(Rule) \/ (live' = live /\ Rule \in {54, 59, 63})
<1>1. CASE ReducePlain
    <2>1. Rule > 0 /\ (\E v : Reduce(v)) /\ live' = live
        BY <1>1 DEF ReducePlain, data
    <2>2. Rule \in {54, 59, 63} \/ (Rule # 71 /\ GivenUp(Rule) = 0)
        BY <1>1 DEF ReducePlain, GivenUp
    <2> QED BY <2>1, <2>2 DEF Gain
<1>2. CASE ReduceError \/ ReduceDisc \/ ReduceField \/ ReduceList \/ ReduceUk \/ ReduceHexkey
    <2>1. /\ (\E v : Reduce(v)) /\ live' = live
          /\ Rule \in {12, 35, 49, 50, 55, 51, 56, 60, 64, 67, 68, 69}
        BY <1>2 DEF ReduceError, ReduceDisc, ReduceField, ReduceList, ReduceUk, ReduceHexkey, Reduces, data
    <2>2. Rule # 71 /\ GivenUp(Rule) = 0
        BY <2>1 DEF GivenUp
    <2> QED BY <2>1, <2>2 DEF Gain
<1>3. CASE ReduceDk
    <2>1. /\ (\E v : Reduce(v)) /\ Rule \in 13 .. 16
          /\ live' = live - (IF Rule \in {13, 15} THEN 4 ELSE 2)
        BY <1>3 DEF ReduceDk, Reduces
    <2>2. GivenUp(Rule) = IF Rule \in {13, 15} THEN 4 ELSE 2
        BY <2>1 DEF GivenUp
    <2> QED BY <2>1, <2>2 DEF Gain
<1>4. CASE ReducePk
    <2>1. (\E v : Reduce(v)) /\ Rule \in {21, 22} /\ live' = live - 1
        BY <1>4 DEF ReducePk, Reduces
    <2>2. GivenUp(Rule) = 1
        BY <2>1 DEF GivenUp
    <2> QED BY <2>1, <2>2 DEF Gain
<1>5. CASE ReduceHc
    <2>1. /\ (\E v : Reduce(v)) /\ Rule \in 23 .. 26
          /\ live' = live - (IF Rule \in {23, 24} THEN 4 ELSE 2)
        BY <1>5 DEF ReduceHc, Reduces, CertStringsFreed
    <2>2. GivenUp(Rule) = IF Rule \in {23, 24} THEN 4 ELSE 2
        BY <2>1 DEF GivenUp
    <2> QED BY <2>1, <2>2 DEF Gain
<1>6. CASE ReduceString
    <2>1. (\E v : Reduce(v)) /\ Rule \in {70, 71} /\ live' = IF Rule = 71 THEN live + 1 ELSE live
        BY <1>6 DEF ReduceString, Reduces
    <2>2. Rule = 70 => GivenUp(Rule) = 0
        BY DEF GivenUp
    <2> QED BY <2>1, <2>2 DEF Gain
<1> QED BY <1>1, <1>2, <1>3, <1>4, <1>5, <1>6

LEMMA ReductionCounts ==
    ASSUME SInv, UNCHANGED <<setup, src>>,
           ReducePlain \/ ReduceError \/ ReduceDk \/ ReducePk \/ ReduceHc \/ ReduceDisc
             \/ ReduceField \/ ReduceList \/ ReduceUk \/ ReduceHexkey \/ ReduceString
    PROVE  SInv'
<1>1. Deciding
    BY DEF ReducePlain, ReduceError, ReduceDk, ReducePk, ReduceHc, ReduceDisc, ReduceField,
           ReduceList, ReduceUk, ReduceHexkey, ReduceString, Reduces
<1>2. Rule \in Int
    <2>1. Decision \in -71 .. 146
        BY TopIsState, Decisions DEF SInv
    <2> QED BY <2>1 DEF Rule
<1>3. /\ Rule > 0 /\ \E v : Reduce(v)
      /\ live' = live + Gain(Rule) \/ (live' = live /\ Rule \in {54, 59, 63})
    BY <1>1, <1>2, ActionCounts DEF SInv, Counted
<1>4. PICK v : Reduce(v)
    BY <1>3
<1>5. /\ Stacks' /\ Linked' /\ Scanned' /\ Ended' /\ Unlisted'
      /\ Strings' = Strings + Gain(Rule)
      /\ Rule \in {54, 59, 63} => HasForgottenList
      /\ UNCHANGED <<file, yynerrs>>
    BY <1>1, <1>3, <1>4, ReduceStrings
<1>6. Counted'
    BY <1>3, <1>5, CountedAfter DEF SInv
<1> QED BY <1>5, <1>6 DEF SInv

LEMMA ShiftCounts == ASSUME SInv, Shift, UNCHANGED <<setup, src>> PROVE SInv'
<1> DEFINE i == At(yypact, yystate) + yychar
           to == Decision
           n == Len(yyss)
<1>0. /\ Stacks /\ Linked /\ Scanned /\ Unlisted /\ Counted
      /\ Deciding /\ Decision > 0 /\ UNCHANGED <<file, pos, yynerrs, live>> /\ yychar' = YYEMPTY
    BY DEF SInv, Shift, scanner, data
<1>1. yystate \in States /\ n \in Nat /\ n > 0 /\ yystate = yyss[n] /\ n \in 1 .. n
    BY <1>0, TopIsState DEF yystate, Last
<1>2. /\ NeedsLookahead /\ i \in 0 .. YYLAST /\ At(yycheck, i) = yychar
      /\ to = At(yytable, i)
    <2>1. At(yydefact, yystate) \in 0 .. 71
        BY <1>1, HexDefault
    <2> QED BY <1>0, <2>1 DEF Decision, Entry
<1>3. yychar \in Tokens
    BY <1>0, <1>2 DEF Deciding, Scanned
<1>4. to \in States
    BY <1>0, <1>2, TableEntries DEF States
<1>5. Shifts(yystate, i)
    <2>1. At(yypact, yystate) \in Int
        BY <1>1, ActionEntries
    <2> QED BY <1>0, <1>2, <1>3, <2>1 DEF Shifts
<1> HIDE DEF i, to
<1>6. yystate \in Under(to)
    BY <1>1, <1>2, <1>5, ShiftUnder
<1>7. yystate \notin {21, 55}
    BY <1>2, HexReduce DEF NeedsLookahead, HexStates
<1>8. SubSeq(yyss, 1, n) = yyss /\ SubSeq(yyvs, 1, n) = yyvs
    BY <1>0, WholeSeq DEF Stacks
<1>9. Push(SubSeq(yyss, 1, n), SubSeq(yyvs, 1, n), to, yylval)
    BY <1>8 DEF Shift, to
<1>10. /\ Stacks' /\ Linked' /\ yystate' = to
       /\ Len(yyss') = n + 1 /\ yyss'[n + 1] = to /\ (\A j \in 1 .. n : yyss'[j] = yyss[j])
       /\ pc' = IF to = YYFINAL THEN "done" ELSE "backup"
    BY <1>0, <1>1, <1>4, <1>6, <1>9, PushLinks
<1>11. Scanned' /\ Ended'
    BY <1>0, <1>4, <1>10, StillScanned, PushEnds
<1>12. ~HasForgottenList => to \notin ForgottenStates
    <2>1. ASSUME ~HasForgottenList PROVE yystate \notin ForgottenStates /\ yychar \notin {23, 25, 26}
        BY <1>0, <1>1, <2>1 DEF Unlisted, Forgotten, Sym
    <2> QED BY <1>1, <1>2, <1>5, <2>1, ShiftListed
<1>13. Unlisted'
    BY <1>0, <1>1, <1>4, <1>10, <1>12, PushUnlisted
<1>14. Strings' = Strings
    <2>1. Strings = Held(yystate) /\ Held(yystate) \in Int
        BY <1>1, <1>7, StateRange DEF Strings
    <2>2. CASE to = 21
        <3>1. Len(yyss') - 1 = n /\ yyss'[n] = yystate
            BY <1>1, <1>10
        <3> QED BY <1>10, <2>1, <2>2, <3>1 DEF Strings
    <2>3. CASE to = 55
        <3>1. Dot(yystate) >= 1 /\ \A a \in Under(yystate) : Held(yystate) = Held(a) + 1
            BY <1>6, <2>3, PieceHeld
        <3>2. n > 1 /\ yyss[n - 1] \in Under(yystate)
            <4>1. n > Dot(yystate) /\ (n > 1 => yyss[n - 1] \in Under(yystate))
                BY <1>0, <1>1 DEF Linked
            <4>2. Dot(yystate) \in Int
                BY <1>1, StateRange
            <4> QED BY <1>1, <3>1, <4>1, <4>2
        <3>3. Len(yyss') - 2 = n - 1 /\ yyss'[n - 1] = yyss[n - 1]
            BY <1>1, <1>10, <3>2
        <3>4. Strings' = Held(yyss[n - 1]) + 1
            BY <1>10, <2>3, <3>3 DEF Strings
        <3> QED BY <2>1, <3>1, <3>2, <3>4
    <2>4. CASE to \notin {21, 55}
        <3>1. Held(to) = Held(yystate)
            BY <1>1, <1>2, <1>5, <2>4, ShiftHeld
        <3> QED BY <1>10, <2>1, <2>4, <3>1 DEF Strings
    <2> QED BY <2>2, <2>3, <2>4
<1>15. HasForgottenList' <=> HasForgottenList
    BY <1>0 DEF HasForgottenList, Text
<1>16. Counted'
    BY <1>0, <1>14, <1>15 DEF Counted
<1> QED BY <1>10, <1>11, <1>13, <1>16 DEF SInv

\* Error recovery goes back to the beginning of a line.
LEMMA ErrorToken ==
    ASSUME NEW s \in States, OnError(s) > 0
    PROVE  OnError(s) = 1 /\ s \in Under(1)
<1> DEFINE i == At(yypact, s) + Sym.error
<1>1. OnError(s) = 0 \/ (i \in 0 .. YYLAST /\ At(yycheck, i) = 1 /\ OnError(s) = At(yytable, i))
    BY DEF OnError, Entry, Sym
<1>2. i \in 0 .. YYLAST /\ At(yycheck, i) = 1 /\ OnError(s) = At(yytable, i)
    BY <1>1
<1>3. \A j \in 0 .. YYLAST : At(yycheck, j) = 1 => At(yytable, j) = 1
    BY DEF YYLAST, At, yycheck, yytable
<1>4. At(yytable, i) = 1
    BY <1>2, <1>3
<1>5. Shifts(s, i)
    BY <1>2, <1>4 DEF Shifts, Sym, Tokens, YYNTOKENS
<1> QED BY <1>2, <1>4, <1>5, ShiftUnder

LEMMA ErrorCounts == ASSUME SInv, SyntaxError, UNCHANGED <<setup, src>> PROVE SInv'
<1> DEFINE keep == {n \in 1 .. Len(yyss) : OnError(yyss[n]) > 0}
<1>0. /\ Stacks /\ Linked /\ Scanned /\ Unlisted /\ Counted /\ Ended
      /\ UNCHANGED <<file, pos, live>> /\ yynerrs' = TRUE /\ pc = "backup"
    BY DEF SInv, SyntaxError, Deciding, scanner, data
<1>1. HasForgottenList' <=> HasForgottenList
    BY <1>0 DEF HasForgottenList, Text
<1>2. CASE pc' = "done" /\ UNCHANGED <<yychar, yyss, yyvs>>
    <2>1. Stacks' /\ Linked' /\ Scanned'
        BY <1>0, <1>2, StillScanned DEF Stacks, Linked
    <2>2. Ended' /\ Unlisted' /\ Counted'
        BY <1>0, <1>1, <1>2 DEF Ended, Unlisted, Counted, Strings, yystate
    <2> QED BY <2>1, <2>2 DEF SInv
<1>3. CASE /\ keep # {} /\ yychar' = Discarded
           /\ Push(SubSeq(yyss, 1, Max(keep)), SubSeq(yyvs, 1, Max(keep)), OnError(yyss[Max(keep)]), yylval)
    <2> DEFINE n == Max(keep)
    <2>1. n \in keep
        BY <1>0, <1>3, TopIsState, LargestOf DEF Max
    <2>2. n \in 1 .. Len(yyss) /\ yyss[n] \in States
        BY <1>0, <2>1, ElementOfSeq DEF Stacks
    <2>3. OnError(yyss[n]) = 1 /\ yyss[n] \in Under(1) /\ 1 \in States /\ 1 \notin ForgottenStates
        <3>1. OnError(yyss[n]) > 0
            BY <2>1
        <3>2. OnError(yyss[n]) = 1 /\ yyss[n] \in Under(1)
            BY <2>2, <3>1, ErrorToken
        <3> QED BY <3>2 DEF States, ForgottenStates
    <2>4. Push(SubSeq(yyss, 1, n), SubSeq(yyvs, 1, n), 1, yylval)
        BY <1>3, <2>3
    <2> HIDE DEF n
    <2>5. /\ Stacks' /\ Linked' /\ yystate' = 1
          /\ Len(yyss') = n + 1 /\ yyss'[n + 1] = 1 /\ (\A j \in 1 .. n : yyss'[j] = yyss[j])
          /\ pc' = IF 1 = YYFINAL THEN "done" ELSE "backup"
        BY <1>0, <2>2, <2>3, <2>4, PushLinks
    <2>6. yychar' \in {yychar, YYEMPTY}
        BY <1>3 DEF Discarded
    <2>7. Scanned' /\ Ended'
        BY <1>0, <2>3, <2>5, <2>6, StillScanned, PushEnds
    <2>8. Unlisted'
        BY <1>0, <2>2, <2>3, <2>5, <2>6, PushUnlisted
    <2>9. Counted'
        <3>1. Strings' = 0
            BY <2>5 DEF Strings, Held, held, At
        <3>2. live >= 0
            BY <1>0, StringsRange DEF Counted
        <3> QED BY <1>0, <3>1, <3>2 DEF Counted
    <2> QED BY <2>5, <2>7, <2>8, <2>9 DEF SInv
<1> QED BY <1>2, <1>3 DEF SyntaxError, stacks

LEMMA ReadCounts == ASSUME SInv, ReadToken, UNCHANGED <<setup, src>> PROVE SInv'
<1>1. UNCHANGED <<file, pos, yychar, yyss, yyvs, yynerrs, live>> /\ pc = "backup" /\ pc' = "lex"
    BY DEF ReadToken, stacks, data
<1>2. Stacks' /\ Linked' /\ Scanned'
    BY <1>1, StillScanned DEF SInv, Stacks, Linked
<1>3. Ended' /\ Unlisted' /\ Counted'
    BY <1>1 DEF SInv, Ended, Unlisted, Counted, Strings, yystate, HasForgottenList, Text
<1> QED BY <1>2, <1>3 DEF SInv

\* A title ends where there is something to end it.
LEMMA TitleEnds == ASSUME Scanned, pos <= Len(Text) PROVE TitleEnd(pos) \in Nat \ {0}
<1> DEFINE T == {j \in pos .. Len(Text) + 1 : EndsTitle(j)}
<1>1. Len(Text) \in Nat /\ pos \in Nat \ {0}
    BY LenProperties DEF Scanned
<1>2. Len(Text) + 1 \in T
    BY <1>1 DEF EndsTitle
<1>3. T \subseteq Nat \ {0}
    BY <1>1
<1>4. PICK x \in T : \A y \in T : x <= y
    BY <1>2, <1>3, LeastNatural
<1>5. Min(T) \in T
    BY <1>4 DEF Min
<1> QED BY <1>3, <1>5 DEF TitleEnd

LEMMA LexCounts == ASSUME SInv, Lex, UNCHANGED <<setup, src>> PROVE SInv'
<1>0. Scanned /\ Unlisted /\ Len(Text) \in Nat /\ pos \in Nat \ {0} /\ DOMAIN Text = 1 .. Len(Text)
    BY LenProperties DEF SInv, Scanned
<1>1. UNCHANGED <<file, yyss, yyvs, yynerrs, live>> /\ pc = "lex" /\ pc' \in {"lex", "backup"}
    BY DEF Lex, LexIgnored, LexTitle, LexNewline, LexToken, LexEof, Return, stacks, data
<1>2. HasForgottenList' <=> HasForgottenList
    BY <1>1 DEF HasForgottenList, Text
<1>3. /\ pos' \in Nat \ {0} /\ yychar' \in {YYEMPTY} \cup Tokens
      /\ ~HasForgottenList => yychar' \notin Forgotten
    <2>1. CASE LexIgnored
        BY <1>0, <2>1 DEF LexIgnored, Scanned, Unlisted
    <2>2. CASE LexTitle
        BY <1>0, <2>2, TitleEnds DEF LexTitle, Return, Tokens, Forgotten, Sym, YYNTOKENS
    <2>3. CASE LexNewline
        BY <1>0, <2>3 DEF LexNewline, Return, NewlineToken, Tokens, Forgotten, Sym, YYNTOKENS
    <2>4. CASE LexToken
        <3>1. pos \in DOMAIN Text /\ yychar' = Text[pos].token /\ pos' = pos + 1
            BY <1>0, <2>4 DEF LexToken, Return
        <3>2. yychar' \in Tokens
            BY <1>0, <3>1 DEF Scanned
        <3>3. ~HasForgottenList => yychar' \notin Forgotten
            BY <3>1 DEF HasForgottenList, Forgotten
        <3> QED BY <1>0, <3>1, <3>2, <3>3
    <2>5. CASE LexEof
        BY <1>0, <2>5 DEF LexEof, Return, Tokens, Forgotten, Sym, YYNTOKENS
    <2> QED BY <2>1, <2>2, <2>3, <2>4, <2>5 DEF Lex
<1>4. Stacks' /\ Linked' /\ Scanned'
    BY <1>0, <1>1, <1>3 DEF SInv, Stacks, Linked, Scanned, Text
<1>5. Ended' /\ Unlisted' /\ Counted'
    BY <1>1, <1>2, <1>3 DEF SInv, Ended, Unlisted, Counted, Strings, yystate
<1> QED BY <1>4, <1>5 DEF SInv

\* The stack of a new parse.
LEMMA NewStack ==
    /\ Held(0) = 0 /\ Level(0) = 1 /\ Dot(0) = 0 /\ Start(0) = {0}
    /\ 0 \in States /\ 0 \notin ForgottenStates /\ 0 # YYFINAL /\ YYEMPTY \notin Forgotten
BY DEF Held, held, Level, level, Dot, dot, Start, begins, phrase, At, States, ForgottenStates,
       YYFINAL, YYEMPTY, Forgotten, Sym

AtBottom == yyss = <<0>> /\ yyvs = <<None>> /\ live = 0 /\ yychar = YYEMPTY /\ pc # "done"

LEMMA BottomOnly == AtBottom => Stacks /\ Linked /\ Ended /\ Unlisted /\ Counted
<1> SUFFICES ASSUME AtBottom PROVE Stacks /\ Linked /\ Ended /\ Unlisted /\ Counted
    OBVIOUS
<1>0. yyss = <<0>> /\ yyvs = <<None>> /\ live = 0 /\ yychar = YYEMPTY /\ pc # "done"
    BY DEF AtBottom
<1>1. <<0>> \in Seq(States) /\ <<0>> # <<>> /\ <<None>> \in Seq({None}) /\ Len(<<None>>) = 1 /\ Len(<<0>>) = 1
    BY DEF States
<1>2. <<None>> \in Seq(Range(<<None>>))
    BY <1>1, SeqOfRange
<1>3. Stacks
    BY <1>0, <1>1, <1>2 DEF Stacks
<1>4. Len(yyss) = 1 /\ yyss[1] = 0 /\ yystate = 0
    BY <1>0 DEF yystate, Last
<1>5. Linked
    BY <1>0, <1>4, NewStack DEF Linked
<1>6. Ended /\ Unlisted
    BY <1>0, <1>4, NewStack DEF Ended, Unlisted
<1>7. Counted
    BY <1>0, <1>4, NewStack DEF Counted, Strings
<1> QED BY <1>3, <1>5, <1>6, <1>7

LEMMA NewParseCounts ==
    ASSUME Scanned, stage = "open", OpenFile, UNCHANGED <<setup, src>>, NewParse(Sources[src])
    PROVE  SInv'
<1>1. Sources[src] \in {setup.user, setup.system}
    BY DEF OpenFile, Sources, Scanned
<1>2. /\ Sources[src].text \in Seq(Range(Sources[src].text))
      /\ \A i \in DOMAIN Sources[src].text : Sources[src].text[i].token \in Tokens
    BY <1>1, ConfigLoadAssumption DEF Scanned, Tokens
<1>3. Scanned'
    BY <1>2 DEF NewParse, Scanned, Text
<1>4. AtBottom'
    BY DEF NewParse, AtBottom
<1>5. (Stacks /\ Linked /\ Ended /\ Unlisted /\ Counted)'
    BY <1>4, BottomOnly, PTL
<1> QED BY <1>3, <1>5 DEF SInv

LEMMA StringsInit == Init => SInv
<1> SUFFICES ASSUME Init PROVE SInv
    OBVIOUS
<1>1. AtBottom /\ yychar = YYEMPTY
    BY DEF Init, ParserInit, AtBottom
<1>2. Text = <<>> /\ pos = 1 /\ src = 1 /\ setup \in Setups
    BY DEF Init, ParserInit, Text
<1>3. <<>> \in Seq(Range(<<>>)) /\ DOMAIN <<>> = {}
    BY EmptySeq
<1>4. Scanned
    BY <1>1, <1>2, <1>3 DEF Scanned
<1> QED BY <1>1, <1>4, BottomOnly DEF SInv

LEMMA StringsStep == SInv /\ [Next]_vars => SInv'
<1> SUFFICES ASSUME SInv, [Next]_vars PROVE SInv'
    OBVIOUS
<1>1. ASSUME UNCHANGED <<file, pos, yychar, pc, yyss, yyvs, yynerrs, live, setup>>, src' \in {src, src + 1}
      PROVE  SInv'
    <2>1. Scanned'
        BY <1>1 DEF SInv, Scanned, Text
    <2> QED BY <1>1, <2>1 DEF SInv, Stacks, Linked, Ended, Unlisted, Counted, Strings, yystate, HasForgottenList, Text
<1>2. CASE OpenFile
    BY <1>1, <1>2, NewParseCounts DEF SInv, OpenFile, parser, scanner, stacks, data
<1>3. CASE ParseFile
    BY <1>3, LexCounts, ReadCounts, ShiftCounts, ErrorCounts, ReductionCounts DEF ParseFile, Parse
<1>4. CASE CloseFile
    <2>1. UNCHANGED <<file, pos, yychar, yyss, yyvs, yynerrs, live, setup>> /\ pc' = "idle" /\ src' = src + 1
        BY <1>4 DEF CloseFile, scanner, stacks, data
    <2>2. Scanned'
        BY <2>1 DEF SInv, Scanned, Text
    <2> QED BY <2>1, <2>2 DEF SInv, Stacks, Linked, Ended, Unlisted, Counted, Strings, yystate, HasForgottenList, Text
<1>5. CASE LoadPkFiles \/ LoadCertFiles \/ ParseEmbedded
    BY <1>1, <1>5 DEF LoadPkFiles, LoadCertFiles, ParseEmbedded, Collect, scanner, stacks
<1>6. CASE UNCHANGED vars
    BY <1>1, <1>6 DEF vars, parser, scanner, stacks, data
<1> QED BY <1>2, <1>3, <1>4, <1>5, <1>6 DEF Next

LEMMA StringsImply == SInv => StringsAreFreed
<1> SUFFICES ASSUME SInv PROVE StringsAreFreed
    OBVIOUS
<1>1. Strings \in 0 .. 5 /\ (yystate = YYFINAL => Strings = 0)
    BY StringsRange DEF SInv
<1>2. live \in Int /\ live >= Strings
    BY DEF SInv, Counted
<1>3. live >= 0
    BY <1>1, <1>2
<1>4. ASSUME pc = "done", ~yynerrs, ~HasForgottenList PROVE live = 0
    BY <1>1, <1>4 DEF SInv, Counted, Ended
<1> QED BY <1>3, <1>4 DEF StringsAreFreed

\* Whatever a KEYDB.cfg contains, the actions of the grammar free no string of
\* hexstring_list twice; and a file that is parsed without a syntax error leaves no string
\* behind, unless it has one of the lists whose rules have no action.
THEOREM EveryStringIsFreed == Spec => []StringsAreFreed
<1>1. Init /\ [][Next]_vars => []SInv
    BY StringsInit, StringsStep, PTL
<1> QED BY <1>1, StringsImply, PTL DEF Spec

-----------------------------------------------------------------------------
(* The stack of yyparse().                                                 *)

YYINITDEPTH == 200

\* A reduction finds its whole right-hand side on the stack, and the stack fits into the
\* array it starts in: yyparse() never moves it, and never ends with "memory exhausted".
StackFits ==
    /\ Len(yyss) < YYINITDEPTH /\ result # 2
    /\ Deciding /\ Rule > 0 => At(yyr2, Rule) < Len(yyss)

LEMMA StackDepth ==
    ASSUME Stacks, Linked
    PROVE  Len(yyss) \in Nat /\ Len(yyss) <= 13 /\ Len(yyss) > Dot(yystate)
<1>1. Len(yyss) \in Nat /\ Len(yyss) > 0 /\ yystate \in States /\ yystate = yyss[Len(yyss)]
    BY TopIsState DEF yystate, Last
<1>2. Len(yyss) <= Level(yystate) /\ Len(yyss) > Dot(yystate)
    BY <1>1 DEF Linked
<1> QED BY <1>1, <1>2, StateRange

LEMMA ShallowStack == SInv => Len(yyss) <= 13
BY StackDepth DEF SInv

\* The length of a stack before a push is that of the part it is put on.
LEMMA PushFits ==
    ASSUME NEW n \in Int, yyss \in Seq(States), n <= Len(yyss), NEW s \in States, NEW v, result # 2,
           Push(SubSeq(yyss, 1, n), SubSeq(yyvs, 1, n), s, v), Len(yyss') <= 13
    PROVE  result' # 2
<1>1. SubSeq(yyss, 1, n) \in Seq(States) /\ Len(SubSeq(yyss, 1, n)) \in Nat
    BY SubSeqProperties, LenProperties
<1>2. Len(yyss') = Len(SubSeq(yyss, 1, n)) + 1
    BY <1>1, AppendProperties DEF Push
<1> QED BY <1>1, <1>2 DEF Push, YYMAXDEPTH

LEMMA ResultStep ==
    ASSUME SInv, SInv', result # 2, [Next]_vars
    PROVE  result' # 2
<1>1. (Len(yyss) <= 13)'
    BY ShallowStack, PTL
<1>2. yyss \in Seq(States) /\ Len(yyss) \in Nat /\ yystate \in States
    BY TopIsState DEF SInv, Stacks
<1>3. CASE Parse
    <2>1. CASE Shift
        <3>1. Decision \in States
            <4>1. Decision \in -71 .. 146 /\ Decision > 0
                BY <1>2, <2>1, Decisions DEF Shift
            <4> QED BY <4>1 DEF States
        <3>2. SubSeq(yyss, 1, Len(yyss)) = yyss /\ SubSeq(yyvs, 1, Len(yyss)) = yyvs
            BY WholeSeq DEF SInv, Stacks
        <3>3. Push(SubSeq(yyss, 1, Len(yyss)), SubSeq(yyvs, 1, Len(yyss)), Decision, yylval)
            BY <2>1, <3>2 DEF Shift
        <3> QED BY <1>1, <1>2, <3>1, <3>3, PushFits
    <2>2. CASE SyntaxError
        <3> DEFINE keep == {n \in 1 .. Len(yyss) : OnError(yyss[n]) > 0}
        <3>1. CASE result' = 1
            BY <3>1
        <3>2. CASE /\ keep # {}
                   /\ Push(SubSeq(yyss, 1, Max(keep)), SubSeq(yyvs, 1, Max(keep)), OnError(yyss[Max(keep)]), yylval)
            <4>1. Max(keep) \in keep
                BY <1>2, <3>2, LargestOf DEF Max
            <4>2. OnError(yyss[Max(keep)]) \in States
                BY <4>1, ErrorState
            <4>3. Max(keep) \in Int /\ Max(keep) <= Len(yyss)
                BY <1>2, <4>1
            <4> QED BY <1>1, <1>2, <3>2, <4>2, <4>3, PushFits
        <3> QED BY <2>2, <3>1, <3>2 DEF SyntaxError
    <2>3. CASE ReadToken
        BY <2>3 DEF ReadToken
    <2>4. CASE ReducePlain \/ ReduceError \/ ReduceDk \/ ReducePk \/ ReduceHc \/ ReduceDisc
                 \/ ReduceField \/ ReduceList \/ ReduceUk \/ ReduceHexkey \/ ReduceString
        <3>1. Deciding
            BY <2>4 DEF ReducePlain, ReduceError, ReduceDk, ReducePk, ReduceHc, ReduceDisc, ReduceField,
                   ReduceList, ReduceUk, ReduceHexkey, ReduceString, Reduces
        <3>2. Rule \in Int
            <4>1. Decision \in -71 .. 146
                BY <1>2, Decisions
            <4> QED BY <4>1 DEF Rule
        <3>3. PICK v : Rule > 0 /\ Reduce(v)
            BY <2>4, <3>1, <3>2, ActionCounts DEF SInv, Counted
        <3>4. PICK n \in 1 .. Len(yyss) : \E to \in States :
                  Push(SubSeq(yyss, 1, n), SubSeq(yyvs, 1, n), to, v)
            BY <3>1, <3>3, ReduceLinks DEF SInv
        <3> QED BY <1>1, <1>2, <3>4, PushFits
    <2> QED BY <1>3, <2>1, <2>2, <2>3, <2>4 DEF Parse
<1>4. CASE Lex
    BY <1>4 DEF Lex, LexIgnored, LexTitle, LexNewline, LexToken, LexEof, Return
<1>5. CASE OpenFile \/ CloseFile \/ LoadPkFiles \/ LoadCertFiles \/ ParseEmbedded \/ UNCHANGED vars
    BY <1>5 DEF OpenFile, NewParse, CloseFile, LoadPkFiles, LoadCertFiles, ParseEmbedded, Collect, vars, parser
<1> QED BY <1>3, <1>4, <1>5 DEF Next, ParseFile

LEMMA StackImplies == SInv /\ result # 2 => StackFits
<1> SUFFICES ASSUME SInv, result # 2 PROVE StackFits
    OBVIOUS
<1>1. Len(yyss) \in Nat /\ Len(yyss) <= 13 /\ Len(yyss) > Dot(yystate) /\ yystate \in States
    BY StackDepth, TopIsState DEF SInv
<1>2. ASSUME Deciding, Rule > 0 PROVE At(yyr2, Rule) < Len(yyss)
    <2>1. yystate \in States \ {YYFINAL}
        BY <1>1, <1>2 DEF SInv, Ended, Deciding
    <2>2. At(yyr2, Rule) = Dot(yystate)
        BY <1>2, <2>1, RuleCompletes DEF Completes
    <2> QED BY <1>1, <2>2, StateRange
<1> QED BY <1>1, <1>2 DEF StackFits, YYINITDEPTH

\* However long a KEYDB.cfg is and whatever it contains, the stack of yyparse() stays inside
\* its first array, and no action reaches below its bottom.
THEOREM StackStaysSmall == Spec => []StackFits
<1>1. Init => SInv /\ result # 2
    BY StringsInit DEF Init, ParserInit
<1>2. (SInv /\ result # 2) /\ [Next]_vars => (SInv /\ result # 2)'
    BY StringsStep, ResultStep
<1>3. Init /\ [][Next]_vars => [](SInv /\ result # 2)
    BY <1>1, <1>2, PTL
<1> QED BY <1>3, StackImplies, PTL DEF Spec
-----------------------------------------------------------------------------
(***************************************************************************)
(* What was read is kept: a file whose text ends with the NEWLINE of its   *)
(* last line is accepted, whatever errors it has.  After the last NEWLINE  *)
(* the parser is in one of the states below: from them the end of the file *)
(* leads to YYFINAL.  In an error it is in state 1, in which NEWLINE is    *)
(* never a second error, and so is not discarded.                          *)
(***************************************************************************)

\* The states that a NEWLINE leads to, and those reached from them at the end of the file.
EndStates == {0, 6, 7, 8, 9, 10, 11, 12, 13, 14, 18, 25, 26, 27, 31, 56, 79, 88, 90, 102, 105,
              122, 124, 140, 142, 145, 146}

\* Where the scanner waits for a title, and where it does not.
Titles ==
    /\ start = "INITIAL" \/ (start = "TITLE" /\ Untitled(Text, pos))
    /\ start = "INITIAL" => EndsTitle(pos) \/ Stopped(Text, pos)

\* Behind the last NEWLINE only the end of the file is read.
BehindLast == \A n \in 0 .. Len(Text) : EndsAt(Text, n) /\ pos > n =>
    /\ start = "INITIAL" /\ yychar \in {YYEMPTY, Sym.EOF, Sym.NEWLINE}
    /\ yychar # Sym.NEWLINE => yystate \in EndStates

\* The lookahead, and the state of the error recovery.
Lookahead ==
    /\ yychar = Sym.EOF => pos > Len(Text)
    /\ \A i \in DOMAIN Text : Text[i].token # Sym.EOF
    /\ pc = "lex" => yychar = YYEMPTY
    /\ yyerrstatus \in 0 .. 3 /\ (yyerrstatus = 3 /\ pc \in {"lex", "backup"} => yystate = 1)

Accepted == pc = "done" /\ EndsWhole(Text) => result = 0

WInv == Titles /\ BehindLast /\ Lookahead /\ Accepted

\* The file being parsed, and a configuration nothing was added to.
CompleteFiles == \A s \in DOMAIN Sources : ~L!Incomplete(Sources[s].lines, Sources[s].cut)
NoKeys == [dk |-> <<>>, pk |-> <<>>, hc |-> <<>>, entries |-> <<>>, celist |-> 0, dkplist |-> 0]
Collected ==
    /\ stage = "parse" => src \in DOMAIN Sources /\ file = Sources[src]
    /\ CompleteFiles /\ ~config_ok /\ stage # "parse" => cf = NoKeys
    /\ stage = "done" => loaded = config_ok

\* What is decided at the end of the file.
AtEof(s) == IF At(yypact, s) # YYPACT_NINF THEN Entry(yytable, At(yypact, s), 0) ELSE 0
EndRule(s) == IF AtEof(s) = 0 THEN At(yydefact, s) ELSE -AtEof(s)

LEMMA EndTable ==
    \A s \in EndStates \ {YYFINAL} :
        /\ s = 7 => AtEof(s) = YYFINAL
        /\ s # 7 => AtEof(s) <= 0 /\ EndRule(s) \in 2 .. 71
BY DEF EndStates, YYFINAL, AtEof, EndRule, Entry, YYLAST, YYPACT_NINF, At, yypact, yydefact, yytable, yycheck

LEMMA EndDefault ==
    \A s \in EndStates \ {0, 7, 8, YYFINAL} :
        s \in States /\ AtEof(s) = 0 /\ At(yydefact, s) # 0 /\ At(phrase, s) \in {1, 2, 3, 4, 9, 10, 15, 16}
BY DEF EndStates, YYFINAL, States, AtEof, Entry, YYLAST, YYPACT_NINF, At, yypact, yydefact, yytable, yycheck, phrase

LEMMA EndPhrase ==
    ASSUME NEW s \in EndStates \ {0, 7, YYFINAL}
    PROVE  /\ At(yyr1, EndRule(s)) - YYNTOKENS = At(phrase, s)
           /\ At(phrase, s) \in {1, 2, 3, 4, 9, 10, 15, 16}
<1>1. CASE s = 8
    <2>1. EndRule(8) = 3 /\ At(yyr1, 3) - YYNTOKENS = 1 /\ At(phrase, 8) = 1
        BY DEF EndRule, AtEof, Entry, YYLAST, YYPACT_NINF, YYNTOKENS, At, yypact, yytable, yycheck, yyr1, phrase
    <2> QED BY <1>1, <2>1
<1>2. CASE s # 8
    BY <1>2, EndDefault, DefaultRules DEF EndRule
<1> QED BY <1>1, <1>2

LEMMA EndNext ==
    \A n \in {1, 2, 3, 4, 9, 10, 15, 16} : \A a \in At(begins, n) : Goto(a, n) \in EndStates
BY DEF EndStates, Entry, YYLAST, At, yytable, yycheck, begins, Goto, yypgoto, yydefgoto

LEMMA EndGoto ==
    ASSUME NEW s \in EndStates \ {7, YYFINAL}, NEW a \in Start(s)
    PROVE  Goto(a, At(yyr1, EndRule(s)) - YYNTOKENS) \in EndStates
<1>1. CASE s = 0
    <2>1. EndRule(0) = 5 /\ At(yyr1, 5) - YYNTOKENS = 1 /\ Start(0) = At(begins, 1)
        BY DEF EndRule, AtEof, Entry, YYLAST, YYPACT_NINF, YYNTOKENS, At, yypact, yydefact, yytable, yycheck, yyr1,
               Start, begins, phrase
    <2> QED BY <1>1, <2>1, EndNext
<1>2. CASE s # 0
    BY <1>2, EndPhrase, EndNext DEF Start
<1> QED BY <1>1, <1>2

LEMMA NewlineShift ==
    \A s \in States : \A i \in 0 .. YYLAST :
        Shifts(s, i) /\ At(yycheck, i) = 28 => At(yytable, i) \in EndStates
BY DEF States, YYLAST, Shifts, Tokens, YYNTOKENS, At, yypact, yytable, yycheck, EndStates

\* Behind the error token only NEWLINE is shifted, and nothing is reduced.
LEMMA AfterError ==
    ASSUME yystate = 1, yychar \in {YYEMPTY} \cup Tokens
    PROVE  Decision >= 0 /\ (yychar = Sym.NEWLINE => Decision > 0)
<1>1. /\ At(yypact, 1) = -15 /\ At(yydefact, 1) = 0 /\ At(yycheck, 13) = 28 /\ At(yytable, 13) = 18
    BY DEF At, yypact, yydefact, yycheck, yytable
<1> DEFINE i == -15 + yychar
<1>2. NeedsLookahead
    BY <1>1 DEF NeedsLookahead, YYPACT_NINF
<1>3. Decision = Entry(yytable, i, yychar)
    BY <1>1, <1>2 DEF Decision, Entry
<1>4. yychar = Sym.NEWLINE => Decision = 18
    BY <1>1, <1>3 DEF Entry, YYLAST, Sym
<1>5. Decision >= 0
    <2>1. CASE i \in 0 .. YYLAST /\ At(yycheck, i) = yychar
        <3>1. Decision = At(yytable, i)
            BY <1>3, <2>1 DEF Entry
        <3>2. At(yytable, i) \in -5 .. 146 /\ (At(yytable, i) < 0 => yychar = 0 /\ i \in {11, 15})
            BY <2>1, TableEntries
        <3> QED BY <3>1, <3>2
    <2>2. CASE ~(i \in 0 .. YYLAST /\ At(yycheck, i) = yychar)
        BY <1>3, <2>2 DEF Entry
    <2> QED BY <2>1, <2>2
<1> QED BY <1>4, <1>5

LEMMA EndDecision ==
    ASSUME yystate \in EndStates \ {YYFINAL}, Deciding, yychar \in {YYEMPTY, Sym.EOF}
    PROVE  /\ Decision # 0
           /\ Decision > 0 => Decision \in EndStates
           /\ ~(Decision > 0) => yystate # 7 /\ Rule = EndRule(yystate)
<1>1. NeedsLookahead => yychar = 0
    BY DEF Deciding, Sym
<1>2. At(yypact, yystate) \in Int /\ At(yydefact, yystate) \in Int
    BY DEF EndStates, YYFINAL, At, yypact, yydefact
<1>3. Decision = IF AtEof(yystate) = 0 THEN -At(yydefact, yystate) ELSE AtEof(yystate)
    BY <1>1, <1>2 DEF Decision, NeedsLookahead, AtEof
<1>4. CASE yystate = 7
    BY <1>3, <1>4, EndTable DEF YYFINAL, EndStates
<1>5. CASE yystate # 7
    <2>1. AtEof(yystate) <= 0 /\ EndRule(yystate) \in 2 .. 71
        BY <1>5, EndTable
    <2>2. AtEof(yystate) \in Int
        BY <2>1, <1>2, TableEntries DEF AtEof, Entry
    <2>3. EndRule(yystate) = IF AtEof(yystate) = 0 THEN At(yydefact, yystate) ELSE -AtEof(yystate)
        BY DEF EndRule
    <2> HIDE DEF EndRule
    <2>4. Decision = -EndRule(yystate)
        BY <1>2, <1>3, <2>2, <2>3
    <2>5. Decision < 0 /\ -Decision = EndRule(yystate)
        BY <2>1, <2>4
    <2> QED BY <1>5, <2>1, <2>4, <2>5 DEF Rule
<1> QED BY <1>4, <1>5

-----------------------------------------------------------------------------
(* The scanner at the end of a text.                                       *)

LEMMA TitleEndAt ==
    ASSUME Scanned, pos <= Len(Text)
    PROVE  /\ TitleEnd(pos) \in pos .. Len(Text) + 1 /\ EndsTitle(TitleEnd(pos))
           /\ \A j \in pos .. Len(Text) : EndsTitle(j) => TitleEnd(pos) <= j
<1> DEFINE T == {j \in pos .. Len(Text) + 1 : EndsTitle(j)}
<1>1. Len(Text) \in Nat /\ pos \in Nat \ {0}
    BY LenProperties DEF Scanned
<1>2. Len(Text) + 1 \in T
    BY <1>1 DEF EndsTitle
<1>3. T \subseteq Nat
    BY <1>1
<1>4. PICK x \in T : \A y \in T : x <= y
    BY <1>2, <1>3, LeastNatural
<1>5. Min(T) \in T /\ \A y \in T : Min(T) <= y
    BY <1>4 DEF Min
<1>6. TitleEnd(pos) = Min(T)
    BY DEF TitleEnd
<1> HIDE DEF T
<1>7. TitleEnd(pos) \in T /\ \A y \in T : TitleEnd(pos) <= y
    BY <1>5, <1>6
<1>8. \A j \in pos .. Len(Text) : EndsTitle(j) => j \in T
    BY <1>1 DEF T
<1>9. T \subseteq pos .. Len(Text) + 1 /\ \A j \in T : EndsTitle(j)
    BY DEF T
<1> QED BY <1>7, <1>8, <1>9

\* A carriage return is not a newline where a title is expected: it belongs to the title.
LEMMA ReturnInTitle ==
    ASSUME Scanned, pos <= Len(Text), Text[pos].atom = "return"
    PROVE  TitleAt(pos)
<1>1. Len(Text) \in Nat /\ pos \in Nat \ {0}
    BY LenProperties DEF Scanned
<1>2. ~EndsTitle(pos)
    BY <1>1 DEF EndsTitle
<1>3. TitleEnd(pos) \in pos .. Len(Text) + 1 /\ TitleEnd(pos) # pos
    BY <1>2, TitleEndAt
<1>4. TitleEnd(pos) - pos >= 1
    BY <1>1, <1>3
<1> QED BY <1>1, <1>3, <1>4 DEF TitleAt

\* The next atom is not a "=", ...
LEMMA StaysStopped ==
    ASSUME NEW t, NEW p \in Nat \ {0}, t[p].atom # "equals",
           t[p].atom \in {"bar", "escape", "newline"} \/ Stopped(t, p)
    PROVE  Stopped(t, p + 1)
<1> SUFFICES ASSUME NEW k \in 1 .. p, t[k].atom = "equals"
             PROVE  \E j \in k + 1 .. p : t[j].atom \in {"bar", "escape", "newline"}
    BY DEF Stopped
<1>1. k \in 1 .. p - 1
    OBVIOUS
<1>2. CASE t[p].atom \in {"bar", "escape", "newline"}
    BY <1>1, <1>2
<1>3. CASE Stopped(t, p)
    BY <1>1, <1>3 DEF Stopped
<1> QED BY <1>2, <1>3

\* ... or no part of a title.
LEMMA StaysUntitled ==
    ASSUME NEW t, NEW p \in Nat \ {0}, Untitled(t, p), t[p].atom \in {"bar", "blank", "escape"}
    PROVE  Untitled(t, p + 1)
<1>1. PICK i \in 1 .. p - 1 : /\ t[i].atom = "equals" /\ Stopped(t, i)
                              /\ \A j \in i + 1 .. p - 1 : t[j].atom \in {"bar", "blank", "escape"}
    BY DEF Untitled
<1>2. \A j \in i + 1 .. p : t[j].atom \in {"bar", "blank", "escape"}
    BY <1>1
<1>3. i \in 1 .. (p + 1) - 1
    OBVIOUS
<1> QED BY <1>1, <1>2, <1>3 DEF Untitled

\* The atom the scanner is at.
LEMMA ScannerAt ==
    ASSUME Scanned, Titles, pos <= Len(Text)
    PROVE  /\ pos \in Nat \ {0} /\ Len(Text) \in Nat
           /\ EndsTitle(pos) <=> Text[pos].atom \in {"bar", "escape", "newline"}
           /\ start = "INITIAL" => Text[pos].atom \in {"bar", "escape", "newline"} \/ Stopped(Text, pos)
<1>1. Len(Text) \in Nat /\ pos \in Nat \ {0}
    BY LenProperties DEF Scanned
<1> QED BY <1>1 DEF EndsTitle, Titles

LEMMA LexTitles == ASSUME Scanned, Titles, Lex PROVE Titles'
<1>0. UNCHANGED file /\ Text' = Text
    BY DEF Lex, LexIgnored, LexTitle, LexNewline, LexToken, LexEof, Return, Text
<1>1. ASSUME pos <= Len(Text), pos' = pos + 1, start' = "INITIAL", Text[pos].atom # "equals",
             start = "INITIAL" \/ Text[pos].atom = "newline"
      PROVE  Titles'
    <2>1. Stopped(Text, pos + 1)
        BY <1>1, ScannerAt, StaysStopped
    <2> QED BY <1>0, <1>1, <2>1 DEF Titles
<1>2. ASSUME pos <= Len(Text), pos' = pos + 1, start = "TITLE", start' = "TITLE",
             Text[pos].atom \in {"bar", "blank", "escape"}
      PROVE  Titles'
    <2>1. Untitled(Text, pos + 1)
        BY <1>2, ScannerAt, StaysUntitled DEF Titles
    <2> QED BY <1>0, <1>2, <2>1 DEF Titles
<1>3. start \in {"INITIAL", "TITLE"}
    BY DEF Titles
<1>4. CASE LexIgnored
    BY <1>1, <1>2, <1>3, <1>4 DEF LexIgnored, Ignored
<1>5. CASE LexTitle
    <2>1. start' = "INITIAL" /\ pos' = TitleEnd(pos) /\ EndsTitle(TitleEnd(pos))
        BY <1>5, TitleEndAt DEF LexTitle
    <2> QED BY <1>0, <2>1 DEF Titles, EndsTitle
<1>6. CASE LexNewline
    <2>1. Text[pos].atom = "return" => start = "INITIAL"
        BY <1>6, <1>3, ReturnInTitle DEF LexNewline
    <2> QED BY <1>1, <1>6, <2>1 DEF LexNewline
<1>7. CASE LexToken
    <2>1. CASE Text[pos].atom = "equals"
        <3>1. start = "INITIAL" /\ start' = "TITLE" /\ pos <= Len(Text) /\ pos' = pos + 1
            BY <1>7, <2>1 DEF LexToken
        <3>2. Stopped(Text, pos) /\ pos \in Nat \ {0}
            BY <2>1, <3>1, ScannerAt
        <3>3. pos \in 1 .. (pos + 1) - 1 /\ pos + 1 .. (pos + 1) - 1 = {}
            BY <3>2
        <3>4. Untitled(Text, pos + 1)
            BY <2>1, <3>2, <3>3 DEF Untitled
        <3> QED BY <1>0, <3>1, <3>4 DEF Titles
    <2>2. CASE Text[pos].atom # "equals"
        BY <1>1, <1>2, <1>3, <1>7, <2>2 DEF LexToken
    <2> QED BY <2>1, <2>2
<1>8. CASE LexEof
    BY <1>0, <1>8 DEF LexEof, Titles, EndsTitle
<1> QED BY <1>4, <1>5, <1>6, <1>7, <1>8 DEF Lex

LEMMA LexLookahead == ASSUME SInv, Lookahead, Lex PROVE Lookahead'
<1>0. /\ Text' = Text /\ pc = "lex" /\ yychar = YYEMPTY /\ UNCHANGED <<yyss, yyerrstatus>>
      /\ yystate' = yystate
    BY DEF Lookahead, Lex, LexIgnored, LexTitle, LexNewline, LexToken, LexEof, Return, Text, stacks, yystate
<1>1. Len(Text) \in Nat /\ pos \in Nat \ {0} /\ DOMAIN Text = 1 .. Len(Text)
    BY LenProperties DEF SInv, Scanned
<1>2. yychar' = Sym.EOF => pos' > Len(Text)
    <2>1. CASE LexToken
        <3>1. pos \in DOMAIN Text /\ yychar' = Text[pos].token
            BY <1>1, <2>1 DEF LexToken, Return
        <3> QED BY <3>1 DEF Lookahead
    <2>2. CASE LexIgnored
        BY <1>0, <2>2 DEF LexIgnored, YYEMPTY, Sym
    <2>3. CASE LexTitle \/ LexNewline \/ LexEof
        BY <2>3 DEF LexTitle, LexNewline, LexEof, NewlineToken, Return, Sym
    <2> QED BY <2>1, <2>2, <2>3 DEF Lex
<1>3. pc' = "lex" => yychar' = YYEMPTY
    BY <1>0 DEF Lex, LexIgnored, LexTitle, LexNewline, LexToken, LexEof, Return
<1>4. yyerrstatus' \in 0 .. 3 /\ (yyerrstatus' = 3 /\ pc' \in {"lex", "backup"} => yystate' = 1)
    BY <1>0 DEF Lookahead
<1> QED BY <1>0, <1>2, <1>3, <1>4 DEF Lookahead

LEMMA LexBehind == ASSUME SInv, Titles, BehindLast, Lookahead, Lex PROVE BehindLast'
<1>0. /\ Text' = Text /\ pc = "lex" /\ yychar = YYEMPTY /\ yystate' = yystate /\ Scanned
    BY DEF SInv, Lookahead, Lex, LexIgnored, LexTitle, LexNewline, LexToken, LexEof, Return, Text, stacks, yystate
<1>1. Len(Text) \in Nat /\ pos \in Nat \ {0}
    BY <1>0, LenProperties DEF Scanned
<1> SUFFICES ASSUME NEW n \in 0 .. Len(Text), EndsAt(Text, n), pos' > n
             PROVE  /\ start' = "INITIAL" /\ yychar' \in {YYEMPTY, Sym.EOF, Sym.NEWLINE}
                    /\ yychar' # Sym.NEWLINE => yystate \in EndStates
    BY <1>0 DEF BehindLast
<1>2. pos > n => start = "INITIAL" /\ yystate \in EndStates
    BY <1>0 DEF BehindLast, YYEMPTY, Sym
<1>3. pos > n /\ pos <= Len(Text) => Text[pos].atom \in {"blank", "comment", "escape"}
    <2>1. pos > n /\ pos <= Len(Text) => pos \in n + 1 .. Len(Text)
        BY <1>1
    <2> QED BY <2>1 DEF EndsAt
<1>4. pos <= n => Text[n].atom = "newline" /\ EndsTitle(n) /\ n \in pos .. Len(Text) /\ ~Untitled(Text, n)
    BY <1>1 DEF EndsAt, EndsTitle
<1>5. pos' = pos + 1 /\ ~(pos > n) => pos = n
    BY <1>1
<1>6. CASE LexIgnored
    <2>1. pos' = pos + 1 /\ Text[pos].atom \in {"blank", "comment", "escape"} /\ UNCHANGED <<start, yychar>>
        BY <1>6 DEF LexIgnored, Ignored
    <2>2. pos > n
        BY <1>1, <1>4, <1>5, <2>1
    <2> QED BY <1>0, <1>2, <2>1, <2>2
<1>7. CASE LexTitle
    <2>1. start = "TITLE" /\ pos <= Len(Text) /\ pos' = TitleEnd(pos)
        BY <1>7 DEF LexTitle
    <2>2. pos <= n
        BY <1>1, <1>2, <2>1
    <2>3. TitleEnd(pos) <= n /\ TitleEnd(pos) \in Int
        BY <1>0, <1>1, <1>4, <2>1, <2>2, TitleEndAt
    <2> QED BY <2>1, <2>3
<1>8. CASE LexNewline
    <2>1. /\ pos <= Len(Text) /\ pos' = pos + 1 /\ start' = "INITIAL" /\ yychar' = NewlineToken
          /\ Text[pos].atom \in {"newline", "return"}
        BY <1>8 DEF LexNewline, Return
    <2>2. pos = n
        BY <1>3, <1>5, <2>1
    <2>3. start = "INITIAL"
        BY <1>1, <1>4, <2>2 DEF Titles
    <2> QED BY <2>1, <2>3 DEF NewlineToken
<1>9. CASE LexToken
    <2>1. pos <= Len(Text) /\ pos' = pos + 1 /\ Text[pos].atom \in {"bar", "word", "equals"}
        BY <1>9 DEF LexToken
    <2> QED BY <1>1, <1>3, <1>4, <1>5, <2>1
<1>10. CASE LexEof
    <2>1. pos > Len(Text) /\ UNCHANGED start /\ yychar' = Sym.EOF
        BY <1>10 DEF LexEof, Return
    <2> QED BY <1>1, <1>2, <2>1
<1> QED BY <1>6, <1>7, <1>8, <1>9, <1>10 DEF Lex

LEMMA LexWhole == ASSUME SInv, WInv, Lex PROVE WInv'
<1>1. Titles' /\ BehindLast' /\ Lookahead'
    BY LexTitles, LexBehind, LexLookahead DEF SInv, WInv
<1>2. pc' # "done"
    BY DEF Lex, LexIgnored, LexTitle, LexNewline, LexToken, LexEof, Return
<1> QED BY <1>1, <1>2 DEF WInv, Accepted

-----------------------------------------------------------------------------
(* The parser at the end of a text.                                        *)

\* A step of the parser leaves the scanner alone.
LEMMA StillTitles ==
    ASSUME Titles, UNCHANGED <<file, pos, start>>
    PROVE  Titles'
BY DEF Titles, EndsTitle, Text

LEMMA ReadWhole == ASSUME SInv, WInv, ReadToken PROVE WInv'
<1>1. /\ UNCHANGED <<file, pos, start, yychar, yyss, yyerrstatus>> /\ Text' = Text /\ yystate' = yystate
      /\ yychar = YYEMPTY /\ pc = "backup" /\ pc' = "lex"
    BY DEF ReadToken, stacks, yystate, Text
<1>2. Titles'
    BY <1>1, StillTitles DEF WInv
<1>3. BehindLast'
    BY <1>1 DEF WInv, BehindLast
<1>4. Lookahead'
    BY <1>1 DEF WInv, Lookahead
<1> QED BY <1>1, <1>2, <1>3, <1>4 DEF WInv, Accepted

\* yyparse() that is done after a push has accepted.
LEMMA PushAccepts ==
    ASSUME NEW n \in Int, yyss \in Seq(States), NEW s \in States, NEW v, n <= Len(yyss),
           Push(SubSeq(yyss, 1, n), SubSeq(yyvs, 1, n), s, v), Len(yyss') <= 13
    PROVE  (pc' = "done" => result' = 0) /\ pc' \in {"done", "backup"}
<1>1. SubSeq(yyss, 1, n) \in Seq(States) /\ Len(SubSeq(yyss, 1, n)) \in Nat
    BY SubSeqProperties, LenProperties
<1>2. Len(yyss') = Len(SubSeq(yyss, 1, n)) + 1
    BY <1>1, AppendProperties DEF Push
<1> QED BY <1>1, <1>2 DEF Push, YYMAXDEPTH

LEMMA ShiftWhole == ASSUME SInv, SInv', WInv, Shift PROVE WInv'
<1> DEFINE i == At(yypact, yystate) + yychar
<1>0. /\ UNCHANGED <<file, pos, start>> /\ Text' = Text /\ yychar' = YYEMPTY
      /\ yyerrstatus' = IF yyerrstatus = 0 THEN 0 ELSE yyerrstatus - 1
      /\ Deciding /\ Decision > 0 /\ Stacks /\ Linked /\ Scanned /\ Ended
    BY DEF Shift, scanner, Text, SInv
<1>1. yystate \in States \ {YYFINAL} /\ Len(yyss) \in Nat /\ Len(yyss) > 0
    BY <1>0, TopIsState DEF Ended, Deciding
<1>2. Decision \in States
    <2>1. Decision \in -71 .. 146
        BY <1>1, Decisions
    <2> QED BY <1>0, <2>1 DEF States
<1>3. /\ NeedsLookahead /\ i \in 0 .. YYLAST /\ At(yycheck, i) = yychar /\ Decision = At(yytable, i)
    <2>1. At(yydefact, yystate) \in 0 .. 71
        BY <1>1, HexDefault
    <2> QED BY <1>0, <2>1 DEF Decision, Entry
<1>4. yychar \in Tokens /\ yychar # YYEMPTY
    BY <1>0, <1>3 DEF Deciding, Scanned
<1>5. Shifts(yystate, i)
    <2>1. At(yypact, yystate) \in Int
        BY <1>1, ActionEntries
    <2> QED BY <1>0, <1>3, <1>4, <2>1 DEF Shifts
<1>6. yychar = Sym.NEWLINE => Decision \in EndStates
    BY <1>1, <1>3, <1>5, NewlineShift DEF Sym
<1>7. SubSeq(yyss, 1, Len(yyss)) = yyss /\ SubSeq(yyvs, 1, Len(yyss)) = yyvs
    BY <1>0, WholeSeq DEF Stacks
<1>8. Push(SubSeq(yyss, 1, Len(yyss)), SubSeq(yyvs, 1, Len(yyss)), Decision, yylval)
    BY <1>7 DEF Shift
<1>9. yystate' = Decision
    BY <1>0, <1>1, <1>2, <1>8, PushKeeps
<1>10. (Len(yyss) <= 13)'
    BY ShallowStack, PTL
<1>11. (pc' = "done" => result' = 0) /\ pc' \in {"done", "backup"}
    BY <1>0, <1>1, <1>2, <1>8, <1>10, PushAccepts DEF Stacks
<1>12. BehindLast'
    <2> SUFFICES ASSUME NEW n \in 0 .. Len(Text), EndsAt(Text, n), pos > n
                 PROVE  start = "INITIAL" /\ Decision \in EndStates
        BY <1>0, <1>9 DEF BehindLast
    <2>1. /\ start = "INITIAL" /\ yychar \in {YYEMPTY, Sym.EOF, Sym.NEWLINE}
          /\ yychar # Sym.NEWLINE => yystate \in EndStates
        BY DEF WInv, BehindLast
    <2>2. CASE yychar = Sym.NEWLINE
        BY <1>6, <2>1, <2>2
    <2>3. CASE yychar # Sym.NEWLINE
        BY <1>0, <1>1, <2>1, <2>3, EndDecision
    <2> QED BY <2>2, <2>3
<1>13. Lookahead'
    <2>1. yychar' # Sym.EOF /\ pc' # "lex"
        BY <1>0, <1>11 DEF YYEMPTY, Sym
    <2>2. yyerrstatus' \in 0 .. 2
        BY <1>0 DEF WInv, Lookahead
    <2> QED BY <1>0, <2>1, <2>2 DEF WInv, Lookahead
<1> QED BY <1>0, <1>11, <1>12, <1>13, StillTitles DEF WInv, Accepted

LEMMA ReduceWhole ==
    ASSUME SInv, SInv', WInv, Deciding, Rule > 0, NEW v, Reduce(v), yyerrstatus' \in {yyerrstatus, 0}, UNCHANGED start
    PROVE  WInv'
<1> DEFINE k == At(yyr1, Rule) - YYNTOKENS
<1>0. /\ UNCHANGED <<file, pos, start, yychar>> /\ Text' = Text
      /\ Stacks /\ Linked /\ Scanned /\ Ended
    BY DEF Reduce, scanner, Text, SInv
<1>1. yystate \in States \ {YYFINAL} /\ Len(yyss) \in Nat
    BY <1>0, TopIsState DEF Ended, Deciding
<1>2. PICK n \in 1 .. Len(yyss) :
              /\ yyss[n] \in Start(yystate) /\ Goto(yyss[n], k) \in States
              /\ Push(SubSeq(yyss, 1, n), SubSeq(yyvs, 1, n), Goto(yyss[n], k), v)
    BY <1>0, ReduceLinks
<1> DEFINE to == Goto(yyss[n], k)
<1>3. yystate' = to
    <2> HIDE DEF to
    <2> QED BY <1>0, <1>1, <1>2, PushKeeps DEF to
<1>4. (Len(yyss) <= 13)'
    BY ShallowStack, PTL
<1>5. (pc' = "done" => result' = 0) /\ pc' \in {"done", "backup"}
    <2> HIDE DEF to
    <2> QED BY <1>0, <1>1, <1>2, <1>4, PushAccepts DEF Stacks, to
<1>6. BehindLast'
    <2> SUFFICES ASSUME NEW m \in 0 .. Len(Text), EndsAt(Text, m), pos > m
                 PROVE  /\ start = "INITIAL" /\ yychar \in {YYEMPTY, Sym.EOF, Sym.NEWLINE}
                        /\ yychar # Sym.NEWLINE => to \in EndStates
        BY <1>0, <1>3 DEF BehindLast
    <2>1. /\ start = "INITIAL" /\ yychar \in {YYEMPTY, Sym.EOF, Sym.NEWLINE}
          /\ yychar # Sym.NEWLINE => yystate \in EndStates
        BY DEF WInv, BehindLast
    <2>2. ASSUME yychar # Sym.NEWLINE PROVE to \in EndStates
        <3>1. ~(Decision > 0)
            <4>1. Decision \in -71 .. 146
                BY <1>1, Decisions
            <4> QED BY <4>1 DEF Rule
        <3>2. yystate \in EndStates \ {7, YYFINAL} /\ Rule = EndRule(yystate)
            BY <1>1, <2>1, <2>2, <3>1, EndDecision
        <3> QED BY <1>2, <3>2, EndGoto
    <2> QED BY <2>1, <2>2
<1>7. Lookahead'
    <2>1. yystate # 1
        <3>1. ASSUME yystate = 1 PROVE FALSE
            <4>1. Decision >= 0 /\ Decision \in -71 .. 146
                BY <1>0, <1>1, <3>1, AfterError, Decisions DEF Scanned
            <4> QED BY <4>1 DEF Rule
        <3> QED BY <3>1
    <2>2. yyerrstatus # 3 /\ pc = "backup"
        BY <2>1 DEF WInv, Lookahead, Deciding
    <2> QED BY <1>0, <1>5, <2>2 DEF WInv, Lookahead
<1> QED BY <1>0, <1>5, <1>6, <1>7, StillTitles DEF WInv, Accepted

\* The bottom of the stack can take the error token: recovery never fails.
LEMMA BottomTakesError == ASSUME Stacks, Linked PROVE 1 \in 1 .. Len(yyss) /\ OnError(yyss[1]) > 0
<1>1. Len(yyss) \in Nat /\ Len(yyss) > 0 /\ yyss[1] \in States
    BY TopIsState, ElementOfSeq DEF Stacks
<1>2. 1 > Dot(yyss[1])
    BY <1>1 DEF Linked
<1>3. \A s \in States : Dot(s) < 1 => s = 0
    BY DEF States, Dot, dot, At
<1>4. yyss[1] = 0
    BY <1>1, <1>2, <1>3, StateRange
<1>5. OnError(0) = 1
    BY DEF OnError, Entry, At, yypact, yytable, yycheck, YYPACT_NINF, YYLAST, Sym
<1> QED BY <1>1, <1>4, <1>5

LEMMA ErrorWhole == ASSUME SInv, SInv', WInv, SyntaxError PROVE WInv'
<1> DEFINE keep == {n \in 1 .. Len(yyss) : OnError(yyss[n]) > 0}
           n == Max(keep)
<1>0. /\ UNCHANGED <<file, pos, start>> /\ Text' = Text /\ yyerrstatus' = 3
      /\ Deciding /\ Decision = 0 /\ pc = "backup" /\ Stacks /\ Linked /\ Scanned /\ Ended
    BY DEF SyntaxError, scanner, Text, SInv, Deciding
<1>1. yystate \in States \ {YYFINAL} /\ Len(yyss) \in Nat
    BY <1>0, TopIsState DEF Ended
<1>2. keep # {}
    BY <1>0, BottomTakesError
\* At the end of a text that ends with NEWLINE there is no error but in front of it.
<1>3. ASSUME NEW m \in 0 .. Len(Text), EndsAt(Text, m), pos > m
      PROVE  start = "INITIAL" /\ yychar = Sym.NEWLINE /\ yyerrstatus # 3
    <2>1. /\ start = "INITIAL" /\ yychar \in {YYEMPTY, Sym.EOF, Sym.NEWLINE}
          /\ yychar # Sym.NEWLINE => yystate \in EndStates
        BY <1>3 DEF WInv, BehindLast
    <2>2. yychar = Sym.NEWLINE
        BY <1>0, <1>1, <2>1, EndDecision
    <2>3. yyerrstatus # 3
        <3>1. ASSUME yyerrstatus = 3 PROVE FALSE
            <4>1. yystate = 1
                BY <1>0, <3>1 DEF WInv, Lookahead
            <4>2. Decision > 0
                BY <1>0, <2>2, <4>1, AfterError DEF Scanned
            <4> QED BY <1>0, <4>2
        <3> QED BY <3>1
    <2> QED BY <2>1, <2>2, <2>3
<1>4. CASE yyerrstatus = 3 /\ yychar = Sym.EOF
    <2>1. pc' = "done" /\ UNCHANGED <<yychar, yyss>> /\ yystate' = yystate
        BY <1>4 DEF SyntaxError, stacks, yystate
    <2>2. ~EndsWhole(Text)
        <3>1. ASSUME NEW m \in 0 .. Len(Text), EndsAt(Text, m) PROVE FALSE
            <4>1. pos > Len(Text)
                BY <1>4 DEF WInv, Lookahead
            <4>2. Len(Text) \in Nat /\ pos \in Nat
                BY <1>0, LenProperties DEF Scanned
            <4> QED BY <1>3, <1>4, <3>1, <4>1, <4>2
        <3> QED BY <3>1 DEF EndsWhole
    <2>3. BehindLast'
        BY <1>0, <2>1 DEF WInv, BehindLast
    <2>4. Lookahead'
        BY <1>0, <2>1 DEF WInv, Lookahead
    <2> QED BY <1>0, <2>1, <2>2, <2>3, <2>4, StillTitles DEF WInv, Accepted
<1>5. CASE ~(yyerrstatus = 3 /\ yychar = Sym.EOF)
    <2>1. yychar' = Discarded /\ Push(SubSeq(yyss, 1, n), SubSeq(yyvs, 1, n), OnError(yyss[n]), yylval)
        BY <1>2, <1>5 DEF SyntaxError
    <2>2. n \in keep
        BY <1>1, <1>2, LargestOf DEF Max
    <2>3. n \in 1 .. Len(yyss) /\ yyss[n] \in States /\ OnError(yyss[n]) > 0
        BY <1>0, <2>2, ElementOfSeq DEF Stacks
    <2> HIDE DEF n
    <2>4. OnError(yyss[n]) = 1 /\ 1 \in States
        <3>1. OnError(yyss[n]) = 1
            BY <2>3, ErrorToken
        <3> QED BY <3>1 DEF States
    <2>5. yystate' = 1
        BY <1>0, <1>1, <2>1, <2>3, <2>4, PushKeeps
    <2>6. (Len(yyss) <= 13)'
        BY ShallowStack, PTL
    <2>7. (pc' = "done" => result' = 0) /\ pc' \in {"done", "backup"}
        BY <1>0, <1>1, <2>1, <2>3, <2>4, <2>6, PushAccepts DEF Stacks
    <2>8. BehindLast'
        <3> SUFFICES ASSUME NEW m \in 0 .. Len(Text), EndsAt(Text, m), pos > m
                     PROVE  start = "INITIAL" /\ yychar' = Sym.NEWLINE
            BY <1>0 DEF BehindLast
        <3> QED BY <1>3, <2>1 DEF Discarded
    <2>9. Lookahead'
        <3>1. yychar' = Sym.EOF => yychar = Sym.EOF
            BY <2>1 DEF Discarded, YYEMPTY, Sym
        <3> QED BY <1>0, <2>5, <2>7, <3>1 DEF WInv, Lookahead
    <2> QED BY <1>0, <2>7, <2>8, <2>9, StillTitles DEF WInv, Accepted
<1> QED BY <1>4, <1>5

LEMMA ReductionWhole ==
    ASSUME SInv, SInv', WInv,
           ReducePlain \/ ReduceError \/ ReduceDk \/ ReducePk \/ ReduceHc \/ ReduceDisc
             \/ ReduceField \/ ReduceList \/ ReduceUk \/ ReduceHexkey \/ ReduceString
    PROVE  WInv'
<1>1. Deciding /\ yyerrstatus' \in {yyerrstatus, 0}
    BY DEF ReducePlain, ReduceError, ReduceDk, ReducePk, ReduceHc, ReduceDisc, ReduceField,
           ReduceList, ReduceUk, ReduceHexkey, ReduceString, Reduces
<1>2. Rule \in Int
    <2>1. Decision \in -71 .. 146
        BY TopIsState, Decisions DEF SInv
    <2> QED BY <2>1 DEF Rule
<1>3. PICK v : Rule > 0 /\ Reduce(v)
    BY <1>1, <1>2, ActionCounts DEF SInv, Counted
<1>4. UNCHANGED start
    BY <1>3 DEF Reduce, scanner
<1> QED BY <1>1, <1>3, <1>4, ReduceWhole

-----------------------------------------------------------------------------
(* The files.                                                              *)

\* The parser in front of a text.
AtBegin ==
    /\ pos = 1 /\ start = "INITIAL" /\ yychar = YYEMPTY /\ pc \in {"idle", "backup"}
    /\ yyss = <<0>> /\ yyerrstatus = 0 /\ \A i \in DOMAIN Text : Text[i].token # Sym.EOF

LEMMA BeginWhole == AtBegin => WInv
<1> SUFFICES ASSUME AtBegin PROVE WInv
    OBVIOUS
<1>1. yystate = 0 /\ 0 \in EndStates
    BY DEF AtBegin, yystate, Last, EndStates
<1>2. Titles
    <2>1. Stopped(Text, 1)
        BY DEF Stopped
    <2> QED BY <2>1 DEF AtBegin, Titles
<1>3. BehindLast
    BY <1>1 DEF AtBegin, BehindLast
<1>4. Lookahead /\ Accepted
    BY DEF AtBegin, Lookahead, Accepted, YYEMPTY, Sym
<1> QED BY <1>2, <1>3, <1>4 DEF WInv

LEMMA SourceFacts ==
    ASSUME setup \in Setups, NEW s \in DOMAIN Sources
    PROVE  /\ \A i \in DOMAIN Sources[s].text : Sources[s].text[i].token # Sym.EOF
           /\ ~L!Incomplete(Sources[s].lines, Sources[s].cut) => EndsWhole(Sources[s].text)
<1>1. Sources[s] \in {setup.user, setup.system}
    BY DEF Sources
<1>2. \A i \in DOMAIN Sources[s].text : Sources[s].text[i].token \in 3 .. YYNTOKENS - 1
    BY <1>1, ConfigLoadAssumption
<1>3. ~L!Incomplete(Sources[s].lines, Sources[s].cut) => EndsWhole(Sources[s].text)
    BY <1>1, ConfigLoadAssumption
<1> QED BY <1>2, <1>3 DEF Sym

LEMMA WholeInit == Init => WInv
<1> SUFFICES ASSUME Init PROVE WInv
    OBVIOUS
<1>1. AtBegin
    BY DEF Init, ParserInit, AtBegin, Text
<1> QED BY <1>1, BeginWhole

LEMMA SourceAt ==
    ASSUME SInv, src <= Len(Sources)
    PROVE  src \in DOMAIN Sources /\ setup \in Setups
BY DEF SInv, Scanned, Sources

LEMMA WholeStep == ASSUME SInv, SInv', WInv, [Next]_vars PROVE WInv'
<1>1. ASSUME UNCHANGED <<file, pos, start, yychar, yyss, yyerrstatus, result>>, pc' \in {pc, "idle"}
      PROVE  WInv'
    <2>1. Titles'
        BY <1>1, StillTitles DEF WInv
    <2>2. BehindLast'
        BY <1>1 DEF WInv, BehindLast, yystate, Text
    <2>3. Lookahead' /\ Accepted'
        BY <1>1 DEF WInv, Lookahead, Accepted, yystate, Text
    <2> QED BY <2>1, <2>2, <2>3 DEF WInv
<1>2. CASE OpenFile
    <2>1. CASE UNCHANGED parser
        BY <1>1, <2>1 DEF parser, scanner, stacks
    <2>2. CASE NewParse(Sources[src])
        <3>1. src \in DOMAIN Sources /\ setup \in Setups
            BY <1>2, SourceAt DEF OpenFile
        <3>2. Text' = Sources[src].text
            BY <2>2 DEF NewParse, Text
        <3>3. \A i \in DOMAIN Text' : Text'[i].token # Sym.EOF
            BY <3>1, <3>2, SourceFacts
        <3>4. AtBegin'
            BY <2>2, <3>3 DEF NewParse, AtBegin
        <3> QED BY <3>4, BeginWhole, PTL
    <2> QED BY <1>2, <2>1, <2>2 DEF OpenFile
<1>3. CASE ParseFile
    BY <1>3, LexWhole, ReadWhole, ShiftWhole, ErrorWhole, ReductionWhole DEF ParseFile, Parse
<1>4. CASE CloseFile
    BY <1>1, <1>4 DEF CloseFile, scanner, stacks
<1>5. CASE LoadPkFiles \/ LoadCertFiles \/ ParseEmbedded
    BY <1>1, <1>5 DEF LoadPkFiles, LoadCertFiles, ParseEmbedded, Collect, scanner, stacks
<1>6. CASE UNCHANGED vars
    BY <1>1, <1>6 DEF vars, parser, scanner, stacks
<1> QED BY <1>2, <1>3, <1>4, <1>5, <1>6 DEF Next

\* No keys in the files with processing keys: the list stays what it was.
LEMMA NothingAdded == ASSUME NEW list PROVE FoldLeft(AddNew, list, <<>>) = list
<1> DEFINE S == DOMAIN <<>>
           P(f) == f = [s \in SUBSET S |-> IF s = {} THEN list ELSE AddNew(f[s \ {Max(s)}], <<>>[Max(s)])]
           g == [s \in SUBSET S |-> list]
<1>1. S = {}
    OBVIOUS
<1>2. SUBSET S = {{}}
    BY <1>1
<1>3. P(g)
    BY <1>2
<1>4. P(CHOOSE f : P(f))
    BY <1>3
<1>5. FoldLeft(AddNew, list, <<>>) = (CHOOSE f : P(f))[S]
    BY DEF FoldLeft, MapThenFoldSet
<1> HIDE DEF P
<1>6. ASSUME NEW f, P(f) PROVE f[S] = list
    BY <1>1, <1>2, <1>6 DEF P
<1> QED BY <1>4, <1>5, <1>6

LEMMA CollectedInit == Init => Collected
BY DEF Init, ParserInit, Collected, NoKeys

LEMMA CollectedStep == ASSUME SInv, WInv, Collected, [Next]_vars PROVE Collected'
<1>1. ASSUME UNCHANGED <<setup, file, stage, src, config_ok, loaded>>, stage = "parse" \/ UNCHANGED cf
      PROVE  Collected'
    BY <1>1 DEF Collected, CompleteFiles, Sources
<1>2. CASE OpenFile
    <2>1. CASE UNCHANGED <<parser, stage>>
        BY <1>2, <2>1 DEF OpenFile, Collected, CompleteFiles, Sources, parser, data
    <2>2. CASE NewParse(Sources[src]) /\ stage' = "parse" /\ UNCHANGED src
        <3>1. src \in DOMAIN Sources /\ UNCHANGED Sources
            BY <1>2, SourceAt DEF OpenFile, Sources
        <3> QED BY <2>2, <3>1 DEF Collected, NewParse
    <2> QED BY <1>2, <2>1, <2>2 DEF OpenFile
<1>3. CASE ParseFile
    <2>1. UNCHANGED file
        BY <1>3 DEF ParseFile, Lex, LexIgnored, LexTitle, LexNewline, LexToken, LexEof, Return, Parse, ReadToken,
               Shift, SyntaxError, ReducePlain, ReduceError, ReduceDk, ReducePk, ReduceHc, ReduceDisc, ReduceField,
               ReduceList, ReduceUk, ReduceHexkey, ReduceString, Reduce
    <2> QED BY <1>1, <1>3, <2>1 DEF ParseFile
<1>4. CASE CloseFile
    <2>1. /\ pc = "done" /\ stage = "parse" /\ stage' = "open" /\ config_ok' = (config_ok \/ result = 0)
          /\ UNCHANGED <<setup, loaded>>
        BY <1>4 DEF CloseFile
    <2>2. ASSUME CompleteFiles PROVE result = 0
        <3>1. src \in DOMAIN Sources /\ file = Sources[src] /\ setup \in Setups
            BY <2>1 DEF Collected, SInv, Scanned
        <3>2. EndsWhole(Text)
            BY <2>2, <3>1, SourceFacts DEF CompleteFiles, Text
        <3> QED BY <2>1, <3>2 DEF WInv, Accepted
    <2>3. CompleteFiles' <=> CompleteFiles
        BY <2>1 DEF CompleteFiles, Sources
    <2> QED BY <2>1, <2>2, <2>3 DEF Collected
<1>5. ASSUME UNCHANGED setup, stage' \in {"cert", "embedded", "done"}, stage # "parse",
             config_ok => config_ok', config_ok' \/ UNCHANGED cf, stage' = "done" => loaded' = config_ok'
      PROVE  Collected'
    BY <1>5 DEF Collected, CompleteFiles, Sources
<1>6. CASE LoadPkFiles
    <2> DEFINE keys == setup.pk_user \o setup.pk_system
    <2>1. /\ stage = "open" /\ stage' = "cert" /\ cf' = [cf EXCEPT !.pk = FoldLeft(AddNew, @, keys)]
          /\ config_ok' = (config_ok \/ keys # <<>>) /\ UNCHANGED setup
        BY <1>6 DEF LoadPkFiles, Collect
    <2>2. ASSUME CompleteFiles, ~config_ok' PROVE cf' = NoKeys
        <3>1. cf = NoKeys /\ keys = <<>>
            BY <2>1, <2>2 DEF Collected
        <3>2. FoldLeft(AddNew, cf.pk, keys) = cf.pk
            BY <3>1, NothingAdded
        <3>3. cf' = [NoKeys EXCEPT !.pk = NoKeys.pk]
            BY <2>1, <3>1, <3>2
        <3> QED BY <3>3 DEF NoKeys
    <2>3. CompleteFiles' <=> CompleteFiles
        BY <2>1 DEF CompleteFiles, Sources
    <2> QED BY <2>1, <2>2, <2>3 DEF Collected
<1>7. CASE LoadCertFiles
    BY <1>5, <1>7 DEF LoadCertFiles, Collect
<1>8. CASE ParseEmbedded
    BY <1>5, <1>8 DEF ParseEmbedded, Collect, OkIfAny
<1>9. CASE UNCHANGED vars
    BY <1>1, <1>9 DEF vars, parser, data
<1> QED BY <1>2, <1>3, <1>4, <1>6, <1>7, <1>8, <1>9 DEF Next

LEMMA CollectedImplies == Collected => NothingIsThrownAway
<1> SUFFICES ASSUME Collected, stage = "done", ~loaded, CompleteFiles
             PROVE  cf.dk \o cf.pk \o cf.hc \o cf.entries = <<>>
    BY DEF NothingIsThrownAway, CompleteFiles
<1>1. cf = NoKeys
    BY DEF Collected
<1> QED BY <1>1 DEF NoKeys

\* For all files, whatever errors are in them: when the library says that there is no
\* configuration, and no KEYDB.cfg ends in the middle of a line, no key was read.
THEOREM NothingGetsLost == Spec => []NothingIsThrownAway
<1>1. Init => SInv /\ WInv /\ Collected
    BY StringsInit, WholeInit, CollectedInit
<1>2. (SInv /\ WInv /\ Collected) /\ [Next]_vars => (SInv /\ WInv /\ Collected)'
    BY StringsStep, WholeStep, CollectedStep
<1>3. Init /\ [][Next]_vars => [](SInv /\ WInv /\ Collected)
    BY <1>1, <1>2, PTL
<1> QED BY <1>3, CollectedImplies, PTL DEF Spec
=============================================================================
