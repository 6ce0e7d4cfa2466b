---------------------------- MODULE MCConfigLoad ----------------------------
(* Instances of ConfigLoad for TLC: KEYDB.cfg files of up to three lines,  *)
(* written with newlines or with carriage returns and newlines.            *)
EXTENDS ConfigLoad

Word(token) == [atom |-> "word", token |-> token, len |-> 0, val |-> <<>>]
Hex(v, len) == [Word(Sym.HEXSTRING) EXCEPT !.len = len, !.val = <<v>>]
Bar(token) == [Word(token) EXCEPT !.atom = "bar"]
Other(atom) == [Word(Sym.BAD_ENTRY) EXCEPT !.atom = atom]
Equals == [Word(Sym.EQUALS_SIGN) EXCEPT !.atom = "equals"]
Blank == Other("blank")
OneBar == Bar(Sym.VERTICAL_BAR)
Junk == Word(Sym.BAD_ENTRY)
Number == Word(Sym.DIGIT)

\* A key of 32 digits, in one piece or in two.
Key(v) == <<Hex(v, 32)>>
Halves(v, w) == <<Hex(v, 16), Hex(w, 16)>>

(* Lines: what they mean (KeydbLines) and how they are written. *)
KeyMeans(kind, ok, val) == [kind |-> kind, ok |-> ok, val |-> val]
BadMeans(eats) == [kind |-> "bad", eats |-> eats]
DiscMeans(id, ok, items, open) == [kind |-> "disc", id |-> id, ok |-> ok, items |-> items, open |-> open]
Line(means, text) == [means |-> means, text |-> text]

DkText(key) == <<Bar(Sym.DK), Word(Sym.DEVICE_KEY)>> \o key \o <<OneBar, Word(Sym.DEVICE_NODE), Hex("n", 4)>>
DkMore == <<OneBar, Word(Sym.KEY_UV), Hex("u", 8), OneBar, Word(Sym.KEY_U_MASK_SHIFT), Hex("s", 2)>>
HcText(len) == <<Bar(Sym.HC), Word(Sym.HOST_PRIV_KEY), Hex("p", 40), OneBar, Word(Sym.HOST_CERT), Hex("c", len)>>
HcMore == <<OneBar, Word(Sym.HOST_NONCE), Hex("x", 40), OneBar, Word(Sym.HOST_KEY_POINT), Hex("y", 80)>>

KeyLines == {
    Line(KeyMeans("dk", TRUE, <<<<"k">>, <<"n">>>>), DkText(Key("k"))),
    Line(KeyMeans("dk", TRUE, <<<<"k", "l">>, <<"n">>, <<"u">>, <<"s">>>>), DkText(Halves("k", "l")) \o DkMore),
    Line(KeyMeans("dk", FALSE, <<>>), DkText(<<Hex("k", 16)>>)),
    Line(KeyMeans("pk", TRUE, <<<<"k", "l">>>>), <<Bar(Sym.PK)>> \o Halves("k", "l")),
    Line(KeyMeans("pk", TRUE, <<<<"m">>>>), <<Bar(Sym.PK)>> \o Key("m")),
    Line(KeyMeans("hc", TRUE, <<<<"p">>, <<"c">>>>), HcText(184)),
    Line(KeyMeans("hc", TRUE, <<<<"p">>, <<"c">>>>), HcText(184) \o HcMore),
    Line(KeyMeans("hc", FALSE, <<>>), HcText(180) \o <<Blank, Other("comment")>>)}
BadLines == {
    Line(BadMeans(FALSE), <<Bar(Sym.PK), Junk, Equals, Junk>>),
    Line(BadMeans(FALSE), DkText(Key("k")) \o <<OneBar>>),
    Line(BadMeans(FALSE), <<Hex("d", 40), Equals, OneBar, Junk>>),
    Line(BadMeans(FALSE), HcText(184) \o <<OneBar, Word(Sym.HOST_NONCE), Equals, Blank, Number>>)}
\* A disc without a title, or with a blank for a title.
EatingLines == {
    Line(BadMeans(TRUE), <<Hex("d", 40), Equals>>),
    Line(BadMeans(TRUE), <<Hex("d", 40), Equals, Blank>>)}

Field(type, v, ok) == [type |-> type, ok |-> ok, val |-> <<v>>]
Uk(keys) == [type |-> "uk", keys |-> keys]
K(v, ok) == [ok |-> ok, val |-> <<v>>]
List == [type |-> "list"]
Numbered(key) == <<Number, Word(Sym.HYPHEN)>> \o key
Disc(id) == <<Hex(id, 40), Equals, Blank, Junk>>
DiscLines == {
    Line(DiscMeans(<<"d">>, TRUE, <<>>, FALSE), Disc("d")),
    Line(DiscMeans(<<"d">>, TRUE, <<[type |-> "date"], Field("mk", "1", TRUE), Field("vid", "2", FALSE)>>, FALSE),
         Disc("d") \o <<Bar(Sym.DATE), Number, Word(Sym.HYPHEN), Number, Word(Sym.HYPHEN), Number,
                        Bar(Sym.MEK), Hex("1", 32), Hex("long", 100), Bar(Sym.VID), Hex("2", 30), Junk, Bar(Sym.VUK), Hex("1", 32)>>),
    Line(DiscMeans(<<"d">>, TRUE, <<Field("vuk", "3", TRUE), Uk(<<K("4", TRUE), K("5", FALSE), K("6", TRUE)>>)>>, FALSE),
         Disc("d") \o <<Bar(Sym.VUK), Hex("3", 32), Bar(Sym.UK)>> \o Numbered(Key("4"))
         \o <<OneBar>> \o Numbered(<<Hex("5", 128)>>) \o <<OneBar, Other("escape")>> \o Numbered(Key("6"))),
    Line(DiscMeans(<<"d">>, TRUE, <<Uk(<<K("7", TRUE)>>)>>, TRUE),
         Disc("d") \o <<Bar(Sym.UK)>> \o Numbered(Key("7")) \o <<OneBar, Junk, Equals, Blank, Other("escape"), Number>>),
    Line(DiscMeans(<<"d">>, TRUE, <<List, List, List, Uk(<<K("8", TRUE)>>), Uk(<<K("9", TRUE)>>)>>, FALSE),
         Disc("d") \o <<Bar(Sym.BN)>> \o Numbered(Key("b")) \o <<OneBar>> \o Numbered(Key("b"))
         \o <<Bar(Sym.PAK)>> \o Numbered(Key("b")) \o <<OneBar>> \o Numbered(Key("b"))
         \o <<Bar(Sym.TK)>> \o Numbered(Key("b")) \o <<OneBar>> \o Numbered(Key("b"))
         \o <<Bar(Sym.UK)>> \o Numbered(Key("8")) \o <<Bar(Sym.UK)>> \o Numbered(Key("9"))),
    Line(DiscMeans(<<"e">>, TRUE, <<Field("vuk", "1", TRUE), Uk(<<K("2", TRUE)>>)>>, FALSE),
         Disc("e") \o <<Bar(Sym.VUK), Hex("1", 32), Bar(Sym.UK)>> \o Numbered(Key("2"))),
    Line(DiscMeans(<<"d">>, FALSE, <<Uk(<<K("2", TRUE)>>)>>, FALSE),
         <<Hex("d", 36), Equals, Junk, Bar(Sym.UK)>> \o Numbered(Key("2")))}

AllLines == KeyLines \cup BadLines \cup DiscLines
Endings == {<<Other("newline")>>, <<Other("return"), Other("newline")>>,
            <<Blank, Other("newline"), Other("comment"), Other("newline")>>}

FileOf(ls, ending, cut) == [
    lines |-> [i \in DOMAIN ls |-> ls[i].means],
    text |-> FlattenSeq([i \in DOMAIN ls |-> ls[i].text \o IF cut /\ i = Len(ls) THEN <<>> ELSE ending]),
    cut |-> cut, there |-> TRUE]

Newline == <<Other("newline")>>
RichFiles ==
    {FileOf(<<l>>, e, c) : l \in AllLines, e \in Endings, c \in BOOLEAN}
    \cup {FileOf(<<l, m>>, e, FALSE) : l, m \in AllLines, e \in Endings}
    \cup {FileOf(<<l, m, l>>, Newline, FALSE) : l, m \in KeyLines}
    \cup {FileOf(<<l, m, n>>, Newline, FALSE) : l, n \in DiscLines, m \in BadLines \cup EatingLines}
    \cup {FileOf(<<l, m>>, Newline, FALSE) : l \in EatingLines, m \in AllLines \cup EatingLines}
    \cup {FileOf(<<l, m, n>>, Newline, FALSE) : l, m \in EatingLines, n \in KeyLines}
Files == {Missing, FileOf(<<>>, <<>>, FALSE)} \cup {FileOf(<<l>>, Newline, FALSE) : l \in AllLines \cup EatingLines}
         \cup {FileOf(<<l>>, Newline, TRUE) : l \in DiscLines}

Pk(v) == <<<<v>>>>
Hc(v) == <<<<v>>, <<"c">>>>
Nothing == [dk |-> <<>>, pk |-> <<>>, hc |-> <<>>]
Builtin == [dk |-> <<<<<<"k">>, <<"n">>>>, <<<<"m">>, <<"n">>>>, <<<<"k">>, <<"n">>>>>>,
            pk |-> <<Pk("k"), Pk("q")>>, hc |-> <<Hc("p"), Hc("s")>>]
OneFile(files) ==
    [given : {TRUE}, user : files, system : {Missing}, pk_user : {<<>>}, pk_system : {<<>>},
     hc_user : {<<>>}, hc_system : {<<>>}, embedded : {Nothing}]
\* Every file by itself, two files, and one file with everything else.
SomeSetups ==
    OneFile(RichFiles)
    \cup
    [given : {FALSE}, user : Files, system : Files, pk_user : {<<>>}, pk_system : {<<>>},
     hc_user : {<<>>}, hc_system : {<<>>}, embedded : {Nothing}]
    \cup
    [given : BOOLEAN, user : Files, system : {Missing}, pk_user : {<<>>, <<Pk("q"), Pk("r"), Pk("r")>>},
     pk_system : {<<>>, <<Pk("r")>>}, hc_user : {<<>>, <<Hc("p")>>}, hc_system : {<<>>, <<Hc("p")>>},
     embedded : {Nothing, Builtin}]

OneDisc == {<<"d">>}

\* Two lines and nothing else: a list of unit keys is broken off, and a disc line follows; a
\* disc has no title, and a key follows.
BrokenLists == OneFile({FileOf(<<l, m>>, Newline, FALSE) : l \in {k \in DiscLines : k.means.open}, m \in DiscLines})
UntitledDiscs == OneFile({FileOf(<<l, m>>, Newline, FALSE) : l \in EatingLines, m \in KeyLines})
=============================================================================
