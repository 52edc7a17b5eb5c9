---------------------------- MODULE MCPreflight ----------------------------
EXTENDS Preflight

\* Every command of up to four words, one text among them.
Words == {<<w>> : w \in {"--GI", "--ZZZ", "--game", "--extra", "--log", "--probe",
                         "--help", "--elevation-relaunch", "YuanShen.exe"}}
ShortCommands == UNION {[1 .. n -> Words] : n \in 0 .. 4}

\* Every extra text of up to four characters.
Texts == UNION {[1 .. n -> {"a", Blank, Slash, Quote}] : n \in 0 .. 4}
Path == <<"my", Blank, "games", Slash, "GenshinImpact.exe">>
TextCommands ==
  {<<<<"--GI">>, <<"--extra">>, t, <<"--game">>, Path, <<"--log">>>> : t \in Texts}
    \cup {<<<<"--game">>, Path, <<"--GI">>, <<"--extra">>, t>> : t \in Texts}

MCCommands == ShortCommands \cup TextCommands

Bytes(n) == [0 .. n - 1 -> {0, 1}]
SomeBytes(n) == [i \in 0 .. n - 1 |-> i % 2]

MakeSection(rva, virtual, raw, rawSize, code) ==
  [rva |-> rva, size |-> Max({virtual, rawSize}), raw |-> raw,
   rawSize |-> rawSize, code |-> code]

\* Any two sections of these, well formed or not.
AnySection ==
  {MakeSection(rva, virtual, raw, rawSize, code) :
     rva \in {0, 1, 3, 7}, virtual \in {1, 2, 7}, raw \in {0, 1, 2, 4, 7},
     rawSize \in {0, 2, 7}, code \in {TRUE}}
Tables ==
  {[loaded |-> l, sections |-> <<s, t>>, bytes |-> SomeBytes(6)] :
     l \in BOOLEAN, s \in AnySection, t \in AnySection}

\* Two code sections and data, with every content.
Contents ==
  {[loaded |-> FALSE, bytes |-> b,
    sections |-> <<MakeSection(1, 1, 1, 4, TRUE), MakeSection(5, 1, 5, 1, FALSE)>>] :
     b \in Bytes(6)}
  \cup
  {[loaded |-> TRUE, bytes |-> b,
    sections |-> <<MakeSection(1, 3, 0, 0, TRUE), MakeSection(4, 2, 0, 0, TRUE)>>] :
     b \in Bytes(6)}

MCImages == Tables \cup Contents

MakeRule(bytes, mask) == [bytes |-> bytes, mask |-> mask]
MCRules ==
  {MakeRule(<<a, b>>, <<TRUE, TRUE>>) : a, b \in {0, 1}}
    \cup {MakeRule(<<0, a, b>>, <<FALSE, TRUE, TRUE>>) : a, b \in {0, 1}}
    \cup {MakeRule(<<a, 0, b, b>>, <<TRUE, FALSE, TRUE, TRUE>>) : a, b \in {0, 1}}
=============================================================================
