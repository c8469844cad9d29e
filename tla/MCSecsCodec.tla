---------------------------- MODULE MCSecsCodec ----------------------------
(* Items with every format, every form of a length and values at the ends   *)
(* of their ranges (TLC's integers end at 2^31 - 1), and short foreign      *)
(* bodies made of format bytes, length markers and stray bytes.             *)
EXTENDS SecsCodec

Many(n, x) == [i \in 1 .. n |-> x]

AllItems ==
  {Item(f, <<>>) : f \in DOMAIN FormatByte}
  \cup {Item("B", Many(n, 7)) : n \in {1, 127, 128, 255, 256, 300}}
  \cup {Item("A", <<72, 105>>), Item("A", Many(128, 65)), Item("Boolean", <<TRUE, FALSE>>),
        Item("U1", <<0, 255>>), Item("U2", <<1, 65535>>), Item("U4", <<256, 2147483647>>),
        Item("U8", <<2147483647>>), Item("F4", <<1>>), Item("F8", <<65536>>)}
  \cup {Item("I1", <<-128, -1, 127>>), Item("I2", <<-32768, -2, 32767>>),
        Item("I4", <<-2147483647, -256, 255>>), Item("I8", <<-2147483647, 5>>)}
  \cup {Item("L", <<Item("U1", <<1>>), Item("L", <<>>), Item("A", <<65>>)>>),
        Item("L", <<Item("L", <<Item("I2", <<-1>>)>>)>>), Item("L", Many(128, Item("B", <<>>)))}

FewItems == {Item("L", <<Item("U4", <<7>>), Item("A", <<>>)>>)}
MCItems == <<AllItems, FewItems>>

MCBodies ==
  <<{<<f>> \o c \o p : f \in {0, 1, 36, 64, 104},
                       c \in {<<1>>, <<129, 1>>, <<130, 0, 2>>, <<131, 0, 0, 2>>, <<132, 0, 0, 0, 1>>},
                       p \in {<<>>, <<0>>, <<2, 255>>, <<255, 65>>, <<36, 0>>}}
      \cup {<<0, 2, 32, 1, 9, 0, 0, 7>>, <<0, 2, 32, 1, 9>>, <<64, 131, 0, 0>>},
    {}>>

MCHeaders ==
  <<{Header(0, 1, 13, TRUE, 0, 100), Header(65535, 127, 255, FALSE, 0, 2147483647)},
    {Header(1, 150, 12, FALSE, 0, 3)}>>

=============================================================================
