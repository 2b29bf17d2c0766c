------------------------------- MODULE MCCodec -------------------------------
(***************************************************************************)
(* Stanzas for Codec: every kind of text, address, value and content, and  *)
(* the lengths on both sides of each limit.                                *)
(***************************************************************************)
EXTENDS Codec

Copies(c, n) == [i \in 1 .. n |-> c]
Blob(n) == [n |-> n, of |-> IF n = 0 THEN <<>> ELSE Opaque]

None == [t |-> "none"]
Leaf == [tag |-> <<"x">>, attrs |-> <<>>, content |-> None]

Tagged(s) == [Leaf EXCEPT !.tag = s]
With(key, value) == [Leaf EXCEPT !.attrs = << [key |-> key, value |-> value] >>]
Having(content) == [Leaf EXCEPT !.content = content]
Str(s) == [t |-> "str", s |-> s]

Phone == <<"4", "9", "1", "7">>
Whatsapp == <<"s.whatsapp.net">>

Texts ==
    {<<>>, <<"id">>, <<"account_sync">>, <<"1">>, <<"1", "2">>, <<"-", "1">>, Phone,
     <<"4", "9", "1">>, <<"1", ".", "2">>, <<"A">>, <<"A", "F">>, <<"A", "F", "1">>, <<"x">>,
     <<"1", "x">>, <<"e_acute">>, <<"x", "@">>, Phone \o <<"@">> \o Whatsapp}

LongTexts ==
    {Copies(c, n) : c \in {"1", "A"}, n \in {253, 254, 255, 256}}
    \cup {Copies("x", n) : n \in {255, 256}}
    \cup {Copies("e_acute", n) : n \in {127, 128}}

Users == {<<>>, Phone, <<"x">>, <<"x", "@", "x">>}
Servers == {Whatsapp, <<"lid">>, <<"hosted">>, <<"hosted.lid">>, <<"g.us">>, <<"x">>}
Jids == {JID(u, s, d) : u \in Users, s \in Servers, d \in {0, 1, 255, 256}}

\* Addresses as text: a device behind either separator, none, zero, no number, two servers.
DeviceParts ==
    {<<>>, <<":", "1">>, <<".", "1">>, <<".", "2", "5", "6">>, <<".", "0">>, <<".", "x">>,
     <<".", "1", ":", "x">>, <<".", "1", ":", "2">>}
Addresses ==
    {Phone \o x \o <<"@">> \o s : x \in DeviceParts, s \in {Whatsapp, <<"lid">>, <<"g.us">>}}
    \cup {Phone \o <<"@", "x", "@">> \o Whatsapp, <<"@">> \o Whatsapp}

Values ==
    Jids \cup {Str(s) : s \in Texts \cup LongTexts \cup Addresses}
    \cup {[t |-> "bool", b |-> b] : b \in BOOLEAN}
    \cup {[t |-> "int", digits |-> s] : s \in {<<"1">>, Phone, <<"-", "4">>}}
    \cup {[t |-> "bytes", body |-> b] : b \in {Blob(0), Blob(1), Utf8(Phone), Utf8(<<"id">>)}}

Contents ==
    {[t |-> "bytes", body |-> Blob(n)] :
        n \in {0, 1, 255, 256, 65535, 65536, 1048575, 1048576, 16777216}}
    \cup {[t |-> "str", s |-> s] : s \in Texts}
    \cup {[t |-> "list", nodes |-> Copies(Leaf, n)] : n \in {0, 1, 2, 255, 256}}
    \cup {[t |-> "list", nodes |-> <<With(<<"id">>, v), Leaf>>] : v \in {Str(Phone), Str(<<"A">>)}}

\* Counts of 255, 256 and 257 items.
Many(n, content) ==
    [tag |-> <<"x">>, content |-> content,
     attrs |-> [i \in 1 .. n |-> [key |-> Copies("x", i), value |-> Str(<<"id">>)]]]

ManyAttrs == {Many(n, c) : n \in {127, 128}, c \in {None, [t |-> "bytes", body |-> Blob(1)]}}

MCNodes ==
    {Tagged(s) : s \in Texts \cup LongTexts} \cup {With(s, Str(<<"id">>)) : s \in Texts}
    \cup {With(<<"id">>, v) : v \in Values} \cup {Having(c) : c \in Contents} \cup ManyAttrs
=============================================================================
