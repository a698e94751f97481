---------------------------- MODULE MCJtagPort ----------------------------
(* Instances of JtagPort for TLC.                                         *)
EXTENDS JtagPort

\* A preamble of two bytes, the first of which is in the signature.
Sig == <<2, 90>>
Wrapper(strings, pay) ==
  Sig \o <<0, 1>> \o strings \o <<15, Len(pay)>> \o pay

\* Payloads, one of which looks like the begin of a wrapper.
P1 == <<1>>
P2 == <<3, 2>>
P3 == <<2, 90>>
TwoStreams == {P1, P2}

File(bytes, pay) == [bytes |-> bytes, payload |-> pay]
Zeros(n) == [i \in 1 .. n |-> 0]
Raw(pay) == File(<<70, Len(pay), 0>> \o pay, pay)
Bare(strings, pay) == File(Wrapper(strings, pay), pay)
Container(gap, pay) == <<71>> \o Zeros(gap) \o Wrapper(<<11, 1, 1, 12, 0>>, pay)

\* One that ends early, one shorter than the magic, an empty payload, too many
\* records, and a preamble that is too long.
Malformed ==
  {<<70, 3, 0, 1>>, <<2, 90>>, <<70, 0, 0>>,
   Wrapper(<<11, 0, 12, 0, 13, 0, 14, 0>>, P1),
   <<4, 90, 0, 0, 0, 1, 15, 1, 1>>,
   \* containers: shorter than their header, and with a wrapper in which the
   \* limit of the search falls
   <<71>> \o Wrapper(<<>>, P1), Container(14, P1)}

SomeFiles ==
  {Raw(P2), Bare(<<>>, P3),
   \* a preamble as long as may be, and strings one of which holds a tag
   File(<<3, 90, 0, 0, 1, 11, 2, 15, 1, 14, 0, 15, 2>> \o P2, P2),
   \* a wrapper in the usual place, and another before it
   File(<<71>> \o Wrapper(<<>>, P1) \o Container(1, P3), P3)}
    \cup {File(Container(gap, P3), P3) : gap \in {0, 9, 13}}
    \cup {File(bytes, None) : bytes \in Malformed}

=============================================================================
