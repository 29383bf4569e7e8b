----------------------------- MODULE MCProcessor ----------------------------
(* An instance of Processor for TLC. *)
EXTENDS Processor, TLC

CONSTANTS market, condition, yes, no

L(p, n) == [price |-> [value |-> p, zeros |-> 0], size |-> n]

\* The same price spelled with a zero more.
Z(p, n) == [price |-> [value |-> p, zeros |-> 1], size |-> n]

E(k, t, b, a) == [kind |-> k, token |-> t, bids |-> b, asks |-> a]

\* Whole books, level changes that add, resize and remove levels (one
\* removes a price that may not be there, or be there in two spellings),
\* best-price changes; the NO side for mixing.
RawEvents == {
    E("book", yes, <<L(2, 1), L(3, 1), L(4, 2)>>, <<Z(6, 2), L(6, 1)>>),
    E("delta", yes, <<L(4, 0), L(3, 2), L(5, 1)>>, <<L(6, 0), L(7, 1)>>),
    E("change", yes, <<L(3, 2)>>, <<L(5, 2)>>),
    E("change", yes, <<>>, <<L(7, 0)>>),
    E("delta", no, <<L(1, 1)>>, <<L(6, 0)>>) }

SomeTrades == { [token |-> no, price |-> 4, size |-> 2] }

\* No step tells one partition from another.
Symmetry == Permutations(Partitions)

\* What the books of these events can be.
AnyUpdate == [token : Tokens, bid : Prices("bids"), ask : Prices("asks")]
=============================================================================
