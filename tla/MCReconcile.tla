------------------------------ MODULE MCReconcile ------------------------------
(* Every triple of: orders over four keys, elements of three children, each    *)
(* the same as in the base or with one or both of two properties set (to       *)
(* different values), against a base in one order up to the naming of the keys; *)
(* documents of up to three distinct lines, two of them headings; decks of up  *)
(* to two slides with two contents, listed in either order or not at all.      *)
EXTENDS Reconcile

CONSTANTS n1, n2, n3,         \* child objects
          d1, d2,             \* contents of slide files
          color, text,        \* properties of an object
          intent, log, x, y   \* lines

Distinct(S, most) == UNION {{s \in [1..n -> S] : IsInjective(s)} : n \in 0..most}

MCBases == {SubSeq(<<1, 2, 3, 4>>, 1, n) : n \in 0..4}

MCLists == Distinct(1..4, 4)

MCChild == {n1, n2, n3}

MCOrders == Distinct(MCChild, 3)

MCData == {d1, d2}

MCProperty == {color, text}

\* The object of the base, one with a new color, one with another color and a new text.
Plain == [p \in MCProperty |-> 0]

MCObjects == {Plain, [Plain EXCEPT ![color] = 1], [p \in MCProperty |-> 2]}

MCAncestors ==
  {[children |-> [c \in MCChild |-> IF c \in ToSet(s) THEN Plain ELSE Absent], order |-> s] :
     s \in {SubSeq(<<n1, n2, n3>>, 1, n) : n \in 0..3}}

MCHeading == {intent, log}

MCText == {x, y}

MCDocs == Distinct(MCHeading \cup MCText, 3) \ {<<>>}

MCSlide == {1, 2}

Decks == {NoFile} \cup [order : {<<>>, <<1, 2>>, <<2, 1>>}, title : {"t"}]

DeckFile == <<0, "yaml">>

File == MCSlide \X {"html", "md"}

\* The companions of the two slides have the same content.
Contents == {f \in [File -> MCData] : f[<<1, "md">>] = f[<<2, "md">>]}

\* Complete decks: slides come in pairs, and with a deck.yaml.
MCSnapshots ==
  {[p \in {DeckFile} \cup File |-> IF p = DeckFile THEN c[1]
                                   ELSE IF p[1] \in c[2] THEN c[3][p] ELSE NoFile] :
     c \in {a \in Decks \X (SUBSET MCSlide) \X Contents : a[1] = NoFile => a[2] = {}}}

\* Up to the naming of the contents of each file.
MCBaseSnapshots == {s \in MCSnapshots : \A p \in File : s[p] # d2}
================================================================================
