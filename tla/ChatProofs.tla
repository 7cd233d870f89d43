----------------------------- MODULE ChatProofs -----------------------------
(***************************************************************************)
(* Theorems about Chat, for any users, friends, texts, bounds and clock.   *)
(***************************************************************************)
EXTENDS Chat, DataLemmas, SequenceTheorems

-----------------------------------------------------------------------------
(* Showing an answer, row by row *)

\* The pages while the rows of an answer are inserted: pages[k] is the one after
\* the k-th row.
ArePages(pages, shown, me, Aim, rows, n) ==
    pages = [k \in 0..n |-> IF k = 0 THEN shown ELSE ShowRow(pages[k - 1], me, Aim, rows[k])]

\* There are such pages, whatever the rows.
LEMMA PagesExist ==
    ASSUME NEW shown, NEW me, NEW Aim, NEW rows, NEW n \in Nat
    PROVE  \E pages : ArePages(pages, shown, me, Aim, rows, n)
<1> DEFINE missing == {m \in 0..n : ~ \E pages : ArePages(pages, shown, me, Aim, rows, m)}
<1>1. SUFFICES ASSUME missing # {}
               PROVE  FALSE
  OBVIOUS
<1>2. PICK m \in missing : \A k \in missing : m <= k
  <2>1. missing \in SUBSET Nat
    OBVIOUS
  <2> HIDE DEF missing
  <2> QED  BY <1>1, <2>1, LeastNatural
<1>3. CASE m = 0
  <2> DEFINE first == [k \in 0..0 |-> shown]
  <2>1. ArePages(first, shown, me, Aim, rows, 0)
    BY DEF ArePages
  <2> QED  BY <1>2, <1>3, <2>1
<1>4. CASE m # 0
  <2>1. m \in 1..n /\ m - 1 \in 0..n /\ m - 1 \notin missing
    BY <1>2, <1>4
  <2>2. PICK before : ArePages(before, shown, me, Aim, rows, m - 1)
    BY <2>1
  <2> DEFINE pages == [k \in 0..m |-> IF k = m THEN ShowRow(before[m - 1], me, Aim, rows[m])
                                               ELSE before[k]]
  <2>3. ASSUME NEW k \in 0..m
        PROVE  pages[k] = IF k = 0 THEN shown ELSE ShowRow(pages[k - 1], me, Aim, rows[k])
    <3>1. CASE k = m
      BY <2>1, <3>1
    <3>2. CASE k # m
      <4>1. k \in 0..(m - 1) /\ pages[k] = before[k]
        BY <2>1, <3>2
      <4>2. before[k] = IF k = 0 THEN shown ELSE ShowRow(before[k - 1], me, Aim, rows[k])
        BY <2>2, <4>1 DEF ArePages
      <4>3. k # 0 => pages[k - 1] = before[k - 1]
        BY <4>1, <2>1
      <4> QED  BY <4>1, <4>2, <4>3
    <3> QED  BY <3>1, <3>2
  <2>4. ArePages(pages, shown, me, Aim, rows, m)
    <3>1. pages = [k \in 0..m |-> pages[k]]
      OBVIOUS
    <3> HIDE DEF pages
    <3> QED  BY <2>3, <3>1 DEF ArePages
  <2> QED  BY <1>2, <2>4
<1> QED  BY <1>3, <1>4

\* ShowRows is the last of them.
LEMMA ShowRowsPages ==
    ASSUME NEW shown, NEW me, NEW Aim, NEW rows, Len(rows) \in Nat
    PROVE  \E pages : /\ ArePages(pages, shown, me, Aim, rows, Len(rows))
                      /\ ShowRows(shown, me, Aim, rows) = pages[Len(rows)]
<1> DEFINE pages == CHOOSE p : ArePages(p, shown, me, Aim, rows, Len(rows))
<1>1. ArePages(pages, shown, me, Aim, rows, Len(rows))
  BY PagesExist
<1>2. ShowRows(shown, me, Aim, rows) = pages[Len(rows)]
  BY DEF ShowRows, ArePages
<1> QED  BY <1>1, <1>2

-----------------------------------------------------------------------------
(* What a page lists *)

\* The rows up to the p-th that have a bubble, and a page that lists them: Lists
\* for the table as it was with p rows.
OldestUpTo(me, Aim, tab, p) == {i \in Oldest(me, Aim, tab) : i <= p}

ListsUpTo(shown, me, Aim, tab, p) ==
    \E order \in [DOMAIN shown -> OldestUpTo(me, Aim, tab, p)] :
        /\ \A i \in OldestUpTo(me, Aim, tab, p) : \E k \in DOMAIN shown : order[k] = i
        /\ \A j, k \in DOMAIN shown : j < k => order[j] < order[k]
        /\ \A k \in DOMAIN shown : shown[k] = Bubble(me, tab[order[k]])

LEMMA PrefixOfTable ==
    ASSUME NEW tab \in Seq(Row), NEW p \in 0..Len(tab)
    PROVE  /\ SubSeq(tab, 1, p) \in Seq(Row)
           /\ Len(SubSeq(tab, 1, p)) = p
           /\ DOMAIN SubSeq(tab, 1, p) = 1..p
           /\ \A i \in 1..p : SubSeq(tab, 1, p)[i] = tab[i]
<1>1. Len(tab) \in Nat /\ \A i \in 1..p : tab[i] \in Row
  BY LenProperties, ElementOfSeq
<1>2. p \in Int /\ 1 \in Int
  BY <1>1
<1>3. /\ SubSeq(tab, 1, p) \in Seq(Row)
      /\ Len(SubSeq(tab, 1, p)) = IF 1 <= p THEN p - 1 + 1 ELSE 0
      /\ \A i \in 1..(p - 1 + 1) : SubSeq(tab, 1, p)[i] = tab[1 + i - 1]
  BY <1>1, <1>2, SubSeqProperties
<1>4. Len(SubSeq(tab, 1, p)) = p
  BY <1>1, <1>3
<1>5. \A i \in 1..p : SubSeq(tab, 1, p)[i] = tab[i]
  <2> TAKE i \in 1..p
  <2>1. i \in 1..(p - 1 + 1) /\ 1 + i - 1 = i
    BY <1>1
  <2> QED  BY <1>3, <2>1
<1> QED  BY <1>3, <1>4, <1>5, LenProperties

LEMMA OldestOfPrefix ==
    ASSUME NEW me, NEW Aim, NEW tab \in Seq(Row), NEW p \in 0..Len(tab)
    PROVE  Oldest(me, Aim, SubSeq(tab, 1, p)) = OldestUpTo(me, Aim, tab, p)
<1> DEFINE rows == SubSeq(tab, 1, p)
<1>1. DOMAIN rows = 1..p /\ \A i \in 1..p : rows[i] = tab[i]
  BY PrefixOfTable
<1>2. DOMAIN tab = 1..Len(tab) /\ Len(tab) \in Nat
  BY LenProperties
<1> HIDE DEF rows
<1>3. ASSUME NEW i \in 1..p
      PROVE  i \in Oldest(me, Aim, rows) <=> i \in Oldest(me, Aim, tab)
  <2>1. rows[i] = tab[i] /\ \A j \in 1..(i - 1) : rows[j] = tab[j]
    BY <1>1, <1>2
  <2>2. i \in DOMAIN rows /\ i \in DOMAIN tab
    BY <1>1, <1>2
  <2> QED  BY <2>1, <2>2 DEF Oldest
<1>4. Oldest(me, Aim, rows) \subseteq 1..p
  BY <1>1 DEF Oldest
<1>5. \A i \in OldestUpTo(me, Aim, tab, p) : i \in 1..p
  BY <1>2 DEF Oldest, OldestUpTo
<1>6. Oldest(me, Aim, rows) = OldestUpTo(me, Aim, tab, p)
  BY <1>3, <1>4, <1>5 DEF OldestUpTo
<1> QED  BY <1>6 DEF rows

LEMMA ListsOfPrefix ==
    ASSUME NEW me, NEW Aim, NEW tab \in Seq(Row), NEW p \in 0..Len(tab), NEW shown
    PROVE  Lists(shown, me, Aim, SubSeq(tab, 1, p)) <=> ListsUpTo(shown, me, Aim, tab, p)
<1> DEFINE rows == SubSeq(tab, 1, p)
           up == OldestUpTo(me, Aim, tab, p)
<1>1. Oldest(me, Aim, rows) = up
  BY OldestOfPrefix
<1>2. \A i \in up : rows[i] = tab[i]
  <2>1. up \subseteq 1..p
    BY LenProperties DEF OldestUpTo, Oldest
  <2> QED  BY <2>1, PrefixOfTable
<1>3. ASSUME NEW order \in [DOMAIN shown -> up]
      PROVE  (\A k \in DOMAIN shown : shown[k] = Bubble(me, rows[order[k]]))
             <=> (\A k \in DOMAIN shown : shown[k] = Bubble(me, tab[order[k]]))
  <2>1. \A k \in DOMAIN shown : rows[order[k]] = tab[order[k]]
    BY <1>2
  <2> HIDE DEF rows
  <2> QED  BY <2>1
<1> HIDE DEF rows, up
<1>4. Lists(shown, me, Aim, rows) <=> ListsUpTo(shown, me, Aim, tab, p)
  BY <1>1, <1>3 DEF Lists, ListsUpTo, up
<1> QED  BY <1>4 DEF rows

\* Every row of a conversation is represented by the oldest one like it.
LEMMA OldestExists ==
    ASSUME NEW me, NEW Aim, NEW tab \in Seq(Row), NEW k \in 1..Len(tab),
           InConversation(me, Aim, tab[k])
    PROVE  \E i \in OldestUpTo(me, Aim, tab, k) :
               tab[i].Date = tab[k].Date /\ tab[i].Body = tab[k].Body
<1> DEFINE same == {i \in 1..k : /\ InConversation(me, Aim, tab[i])
                                  /\ tab[i].Date = tab[k].Date
                                  /\ tab[i].Body = tab[k].Body}
<1>1. Len(tab) \in Nat /\ DOMAIN tab = 1..Len(tab)
  BY LenProperties
<1>2. k \in same /\ same \in SUBSET Nat
  BY <1>1
<1>3. PICK i \in same : \A j \in same : i <= j
  <2> HIDE DEF same
  <2> QED  BY <1>2, LeastNatural
<1>4. ASSUME NEW j \in 1..(i - 1), InConversation(me, Aim, tab[j]),
             tab[j].Date = tab[i].Date, tab[j].Body = tab[i].Body
      PROVE  FALSE
  <2>1. j \in same
    BY <1>1, <1>4
  <2>2. i <= j
    BY <1>3, <2>1
  <2> QED  BY <1>1, <2>2
<1>5. i \in OldestUpTo(me, Aim, tab, k)
  BY <1>1, <1>4 DEF Oldest, OldestUpTo
<1> QED  BY <1>5

\* What an insertion keeps: the bubbles there are stay where they are.
Extends(before, after) ==
    /\ Len(before) <= Len(after)
    /\ \A i \in 1..Len(before) : after[i] = before[i]

\* One row.  A page that lists the rows up to the p-th already has a bubble for
\* each of them; the one after the p-th gets a bubble if none is like it.
LEMMA ShowRowLists ==
    ASSUME NEW me \in Users, NEW Aim \in Users, NEW tab \in Seq(Row),
           NEW p \in 0..Len(tab), NEW k \in 1..Len(tab), k <= p + 1,
           NEW shown \in Seq(ChatMessage), ListsUpTo(shown, me, Aim, tab, p)
    PROVE  LET page == ShowRow(shown, me, Aim, tab[k])
           IN  /\ page \in Seq(ChatMessage)
               /\ Extends(shown, page)
               /\ ListsUpTo(page, me, Aim, tab, IF k <= p THEN p ELSE k)
<1> DEFINE page == ShowRow(shown, me, Aim, tab[k])
           q == IF k <= p THEN p ELSE k
           up == OldestUpTo(me, Aim, tab, p)
           bubble == Bubble(me, tab[k])
<1>1. /\ Len(tab) \in Nat /\ DOMAIN tab = 1..Len(tab) /\ tab[k] \in Row
      /\ Len(shown) \in Nat /\ DOMAIN shown = 1..Len(shown)
  BY LenProperties, ElementOfSeq
<1>2. PICK order \in [DOMAIN shown -> up] :
          /\ \A i \in up : \E j \in DOMAIN shown : order[j] = i
          /\ \A i, j \in DOMAIN shown : i < j => order[i] < order[j]
          /\ \A j \in DOMAIN shown : shown[j] = Bubble(me, tab[order[j]])
  BY DEF ListsUpTo
<1>3. \A j \in DOMAIN shown : /\ shown[j].date = tab[order[j]].Date
                              /\ shown[j].text = tab[order[j]].Body
                              /\ order[j] \in 1..p
                              /\ order[j] \in Oldest(me, Aim, tab)
  BY <1>1, <1>2 DEF Bubble, OldestUpTo, Oldest
<1>4. \A i \in Oldest(me, Aim, tab) : i \in 1..Len(tab)
  BY <1>1 DEF Oldest
<1>5. CASE k \notin Oldest(me, Aim, tab) \/ k <= p
  <2>1. OldestUpTo(me, Aim, tab, q) = up
    BY <1>1, <1>4, <1>5 DEF OldestUpTo
  <2>2. page = shown
    <3>1. CASE ~ InConversation(me, Aim, tab[k])
      BY <3>1 DEF ShowRow
    <3>2. CASE InConversation(me, Aim, tab[k])
      <4>1. PICK i \in OldestUpTo(me, Aim, tab, k) :
                tab[i].Date = tab[k].Date /\ tab[i].Body = tab[k].Body
        BY <3>2, OldestExists
      <4>2. i \in up
        BY <1>1, <1>4, <1>5, <4>1 DEF OldestUpTo
      <4>3. PICK j \in DOMAIN shown : order[j] = i
        BY <1>2, <4>2
      <4>4. shown[j].date = bubble.date /\ shown[j].text = bubble.text
        BY <1>3, <4>1, <4>3 DEF Bubble
      <4> QED  BY <3>2, <4>4 DEF ShowRow, InsertMessage
    <3> QED  BY <3>1, <3>2
  <2>3. ListsUpTo(shown, me, Aim, tab, q)
    BY <2>1 DEF ListsUpTo
  <2>4. Extends(shown, shown)
    BY <1>1 DEF Extends
  <2> QED  BY <2>2, <2>3, <2>4
<1>6. CASE k \in Oldest(me, Aim, tab) /\ ~ (k <= p)
  <2>1. k = p + 1
    BY <1>1, <1>6
  <2>2. InConversation(me, Aim, tab[k])
    BY <1>6 DEF Oldest
  <2>3. ASSUME NEW j \in DOMAIN shown, shown[j].date = bubble.date, shown[j].text = bubble.text
        PROVE  FALSE
    <3>1. /\ order[j] \in 1..(k - 1)
          /\ InConversation(me, Aim, tab[order[j]])
          /\ tab[order[j]].Date = tab[k].Date /\ tab[order[j]].Body = tab[k].Body
      BY <1>1, <1>3, <2>1, <2>3 DEF Bubble, Oldest
    <3> QED  BY <1>6, <3>1 DEF Oldest
  <2>4. page = Append(shown, bubble)
    BY <2>2, <2>3 DEF ShowRow, InsertMessage
  <2>5. bubble \in ChatMessage
    BY <1>1 DEF Bubble, ChatMessage, Row
  <2>6. /\ page \in Seq(ChatMessage)
        /\ Len(page) = Len(shown) + 1
        /\ \A j \in 1..Len(shown) : page[j] = shown[j]
        /\ page[Len(shown) + 1] = bubble
    BY <2>4, <2>5, AppendProperties
  <2>7. Extends(shown, page)
    BY <1>1, <2>6 DEF Extends
  <2>8. DOMAIN page = 1..(Len(shown) + 1)
    BY <2>6, LenProperties
  <2> DEFINE new == [j \in DOMAIN page |-> IF j = Len(shown) + 1 THEN k ELSE order[j]]
             all == OldestUpTo(me, Aim, tab, k)
  <2>9. all = up \union {k}
    <3>1. \A i \in 1..Len(tab) : i <= k <=> (i <= p \/ i = k)
      BY <1>1, <2>1
    <3> QED  BY <1>1, <1>4, <1>6, <3>1 DEF OldestUpTo
  <2>10. /\ new[Len(shown) + 1] = k
         /\ \A j \in DOMAIN shown : new[j] = order[j] /\ j \in DOMAIN page
    BY <1>1, <2>8
  <2>11. \A j \in DOMAIN page : j \in DOMAIN shown \/ j = Len(shown) + 1
    BY <1>1, <2>8
  <2>12. new \in [DOMAIN page -> all]
    <3>1. \A j \in DOMAIN page : new[j] \in all
      <4> HIDE DEF new
      <4> QED  BY <1>2, <2>9, <2>10, <2>11
    <3> QED  BY <3>1
  <2> HIDE DEF new
  <2>13. \A i \in all : \E j \in DOMAIN page : new[j] = i
    <3> TAKE i \in all
    <3>1. CASE i = k
      BY <1>1, <2>8, <2>10, <3>1
    <3>2. CASE i \in up
      BY <1>2, <2>10, <3>2
    <3> QED  BY <2>9, <3>1, <3>2
  <2>14. \A i, j \in DOMAIN page : i < j => new[i] < new[j]
    <3> SUFFICES ASSUME NEW i \in DOMAIN page, NEW j \in DOMAIN page, i < j
                 PROVE  new[i] < new[j]
      OBVIOUS
    <3>1. i \in DOMAIN shown
      BY <1>1, <2>8
    <3>2. CASE j \in DOMAIN shown
      BY <1>2, <2>10, <3>1, <3>2
    <3>3. CASE j = Len(shown) + 1
      BY <1>1, <1>3, <2>1, <2>10, <3>1, <3>3
    <3> QED  BY <2>11, <3>2, <3>3
  <2>15. \A j \in DOMAIN page : page[j] = Bubble(me, tab[new[j]])
    <3> TAKE j \in DOMAIN page
    <3>1. CASE j \in DOMAIN shown
      BY <1>1, <1>2, <2>6, <2>10, <3>1
    <3>2. CASE j = Len(shown) + 1
      BY <2>6, <2>10, <3>2
    <3> QED  BY <2>11, <3>1, <3>2
  <2> HIDE DEF page, all
  <2>16. ListsUpTo(page, me, Aim, tab, k)
    BY <2>12, <2>13, <2>14, <2>15 DEF ListsUpTo, all
  <2> QED  BY <1>6, <2>6, <2>7, <2>16 DEF page
<1> QED  BY <1>5, <1>6

\* A whole answer, older or newer than what the page shows: the page then lists
\* the rows up to the later of the two moments, and kept its bubbles.
LEMMA ShowRowsLists ==
    ASSUME NEW me \in Users, NEW Aim \in Users, NEW tab \in Seq(Row),
           NEW m \in 0..Len(tab), NEW n \in 0..Len(tab),
           NEW shown \in Seq(ChatMessage), ListsUpTo(shown, me, Aim, tab, m)
    PROVE  LET page == ShowRows(shown, me, Aim, SubSeq(tab, 1, n))
           IN  /\ page \in Seq(ChatMessage)
               /\ Extends(shown, page)
               /\ ListsUpTo(page, me, Aim, tab, IF n <= m THEN m ELSE n)
<1> DEFINE rows == SubSeq(tab, 1, n)
           later(k) == IF k <= m THEN m ELSE k
           Good(page, k) == /\ page \in Seq(ChatMessage)
                            /\ Extends(shown, page)
                            /\ ListsUpTo(page, me, Aim, tab, later(k))
<1>1. Len(tab) \in Nat /\ Len(rows) = n /\ \A k \in 1..n : rows[k] = tab[k]
  BY LenProperties, PrefixOfTable
<1> HIDE DEF rows
<1>2. PICK pages : /\ ArePages(pages, shown, me, Aim, rows, n)
                   /\ ShowRows(shown, me, Aim, rows) = pages[n]
  <2>1. Len(rows) \in Nat
    BY <1>1
  <2>2. \E pages : /\ ArePages(pages, shown, me, Aim, rows, Len(rows))
                   /\ ShowRows(shown, me, Aim, rows) = pages[Len(rows)]
    BY <2>1, ShowRowsPages, Zenon
  <2> QED  BY <1>1, <2>2
<1>3. pages[0] = shown /\ \A k \in 1..n : pages[k] = ShowRow(pages[k - 1], me, Aim, tab[k])
  BY <1>1, <1>2 DEF ArePages
<1>4. Good(pages[0], 0)
  <2>1. Extends(shown, shown)
    BY LenProperties DEF Extends
  <2>2. later(0) = m
    BY <1>1
  <2> HIDE DEF later
  <2> QED  BY <1>3, <2>1, <2>2
<1>5. ASSUME NEW k \in 1..n, Good(pages[k - 1], k - 1)
      PROVE  Good(pages[k], k)
  <2> DEFINE before == pages[k - 1]
             after == ShowRow(before, me, Aim, tab[k])
             p == later(k - 1)
  <2>1. /\ k \in 1..Len(tab) /\ p \in 0..Len(tab) /\ k <= p + 1
        /\ (IF k <= p THEN p ELSE k) = later(k)
    BY <1>1
  <2>2. before \in Seq(ChatMessage) /\ ListsUpTo(before, me, Aim, tab, p)
    BY <1>5
  <2> HIDE DEF p, before, later
  <2>3. /\ after \in Seq(ChatMessage)
        /\ Extends(before, after)
        /\ ListsUpTo(after, me, Aim, tab, IF k <= p THEN p ELSE k)
    BY <2>1, <2>2, ShowRowLists
  <2>4. Extends(shown, after)
    <3>1. Len(shown) \in Nat /\ Len(before) \in Nat /\ Len(after) \in Nat
      BY <2>2, <2>3, LenProperties
    <3> QED  BY <1>5, <2>3, <3>1 DEF Extends, before
  <2>5. pages[k] = after
    BY <1>3 DEF before
  <2> HIDE DEF after
  <2> QED  BY <2>1, <2>3, <2>4, <2>5
<1> HIDE DEF Good
<1>6. Good(pages[n], n)
  <2> DEFINE bad == {k \in 0..n : ~ Good(pages[k], k)}
  <2>1. CASE bad = {}
    BY <2>1
  <2>2. CASE bad # {}
    <3>1. PICK k \in bad : \A j \in bad : k <= j
      <4>1. bad \in SUBSET Nat
        OBVIOUS
      <4> HIDE DEF bad
      <4> QED  BY <2>2, <4>1, LeastNatural
    <3>2. k \in 1..n
      BY <1>4, <3>1
    <3>3. Good(pages[k - 1], k - 1)
      <4>1. k - 1 \in 0..n /\ k - 1 \notin bad
        BY <1>1, <3>1, <3>2
      <4> QED  BY <4>1
    <3> QED  BY <1>5, <3>1, <3>2, <3>3
  <2> QED  BY <2>1, <2>2
<1> QED  BY <1>2, <1>6 DEF Good, rows

\* The same bubble on the other side.
Mirrored(bubble) == [bubble EXCEPT !.isIncoming = ~@]

\* Two users who list their conversation see the same rows in the same order.
LEMMA ListsAgree ==
    ASSUME NEW u \in Users, NEW v \in Users, u # v, NEW tab \in Seq(Row),
           NEW m \in Nat, NEW n \in Nat,
           NEW mine \in Seq(ChatMessage), ListsUpTo(mine, u, v, tab, m),
           NEW other \in Seq(ChatMessage), ListsUpTo(other, v, u, tab, n),
           NEW i \in DOMAIN mine \intersect DOMAIN other
    PROVE  mine[i] = Mirrored(other[i])
<1> DEFINE old == Oldest(u, v, tab)
<1>1. /\ Len(mine) \in Nat /\ DOMAIN mine = 1..Len(mine)
      /\ Len(other) \in Nat /\ DOMAIN other = 1..Len(other)
      /\ DOMAIN tab = 1..Len(tab) /\ Len(tab) \in Nat
  BY LenProperties
<1>2. Oldest(v, u, tab) = old
  BY DEF Oldest, InConversation
<1>3. PICK f \in [DOMAIN mine -> OldestUpTo(u, v, tab, m)] :
          /\ \A r \in OldestUpTo(u, v, tab, m) : \E k \in DOMAIN mine : f[k] = r
          /\ \A j, k \in DOMAIN mine : j < k => f[j] < f[k]
          /\ \A k \in DOMAIN mine : mine[k] = Bubble(u, tab[f[k]])
  BY DEF ListsUpTo
<1>4. PICK g \in [DOMAIN other -> OldestUpTo(v, u, tab, n)] :
          /\ \A r \in OldestUpTo(v, u, tab, n) : \E k \in DOMAIN other : g[k] = r
          /\ \A j, k \in DOMAIN other : j < k => g[j] < g[k]
          /\ \A k \in DOMAIN other : other[k] = Bubble(v, tab[g[k]])
  BY DEF ListsUpTo
<1>5. /\ \A k \in DOMAIN mine : f[k] \in old /\ f[k] <= m
      /\ \A k \in DOMAIN other : g[k] \in old /\ g[k] <= n
      /\ old \subseteq 1..Len(tab)
  BY <1>1, <1>2, <1>3, <1>4 DEF OldestUpTo, Oldest
<1>6. /\ \A r \in old : r <= m => \E k \in DOMAIN mine : f[k] = r
      /\ \A r \in old : r <= n => \E k \in DOMAIN other : g[k] = r
  BY <1>2, <1>3, <1>4 DEF OldestUpTo
<1> DEFINE both == 1..Len(mine) \intersect 1..Len(other)
           differ == {k \in both : f[k] # g[k]}
<1>7. differ = {}
  <2>1. SUFFICES ASSUME differ # {}
                 PROVE  FALSE
    OBVIOUS
  <2>2. PICK k \in differ : \A j \in differ : k <= j
    <3>1. differ \in SUBSET Nat
      OBVIOUS
    <3> HIDE DEF differ
    <3> QED  BY <2>1, <3>1, LeastNatural
  <2>3. k \in DOMAIN mine /\ k \in DOMAIN other /\ f[k] # g[k]
    BY <1>1, <2>2
  <2>4. \A j \in 1..(k - 1) : j \in DOMAIN mine /\ j \in DOMAIN other /\ f[j] = g[j]
    <3> TAKE j \in 1..(k - 1)
    <3>1. j \in both /\ ~ (k <= j)
      BY <1>1, <2>2
    <3> QED  BY <1>1, <2>2, <3>1
  <2>5. f[k] \in Nat /\ g[k] \in Nat
    BY <1>1, <1>5, <2>3
  <2>6. CASE f[k] < g[k]
    <3>1. f[k] <= n
      BY <1>1, <1>5, <2>3, <2>5, <2>6
    <3>2. PICK j \in DOMAIN other : g[j] = f[k]
      BY <1>5, <1>6, <2>3, <3>1
    <3>3. j < k
      <4>1. ~ (k < j) /\ k # j
        BY <1>4, <2>3, <2>5, <2>6, <3>2
      <4> QED  BY <1>1, <2>3, <4>1
    <3>4. f[j] = f[k] /\ j \in DOMAIN mine
      BY <1>1, <2>4, <3>2, <3>3
    <3> QED  BY <1>3, <2>3, <2>5, <3>3, <3>4
  <2>7. CASE g[k] < f[k]
    <3>1. g[k] <= m
      BY <1>1, <1>5, <2>3, <2>5, <2>7
    <3>2. PICK j \in DOMAIN mine : f[j] = g[k]
      BY <1>5, <1>6, <2>3, <3>1
    <3>3. j < k
      <4>1. ~ (k < j) /\ k # j
        BY <1>3, <2>3, <2>5, <2>7, <3>2
      <4> QED  BY <1>1, <2>3, <4>1
    <3>4. g[j] = g[k] /\ j \in DOMAIN other
      BY <1>1, <2>4, <3>2, <3>3
    <3> QED  BY <1>4, <2>3, <2>5, <3>3, <3>4
  <2> QED  BY <2>3, <2>5, <2>6, <2>7
<1>8. i \in DOMAIN mine /\ i \in DOMAIN other /\ f[i] = g[i]
  BY <1>1, <1>7
<1> DEFINE row == tab[f[i]]
<1>9. mine[i] = Bubble(u, row) /\ other[i] = Bubble(v, row)
  BY <1>3, <1>4, <1>8
<1>10. row.Sender = u \/ row.Sender = v
  BY <1>5, <1>8 DEF Oldest, InConversation
<1> HIDE DEF row
<1> DEFINE incoming == row.Sender # v
<1>11. (row.Sender # u) = ~ incoming
  BY <1>10
<1>12. Bubble(u, row) = [text |-> row.Body, isIncoming |-> ~ incoming, date |-> row.Date]
  BY <1>11 DEF Bubble
<1>13. Bubble(v, row) = [text |-> row.Body, isIncoming |-> incoming, date |-> row.Date]
  BY DEF Bubble
<1> HIDE DEF incoming
<1>14. [Bubble(v, row) EXCEPT !.isIncoming = ~@]
         = [text |-> row.Body, isIncoming |-> ~ incoming, date |-> row.Date]
  BY <1>13
<1> QED  BY <1>9, <1>12, <1>14 DEF Mirrored

-----------------------------------------------------------------------------
(* The inductive invariant *)

\* A pull never asks for another conversation than that of the page it belongs
\* to, if that page is still there, and its answer is a state the table had.
PullOK(page, pull) ==
    /\ pull.view <= page.id
    /\ pull.read <= Len(table)
    /\ page.chat_user # NoOne /\ pull.view = page.id => pull.Aim = page.chat_user

PullsOK == \A u \in Users : \A pull \in BagToSet(pulls[u]) : PullOK(view[u], pull)

\* An open page lists its conversation as it was at some moment.
PageOK(u, page) ==
    page.chat_user # NoOne =>
        \E n \in 0..Len(table) : ListsUpTo(page.chatMessages, u, page.chat_user, table, n)

PagesOK == \A u \in Users : PageOK(u, view[u])

IInv == TypeOK /\ PullsOK /\ PagesOK

LEMMA InitInv == Init => IInv
<1> SUFFICES ASSUME Init
             PROVE  IInv
  OBVIOUS
<1>1. TypeOK
  <2>1. <<>> \in Seq(Row) /\ <<>> \in Seq(ChatMessage)
    BY EmptySeq
  <2>2. IsABag(EmptyBag) /\ BagToSet(EmptyBag) = {}
    BY EmptyBagType, InEmptyBag
  <2> QED  BY <2>1, <2>2 DEF Init, TypeOK, View
<1>2. PullsOK
  BY InEmptyBag DEF Init, PullsOK
<1>3. PagesOK
  BY DEF Init, PagesOK, PageOK, IsOpen
<1> QED  BY <1>1, <1>2, <1>3 DEF IInv

\* The rows that were there stay where they are when one is appended.
LEMMA AppendedTable ==
    ASSUME NEW tab \in Seq(Row), NEW row \in Row, NEW n \in 0..Len(tab),
           NEW me, NEW Aim, NEW shown, ListsUpTo(shown, me, Aim, tab, n)
    PROVE  ListsUpTo(shown, me, Aim, Append(tab, row), n)
<1> DEFINE new == Append(tab, row)
<1>1. /\ new \in Seq(Row) /\ Len(new) = Len(tab) + 1 /\ Len(tab) \in Nat
      /\ \A i \in 1..Len(tab) : new[i] = tab[i]
  BY AppendProperties, LenProperties
<1>2. n \in 0..Len(new)
  BY <1>1
<1> HIDE DEF new
<1>3. SubSeq(new, 1, n) = SubSeq(tab, 1, n)
  <2>1. \A i \in 1..n : SubSeq(new, 1, n)[i] = SubSeq(tab, 1, n)[i]
    BY <1>1, <1>2, PrefixOfTable
  <2>2. /\ SubSeq(new, 1, n) \in Seq(Row) /\ Len(SubSeq(new, 1, n)) = n
        /\ SubSeq(tab, 1, n) \in Seq(Row) /\ Len(SubSeq(tab, 1, n)) = n
    BY <1>1, <1>2, PrefixOfTable
  <2> QED  BY <2>1, <2>2, SeqEqual
<1>4. Lists(shown, me, Aim, SubSeq(tab, 1, n))
  BY ListsOfPrefix
<1>5. ListsUpTo(shown, me, Aim, new, n)
  BY <1>1, <1>2, <1>3, <1>4, ListsOfPrefix
<1> QED  BY <1>5 DEF new

\* SendChat: the pages stay, and what they list was there before.
LEMMA SendChatInv ==
    ASSUME IInv, NEW row \in BagToSet(sends), SendChat(row)
    PROVE  IInv'
<1>1. /\ row \in Row /\ table' = Append(table, row) /\ sends' = BagRemove(sends, row)
      /\ UNCHANGED <<now, sent, view, pulls>>
  BY DEF IInv, TypeOK, SendChat
<1>2. table' \in Seq(Row) /\ Len(table') = Len(table) + 1 /\ Len(table) \in Nat
  BY <1>1, AppendProperties, LenProperties DEF IInv, TypeOK
<1>3. IsABag(sends') /\ BagToSet(sends') \subseteq Row
  BY <1>1, InBagRemove, BagRemoveType DEF IInv, TypeOK
<1>4. TypeOK'
  BY <1>1, <1>2, <1>3 DEF IInv, TypeOK
<1>5. PullsOK'
  <2> SUFFICES ASSUME NEW u \in Users, NEW pull \in BagToSet(pulls[u])
               PROVE  pull.read <= Len(table')
    BY <1>1 DEF IInv, PullsOK, PullOK
  <2>1. pull.read <= Len(table) /\ (pull.read \in Nat \/ pull.read = -1)
    BY DEF IInv, PullsOK, PullOK, TypeOK, Request, Unanswered
  <2> QED  BY <1>2, <2>1
<1>6. PagesOK'
  <2> SUFFICES ASSUME NEW u \in Users, view[u].chat_user # NoOne
               PROVE  \E n \in 0..Len(table') :
                          ListsUpTo(view[u].chatMessages, u, view[u].chat_user, table', n)
    BY <1>1 DEF PagesOK, PageOK
  <2>1. PICK n \in 0..Len(table) :
            ListsUpTo(view[u].chatMessages, u, view[u].chat_user, table, n)
    BY DEF IInv, PagesOK, PageOK
  <2>2. n \in 0..Len(table')
    BY <1>2
  <2>3. ListsUpTo(view[u].chatMessages, u, view[u].chat_user, table', n)
    BY <1>1, <2>1, AppendedTable DEF IInv, TypeOK
  <2> QED  BY <2>2, <2>3
<1> QED  BY <1>4, <1>5, <1>6 DEF IInv

\* Steps that only send, lose or count.
LEMMA SendsInv ==
    ASSUME IInv, UNCHANGED <<table, view, pulls>>, now' \in Nat, sent' \in Nat,
           IsABag(sends'), BagToSet(sends') \subseteq Row
    PROVE  IInv'
<1>1. TypeOK'
  BY DEF IInv, TypeOK
<1>2. PullsOK'
  BY DEF IInv, PullsOK, PullOK
<1>3. PagesOK'
  BY DEF IInv, PagesOK, PageOK
<1> QED  BY <1>1, <1>2, <1>3 DEF IInv

LEMMA PerformActionInv ==
    ASSUME IInv, NEW u \in Users, NEW body \in Bodies, PerformAction(u, body)
    PROVE  IInv'
<1> DEFINE row == [Sender |-> u, Receiver |-> view[u].chat_user, Date |-> now, Body |-> body]
<1>1. row \in Row
  BY DEF PerformAction, IsOpen, IInv, TypeOK, View, Row
<1>2. sends' = BagAdd(sends, row) /\ sent' = sent + 1 /\ UNCHANGED <<table, now, view, pulls>>
  BY DEF PerformAction
<1> HIDE DEF row
<1>3. IsABag(sends') /\ BagToSet(sends') \subseteq Row
  BY <1>1, <1>2, InBagAdd, BagAddType DEF IInv, TypeOK
<1>4. now' \in Nat /\ sent' \in Nat
  BY <1>2 DEF IInv, TypeOK
<1> QED  BY <1>2, <1>3, <1>4, SendsInv

LEMMA LoseSendInv ==
    ASSUME IInv, NEW row \in BagToSet(sends), LoseSend(row)
    PROVE  IInv'
<1>1. sends' = BagRemove(sends, row) /\ UNCHANGED <<table, now, sent, view, pulls>>
  BY DEF LoseSend
<1>2. IsABag(sends') /\ BagToSet(sends') \subseteq Row
  BY <1>1, InBagRemove, BagRemoveType DEF IInv, TypeOK
<1>3. now' \in Nat /\ sent' \in Nat
  BY <1>1 DEF IInv, TypeOK
<1> QED  BY <1>1, <1>2, <1>3, SendsInv

LEMMA ClockInv ==
    ASSUME IInv, Clock
    PROVE  IInv'
<1>1. /\ now' = now + 1 /\ UNCHANGED <<table, sends, sent, view, pulls>>
  BY DEF Clock
<1>2. /\ IsABag(sends') /\ BagToSet(sends') \subseteq Row
      /\ now' \in Nat /\ sent' \in Nat
  BY <1>1 DEF IInv, TypeOK
<1> QED  BY <1>1, <1>2, SendsInv

\* The pulls of u, and no others, change to B.
NewPulls(u, B) ==
    /\ DOMAIN pulls' = Users /\ pulls'[u] = B
    /\ \A v \in Users \ {u} : pulls'[v] = pulls[v]

\* Steps that change the page and the pulls of one user.
LEMMA PageInv ==
    ASSUME IInv, NEW u \in Users, NEW page \in View, NEW B,
           view' = [view EXCEPT ![u] = page],
           NewPulls(u, B),
           UNCHANGED <<table, now, sends, sent>>,
           IsABag(B), BagToSet(B) \subseteq Request,
           \A pull \in BagToSet(B) : PullOK(page, pull),
           PageOK(u, page)
    PROVE  IInv'
<1>1. /\ view \in [Users -> View] /\ view' \in [Users -> View] /\ view'[u] = page
      /\ DOMAIN pulls' = Users /\ pulls'[u] = B
      /\ \A v \in Users \ {u} : view'[v] = view[v] /\ pulls'[v] = pulls[v]
  BY DEF IInv, TypeOK, NewPulls
<1>2. ASSUME NEW v \in Users
      PROVE  /\ IsABag(pulls'[v]) /\ BagToSet(pulls'[v]) \subseteq Request
             /\ \A pull \in BagToSet(pulls'[v]) : PullOK(view'[v], pull)
             /\ PageOK(v, view'[v])
  <2>1. CASE v = u
    BY <1>1, <2>1
  <2>2. CASE v # u
    <3>1. /\ IsABag(pulls[v]) /\ BagToSet(pulls[v]) \subseteq Request
          /\ \A pull \in BagToSet(pulls[v]) : PullOK(view[v], pull)
          /\ PageOK(v, view[v])
      BY DEF IInv, TypeOK, PullsOK, PagesOK
    <3> QED  BY <1>1, <2>2, <3>1
  <2> QED  BY <2>1, <2>2
<1>3. TypeOK'
  BY <1>1, <1>2 DEF IInv, TypeOK
<1>4. PullsOK' /\ PagesOK'
  BY <1>2 DEF PullsOK, PagesOK, PullOK, PageOK
<1> QED  BY <1>3, <1>4 DEF IInv

\* A pull that an open page sends.
LEMMA NewPullOK ==
    ASSUME IInv, NEW page \in View, page.chat_user # NoOne
    PROVE  NewPull(page) \in Request /\ PullOK(page, NewPull(page))
<1>1. page.id \in Nat /\ page.chat_user \in Users
  BY DEF View
<1>2. Len(table) \in Nat
  BY LenProperties DEF IInv, TypeOK
<1> QED  BY <1>1, <1>2 DEF NewPull, Request, PullOK, Unanswered

LEMMA OpenInv ==
    ASSUME IInv, NEW u \in Users, NEW friend \in FriendsOf[u], Open(u, friend)
    PROVE  IInv'
<1> DEFINE page == [id |-> view[u].id + 1, chat_user |-> friend, chatMessages |-> <<>>]
           B == BagAdd(BagAdd(pulls[u], NewPull(page)), NewPull(page))
<1>1. view[u] \in View /\ view[u].id \in Nat /\ friend \in Users /\ friend # NoOne
  BY FriendsAssumption, NoOneAssumption DEF IInv, TypeOK, View
<1>2. page \in View
  BY <1>1, EmptySeq DEF View
<1>3. /\ view' = [view EXCEPT ![u] = page]
      /\ NewPulls(u, B)
      /\ UNCHANGED <<table, now, sends, sent>>
  BY DEF Open, NewPulls, IInv, TypeOK
<1>4. NewPull(page) \in Request /\ PullOK(page, NewPull(page))
  BY <1>1, <1>2, NewPullOK
<1>5. /\ IsABag(B)
      /\ BagToSet(B) = BagToSet(pulls[u]) \union {NewPull(page)}
  <2> DEFINE once == BagAdd(pulls[u], NewPull(page))
  <2>1. IsABag(once) /\ BagToSet(once) = BagToSet(pulls[u]) \union {NewPull(page)}
    BY InBagAdd, BagAddType DEF IInv, TypeOK
  <2> HIDE DEF once
  <2>2. IsABag(BagAdd(once, NewPull(page)))
    BY <2>1, BagAddType
  <2>3. BagToSet(BagAdd(once, NewPull(page))) = BagToSet(once) \union {NewPull(page)}
    BY InBagAdd
  <2> QED  BY <2>1, <2>2, <2>3 DEF once
<1>6. ASSUME NEW pull \in BagToSet(pulls[u])
      PROVE  pull \in Request /\ PullOK(page, pull)
  <2>1. pull \in Request /\ PullOK(view[u], pull)
    BY DEF IInv, TypeOK, PullsOK
  <2>2. pull.view <= view[u].id /\ pull.view \in Nat /\ pull.read <= Len(table)
    BY <2>1 DEF PullOK, Request
  <2>3. pull.view <= page.id /\ pull.view # page.id
    BY <1>1, <2>2
  <2> QED  BY <2>1, <2>2, <2>3 DEF PullOK
<1>7. PageOK(u, page)
  <2> DEFINE rows == OldestUpTo(u, friend, table, 0)
  <2>1. Len(table) \in Nat /\ rows = {}
    BY LenProperties DEF IInv, TypeOK, OldestUpTo, Oldest
  <2>2. DOMAIN page.chatMessages = {}
    OBVIOUS
  <2>3. ListsUpTo(page.chatMessages, u, friend, table, 0)
    <3> DEFINE order == [k \in {} |-> 0]
    <3>1. order \in [DOMAIN page.chatMessages -> rows]
      BY <2>2
    <3> HIDE DEF order, page
    <3> QED  BY <2>1, <2>2, <3>1 DEF ListsUpTo
  <2>4. page.chat_user = friend
    OBVIOUS
  <2> HIDE DEF page
  <2> QED  BY <2>1, <2>3, <2>4 DEF PageOK
<1> HIDE DEF page, B
<1>8. BagToSet(B) \subseteq Request /\ \A pull \in BagToSet(B) : PullOK(page, pull)
  BY <1>4, <1>5, <1>6
<1> QED  BY <1>2, <1>3, <1>5, <1>7, <1>8, PageInv

\* A page that is left shows nothing, whatever its pulls still bring.
LEMMA CloseInv ==
    ASSUME IInv, NEW u \in Users, Close(u)
    PROVE  IInv'
<1> DEFINE page == [view[u] EXCEPT !.chat_user = NoOne, !.chatMessages = <<>>]
<1>1. view[u] \in View
  BY DEF IInv, TypeOK
<1>2. page \in View /\ page.id = view[u].id /\ page.chat_user = NoOne
  BY <1>1, EmptySeq DEF View
<1>3. /\ view' = [view EXCEPT ![u] = page]
      /\ NewPulls(u, pulls[u])
      /\ UNCHANGED <<table, now, sends, sent>>
  BY DEF Close, NewPulls, IInv, TypeOK
<1>4. /\ IsABag(pulls[u]) /\ BagToSet(pulls[u]) \subseteq Request
      /\ \A pull \in BagToSet(pulls[u]) : PullOK(view[u], pull)
  BY DEF IInv, TypeOK, PullsOK
<1> HIDE DEF page
<1>5. \A pull \in BagToSet(pulls[u]) : PullOK(page, pull)
  BY <1>2, <1>4 DEF PullOK
<1>6. PageOK(u, page)
  BY <1>2 DEF PageOK
<1> QED  BY <1>2, <1>3, <1>4, <1>5, <1>6, PageInv

\* Steps that change the pulls of one user only.
LEMMA PullsInv ==
    ASSUME IInv, NEW u \in Users, NEW B,
           pulls' = [pulls EXCEPT ![u] = B],
           UNCHANGED <<table, now, sends, sent, view>>,
           IsABag(B), BagToSet(B) \subseteq Request,
           \A pull \in BagToSet(B) : PullOK(view[u], pull)
    PROVE  IInv'
<1>1. view[u] \in View /\ PageOK(u, view[u])
  BY DEF IInv, TypeOK, PagesOK
<1>2. view' = [view EXCEPT ![u] = view[u]] /\ NewPulls(u, B)
  BY DEF IInv, TypeOK, NewPulls
<1> QED  BY <1>1, <1>2, PageInv

LEMMA PullChatInv ==
    ASSUME IInv, NEW u \in Users, PullChat(u)
    PROVE  IInv'
<1> DEFINE new == NewPull(view[u])
           B == BagAdd(pulls[u], new)
<1>1. /\ pulls' = [pulls EXCEPT ![u] = B]
      /\ UNCHANGED <<table, now, sends, sent, view>>
      /\ view[u].chat_user # NoOne
  BY DEF PullChat, IsOpen
<1>2. /\ IsABag(pulls[u]) /\ BagToSet(pulls[u]) \subseteq Request
      /\ \A pull \in BagToSet(pulls[u]) : PullOK(view[u], pull)
      /\ view[u] \in View
  BY DEF IInv, TypeOK, PullsOK
<1>3. new \in Request /\ PullOK(view[u], new)
  BY <1>1, <1>2, NewPullOK
<1> HIDE DEF new
<1>4. IsABag(B) /\ BagToSet(B) = BagToSet(pulls[u]) \union {new}
  BY <1>2, InBagAdd, BagAddType
<1> HIDE DEF B
<1>5. BagToSet(B) \subseteq Request /\ \A pull \in BagToSet(B) : PullOK(view[u], pull)
  BY <1>2, <1>3, <1>4
<1> QED  BY <1>1, <1>4, <1>5, PullsInv

\* The answer is the table as it is.
LEMMA AnswerInv ==
    ASSUME IInv, NEW u \in Users, NEW pull \in BagToSet(pulls[u]), Answer(u, pull)
    PROVE  IInv'
<1> DEFINE new == [pull EXCEPT !.read = Len(table)]
           rest == BagRemove(pulls[u], pull)
           B == BagAdd(rest, new)
<1>1. /\ pulls' = [pulls EXCEPT ![u] = B]
      /\ UNCHANGED <<table, now, sends, sent, view>>
  BY DEF Answer
<1>2. /\ IsABag(pulls[u]) /\ BagToSet(pulls[u]) \subseteq Request
      /\ \A p \in BagToSet(pulls[u]) : PullOK(view[u], p)
  BY DEF IInv, TypeOK, PullsOK
<1>3. new \in Request /\ PullOK(view[u], new)
  <2>1. Len(table) \in Nat
    BY LenProperties DEF IInv, TypeOK
  <2>2. pull \in Request /\ PullOK(view[u], pull)
    BY <1>2
  <2> QED  BY <2>1, <2>2 DEF Request, PullOK
<1> HIDE DEF new
<1>4. IsABag(rest) /\ BagToSet(rest) \subseteq BagToSet(pulls[u])
  BY <1>2, InBagRemove, BagRemoveType
<1> HIDE DEF rest
<1>5. IsABag(B) /\ BagToSet(B) = BagToSet(rest) \union {new}
  BY <1>4, InBagAdd, BagAddType
<1> HIDE DEF B
<1>6. BagToSet(B) \subseteq Request /\ \A p \in BagToSet(B) : PullOK(view[u], p)
  BY <1>2, <1>3, <1>4, <1>5
<1> QED  BY <1>1, <1>5, <1>6, PullsInv

LEMMA LosePullInv ==
    ASSUME IInv, NEW u \in Users, NEW pull \in BagToSet(pulls[u]), LosePull(u, pull)
    PROVE  IInv'
<1> DEFINE B == BagRemove(pulls[u], pull)
<1>1. /\ pulls' = [pulls EXCEPT ![u] = B]
      /\ UNCHANGED <<table, now, sends, sent, view>>
  BY DEF LosePull
<1>2. /\ IsABag(pulls[u]) /\ BagToSet(pulls[u]) \subseteq Request
      /\ \A p \in BagToSet(pulls[u]) : PullOK(view[u], p)
  BY DEF IInv, TypeOK, PullsOK
<1>3. IsABag(B) /\ BagToSet(B) \subseteq BagToSet(pulls[u])
  BY <1>2, InBagRemove, BagRemoveType
<1> HIDE DEF B
<1>4. BagToSet(B) \subseteq Request /\ \A p \in BagToSet(B) : PullOK(view[u], p)
  BY <1>2, <1>3
<1> QED  BY <1>1, <1>3, <1>4, PullsInv

\* An answer that overtook others or was overtaken: the page lists the later of
\* the two moments, and its bubbles stay.
LEMMA DeliverInv ==
    ASSUME IInv, NEW u \in Users, NEW pull \in BagToSet(pulls[u]), Deliver(u, pull)
    PROVE  IInv' /\ Extends(view[u].chatMessages, view'[u].chatMessages)
<1> DEFINE shown == view[u].chatMessages
           after == IF IsOpen(u) /\ view[u].id = pull.view
                    THEN ShowRows(shown, u, pull.Aim, TableAt(pull.read))
                    ELSE shown
           page == [view[u] EXCEPT !.chatMessages = after]
           B == BagRemove(pulls[u], pull)
<1>1. /\ view' = [view EXCEPT ![u] = page]
      /\ pulls' = [pulls EXCEPT ![u] = B]
      /\ UNCHANGED <<table, now, sends, sent>>
      /\ pull.read # Unanswered
  BY DEF Deliver
<1>2. /\ view[u] \in View /\ shown \in Seq(ChatMessage) /\ PageOK(u, view[u])
      /\ IsABag(pulls[u]) /\ BagToSet(pulls[u]) \subseteq Request
      /\ \A p \in BagToSet(pulls[u]) : PullOK(view[u], p)
      /\ table \in Seq(Row)
  BY DEF IInv, TypeOK, PullsOK, PagesOK, View
<1>3. Len(table) \in Nat /\ Len(shown) \in Nat
  BY <1>2, LenProperties
<1>4. pull.read \in 0..Len(table)
  BY <1>1, <1>2, <1>3 DEF Request, PullOK, Unanswered
<1>5. /\ after \in Seq(ChatMessage)
      /\ Extends(shown, after)
      /\ view[u].chat_user # NoOne =>
           \E n \in 0..Len(table) : ListsUpTo(after, u, view[u].chat_user, table, n)
  <2>1. CASE IsOpen(u) /\ view[u].id = pull.view
    <3>1. view[u].chat_user \in Users /\ pull.Aim = view[u].chat_user
      BY <1>2, <2>1 DEF IsOpen, View, PullOK
    <3>2. PICK m \in 0..Len(table) : ListsUpTo(shown, u, pull.Aim, table, m)
      BY <1>2, <2>1, <3>1 DEF PageOK, IsOpen
    <3>3. after = ShowRows(shown, u, pull.Aim, SubSeq(table, 1, pull.read))
      BY <2>1 DEF TableAt
    <3>4. /\ after \in Seq(ChatMessage)
          /\ Extends(shown, after)
          /\ ListsUpTo(after, u, pull.Aim, table, IF pull.read <= m THEN m ELSE pull.read)
      <4> HIDE DEF shown, after
      <4> QED  BY <1>2, <1>4, <3>1, <3>2, <3>3, ShowRowsLists
    <3>5. (IF pull.read <= m THEN m ELSE pull.read) \in 0..Len(table)
      BY <1>4
    <3> HIDE DEF after
    <3> QED  BY <3>1, <3>4, <3>5
  <2>2. CASE ~ (IsOpen(u) /\ view[u].id = pull.view)
    <3>1. after = shown
      BY <2>2
    <3>2. Extends(shown, shown)
      BY <1>3 DEF Extends
    <3> HIDE DEF after
    <3> QED  BY <1>2, <3>1, <3>2 DEF PageOK
  <2> QED  BY <2>1, <2>2
<1> HIDE DEF after
<1>6. /\ page \in View /\ page.id = view[u].id /\ page.chat_user = view[u].chat_user
      /\ page.chatMessages = after
  BY <1>2, <1>5 DEF View
<1>7. view'[u] = page
  BY <1>1 DEF IInv, TypeOK
<1> HIDE DEF page
<1>8. IsABag(B) /\ BagToSet(B) \subseteq BagToSet(pulls[u])
  BY <1>2, InBagRemove, BagRemoveType
<1>9. NewPulls(u, B)
  BY <1>1 DEF NewPulls, IInv, TypeOK
<1> HIDE DEF B
<1>10. BagToSet(B) \subseteq Request /\ \A p \in BagToSet(B) : PullOK(page, p)
  BY <1>2, <1>6, <1>8 DEF PullOK
<1>11. PageOK(u, page)
  BY <1>5, <1>6 DEF PageOK
<1>12. IInv'
  BY <1>1, <1>6, <1>8, <1>9, <1>10, <1>11, PageInv
<1> QED  BY <1>5, <1>6, <1>7, <1>12

-----------------------------------------------------------------------------
(* Theorems *)

LEMMA StepInv == IInv /\ [Next]_vars => IInv'
<1> SUFFICES ASSUME IInv, [Next]_vars
             PROVE  IInv'
  OBVIOUS
<1>1. CASE Clock
  BY <1>1, ClockInv
<1>2. ASSUME NEW row \in BagToSet(sends), SendChat(row) \/ LoseSend(row)
      PROVE  IInv'
  BY <1>2, SendChatInv, LoseSendInv
<1>3. ASSUME NEW u \in Users, NEW body \in Bodies, PerformAction(u, body)
      PROVE  IInv'
  BY <1>3, PerformActionInv
<1>4. ASSUME NEW u \in Users, NEW friend \in FriendsOf[u], Open(u, friend)
      PROVE  IInv'
  BY <1>4, OpenInv
<1>5. ASSUME NEW u \in Users, Close(u) \/ PullChat(u)
      PROVE  IInv'
  BY <1>5, CloseInv, PullChatInv
<1>6. ASSUME NEW u \in Users, NEW pull \in BagToSet(pulls[u]),
             Answer(u, pull) \/ LosePull(u, pull) \/ Deliver(u, pull)
      PROVE  IInv'
  BY <1>6, AnswerInv, LosePullInv, DeliverInv
<1>7. CASE UNCHANGED vars
  <2>1. UNCHANGED <<table, now, sends, sent, view, pulls>>
    BY <1>7 DEF vars
  <2>2. /\ now' \in Nat /\ sent' \in Nat
        /\ IsABag(sends') /\ BagToSet(sends') \subseteq Row
    BY <2>1 DEF IInv, TypeOK
  <2> QED  BY <2>1, <2>2, SendsInv
<1> QED  BY <1>1, <1>2, <1>3, <1>4, <1>5, <1>6, <1>7 DEF Next

LEMMA Invariant == Spec => []IInv
BY InitInv, StepInv, PTL DEF Spec

\* TypeOK, for any number of messages, pages and pulls.
THEOREM TypeCorrect == Spec => []TypeOK
<1>1. IInv => TypeOK
  BY DEF IInv
<1> QED  BY <1>1, Invariant, PTL

\* Whatever answers overtake each other, get lost or come for a page that was
\* left: an open page shows its own conversation from its start, as it was at
\* some moment (ShowsConversation).
THEOREM PagesShowConversation == Spec => []ShowsConversation
<1>1. IInv => ShowsConversation
  <2> SUFFICES ASSUME IInv, NEW u \in Users, IsOpen(u)
               PROVE  \E n \in 0..Len(table) :
                          Lists(view[u].chatMessages, u, view[u].chat_user, TableAt(n))
    BY DEF ShowsConversation
  <2>1. PICK n \in 0..Len(table) :
            ListsUpTo(view[u].chatMessages, u, view[u].chat_user, table, n)
    BY DEF IInv, PagesOK, PageOK, IsOpen
  <2>2. Lists(view[u].chatMessages, u, view[u].chat_user, TableAt(n))
    BY <2>1, ListsOfPrefix DEF IInv, TypeOK, TableAt
  <2> QED  BY <2>2
<1> QED  BY <1>1, Invariant, PTL

\* Two users who look at their conversation see the same bubbles, each on the
\* other side (ViewsAgree).
THEOREM PagesAgree == Spec => []ViewsAgree
<1>1. IInv => ViewsAgree
  <2> SUFFICES ASSUME IInv, NEW u \in Users, NEW v \in Users, u # v,
                      view[u].chat_user = v, view[v].chat_user = u,
                      NEW i \in DOMAIN view[u].chatMessages \intersect DOMAIN view[v].chatMessages
               PROVE  view[u].chatMessages[i] = [view[v].chatMessages[i] EXCEPT !.isIncoming = ~@]
    BY DEF ViewsAgree
  <2>1. /\ table \in Seq(Row) /\ Len(table) \in Nat
        /\ view[u].chatMessages \in Seq(ChatMessage)
        /\ view[v].chatMessages \in Seq(ChatMessage)
    BY LenProperties DEF IInv, TypeOK, View
  <2>2. u # NoOne /\ v # NoOne
    BY NoOneAssumption
  <2>3. PICK m \in 0..Len(table) : ListsUpTo(view[u].chatMessages, u, v, table, m)
    BY <2>2 DEF IInv, PagesOK, PageOK
  <2>4. PICK n \in 0..Len(table) : ListsUpTo(view[v].chatMessages, v, u, table, n)
    BY <2>2 DEF IInv, PagesOK, PageOK
  <2>5. m \in Nat /\ n \in Nat
    BY <2>1
  <2>6. view[u].chatMessages[i] = Mirrored(view[v].chatMessages[i])
    BY <2>1, <2>3, <2>4, <2>5, ListsAgree
  <2> QED  BY <2>6 DEF Mirrored
<1> QED  BY <1>1, Invariant, PTL

LEMMA ExtendsIsPrefix ==
    ASSUME NEW s \in Seq(ChatMessage), NEW t \in Seq(ChatMessage), Extends(s, t)
    PROVE  IsPrefix(s, t)
<1>1. Len(s) \in Nat /\ Len(t) \in Nat /\ Len(s) <= Len(t)
      /\ \A i \in 1..Len(s) : s[i] \in ChatMessage /\ t[i] = s[i]
  BY LenProperties, ElementOfSeq DEF Extends
<1>2. /\ SubSeq(s, 1, Len(s)) \in Seq(ChatMessage) /\ SubSeq(t, 1, Len(s)) \in Seq(ChatMessage)
      /\ Len(SubSeq(s, 1, Len(s))) = Len(SubSeq(t, 1, Len(s)))
      /\ \A i \in 1..Len(SubSeq(s, 1, Len(s))) :
             SubSeq(s, 1, Len(s))[i] = SubSeq(t, 1, Len(s))[i]
  <2>1. ASSUME NEW w, \A i \in 1..Len(s) : w[i] \in ChatMessage
        PROVE  /\ SubSeq(w, 1, Len(s)) \in Seq(ChatMessage)
               /\ Len(SubSeq(w, 1, Len(s))) = Len(s)
               /\ \A i \in 1..Len(s) : SubSeq(w, 1, Len(s))[i] = w[i]
    <3>1. /\ SubSeq(w, 1, Len(s)) \in Seq(ChatMessage)
          /\ Len(SubSeq(w, 1, Len(s))) = IF 1 <= Len(s) THEN Len(s) - 1 + 1 ELSE 0
          /\ \A i \in 1..(Len(s) - 1 + 1) : SubSeq(w, 1, Len(s))[i] = w[1 + i - 1]
      BY <1>1, <2>1, SubSeqProperties
    <3>2. Len(SubSeq(w, 1, Len(s))) = Len(s)
      BY <1>1, <3>1
    <3>3. \A i \in 1..Len(s) : i \in 1..(Len(s) - 1 + 1) /\ 1 + i - 1 = i
      BY <1>1
    <3> QED  BY <3>1, <3>2, <3>3
  <2> QED  BY <1>1, <2>1
<1> QED  BY <1>1, <1>2, SeqEqual DEF IsPrefix

\* As long as a page is open its bubbles stay where they are (BubblesStay).
THEOREM BubblesAreStable == Spec => BubblesStay
<1> DEFINE Stay(u) == (IsOpen(u) /\ view'[u].id = view[u].id /\ view'[u].chat_user # NoOne) =>
                          IsPrefix(view[u].chatMessages, view'[u].chatMessages)
<1>1. ASSUME IInv, [Next]_vars, NEW u \in Users,
             IsOpen(u), view'[u].id = view[u].id, view'[u].chat_user # NoOne
      PROVE  Extends(view[u].chatMessages, view'[u].chatMessages)
  <2>1. /\ view \in [Users -> View] /\ view[u].id \in Nat
        /\ Extends(view[u].chatMessages, view[u].chatMessages)
    BY <1>1, LenProperties DEF IInv, TypeOK, View, Extends
  <2>2. CASE view' = view
    BY <2>1, <2>2
  <2>3. ASSUME NEW v \in Users, NEW friend \in FriendsOf[v], Open(v, friend)
        PROVE  view'[u] = view[u]
    <3>1. v # u
      BY <1>1, <2>1, <2>3 DEF Open
    <3> QED  BY <2>1, <2>3, <3>1 DEF Open
  <2>4. ASSUME NEW v \in Users, Close(v)
        PROVE  view'[u] = view[u]
    <3>1. v # u
      BY <1>1, <2>1, <2>4 DEF Close, View
    <3> QED  BY <2>1, <2>4, <3>1 DEF Close
  <2>5. ASSUME NEW v \in Users, NEW pull \in BagToSet(pulls[v]), Deliver(v, pull)
        PROVE  Extends(view[u].chatMessages, view'[u].chatMessages)
    <3>1. CASE v = u
      BY <1>1, <2>5, <3>1, DeliverInv
    <3>2. CASE v # u
      <4>1. view'[u] = view[u]
        BY <2>1, <2>5, <3>2 DEF Deliver
      <4> QED  BY <2>1, <4>1
    <3> QED  BY <3>1, <3>2
  <2>6. ASSUME NEW row \in BagToSet(sends), SendChat(row) \/ LoseSend(row)
        PROVE  view' = view
    BY <2>6 DEF SendChat, LoseSend
  <2>7. ASSUME NEW v \in Users, NEW body \in Bodies, PerformAction(v, body)
        PROVE  view' = view
    BY <2>7 DEF PerformAction
  <2>8. ASSUME NEW v \in Users, NEW pull \in BagToSet(pulls[v]),
               Answer(v, pull) \/ LosePull(v, pull)
        PROVE  view' = view
    BY <2>8 DEF Answer, LosePull
  <2>9. (Clock \/ UNCHANGED vars \/ \E v \in Users : PullChat(v)) => view' = view
    BY DEF Clock, vars, PullChat
  <2> QED  BY <1>1, <2>1, <2>2, <2>3, <2>4, <2>5, <2>6, <2>7, <2>8, <2>9 DEF Next
<1>2. IInv /\ [Next]_vars => [\A u \in Users : Stay(u)]_vars
  <2> SUFFICES ASSUME IInv, [Next]_vars
               PROVE  \A u \in Users : Stay(u)
    OBVIOUS
  <2> SUFFICES ASSUME NEW u \in Users,
                      IsOpen(u), view'[u].id = view[u].id, view'[u].chat_user # NoOne
               PROVE  IsPrefix(view[u].chatMessages, view'[u].chatMessages)
    OBVIOUS
  <2>1. IInv'
    BY StepInv
  <2>2. view[u].chatMessages \in Seq(ChatMessage) /\ view'[u].chatMessages \in Seq(ChatMessage)
    BY <2>1 DEF IInv, TypeOK, View
  <2> QED  BY <1>1, <2>2, ExtendsIsPrefix
<1> QED  BY <1>2, Invariant, PTL DEF Spec, BubblesStay

\* A page that lists a row's predecessors and the row has a bubble like it.
LEMMA ListedHasBubble ==
    ASSUME NEW me, NEW Aim, NEW tab \in Seq(Row), NEW p \in 0..Len(tab), NEW shown,
           ListsUpTo(shown, me, Aim, tab, p),
           NEW i \in 1..p, InConversation(me, Aim, tab[i])
    PROVE  \E k \in DOMAIN shown : shown[k].text = tab[i].Body /\ shown[k].date = tab[i].Date
<1>1. Len(tab) \in Nat /\ DOMAIN tab = 1..Len(tab) /\ i \in 1..Len(tab)
  BY LenProperties
<1>2. PICK o \in OldestUpTo(me, Aim, tab, i) :
          tab[o].Date = tab[i].Date /\ tab[o].Body = tab[i].Body
  BY <1>1, OldestExists
<1>3. o \in OldestUpTo(me, Aim, tab, p)
  BY <1>1, <1>2 DEF OldestUpTo, Oldest
<1>4. PICK order \in [DOMAIN shown -> OldestUpTo(me, Aim, tab, p)] :
          /\ \A j \in OldestUpTo(me, Aim, tab, p) : \E k \in DOMAIN shown : order[k] = j
          /\ \A k \in DOMAIN shown : shown[k] = Bubble(me, tab[order[k]])
  BY DEF ListsUpTo
<1>5. PICK k \in DOMAIN shown : order[k] = o
  BY <1>3, <1>4
<1>6. shown[k] = Bubble(me, tab[o])
  BY <1>4, <1>5
<1> QED  BY <1>2, <1>6 DEF Bubble

LEMMA DeliverShows ==
    ASSUME IInv, NEW u \in Users, NEW pull \in BagToSet(pulls[u]), Deliver(u, pull),
           IsOpen(u), view[u].id = pull.view, NEW i \in 1..pull.read
    PROVE  ~Misses(u, i)'
<1> DEFINE shown == view[u].chatMessages
           after == ShowRows(shown, u, pull.Aim, SubSeq(table, 1, pull.read))
<1>1. /\ view[u] \in View /\ shown \in Seq(ChatMessage) /\ PageOK(u, view[u])
      /\ pull \in Request /\ PullOK(view[u], pull) /\ table \in Seq(Row)
  BY DEF IInv, TypeOK, PullsOK, PagesOK, View
<1>2. Len(table) \in Nat
  BY <1>1, LenProperties
<1>3. pull.read \in 0..Len(table)
  BY <1>1, <1>2 DEF Deliver, Request, PullOK, Unanswered
<1>4. view[u].chat_user \in Users /\ pull.Aim = view[u].chat_user
  BY <1>1 DEF IsOpen, View, PullOK
<1>5. PICK m \in 0..Len(table) : ListsUpTo(shown, u, pull.Aim, table, m)
  BY <1>1, <1>4 DEF PageOK, IsOpen
<1>6. view' = [view EXCEPT ![u].chatMessages = after] /\ table' = table
  BY DEF Deliver, TableAt
<1> DEFINE later == IF pull.read <= m THEN m ELSE pull.read
<1>7. ListsUpTo(after, u, pull.Aim, table, later)
  <2> HIDE DEF shown
  <2> QED  BY <1>1, <1>3, <1>4, <1>5, ShowRowsLists
<1> HIDE DEF after
<1>8. view'[u].chat_user = pull.Aim /\ view'[u].chatMessages = after
  BY <1>1, <1>4, <1>6 DEF IInv, TypeOK, View
<1>9. later \in 0..Len(table) /\ i \in 1..later
  BY <1>2, <1>3
<1> HIDE DEF later
<1>10. ASSUME InConversation(u, pull.Aim, table[i])
       PROVE  \E k \in DOMAIN after : after[k].text = table[i].Body /\ after[k].date = table[i].Date
  BY <1>1, <1>7, <1>9, <1>10, ListedHasBubble
<1> QED  BY <1>6, <1>8, <1>10 DEF Misses

\* Once an answer has been shown by the page that asked for it, every row it
\* brought has its bubble there (AnswersShown): the part of EveryMessageShown that
\* does not depend on fairness.
THEOREM AnswersAreShown == Spec => AnswersShown
<1>1. IInv => [\A u \in Users : \A pull \in BagToSet(pulls[u]) :
                  (Deliver(u, pull) /\ IsOpen(u) /\ view[u].id = pull.view) =>
                      \A i \in 1..pull.read : ~Misses(u, i)']_vars
  BY DeliverShows
<1> QED  BY <1>1, Invariant, PTL DEF Spec, AnswersShown

=============================================================================
