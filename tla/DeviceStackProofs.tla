-------------------------- MODULE DeviceStackProofs --------------------------
(***************************************************************************)
(* What holds of the devices of DeviceTables that lie on others, for every *)
(* machine: mappings and the encrypted devices below, arrays and their     *)
(* members, checked by TLAPS.                                              *)
(***************************************************************************)
EXTENDS DeviceTablesProofs

(* What the main thread will apply, in this order.                         *)
Coming == todo \o posted \o bus

(* Uevents after which there is a block object, and after which there is   *)
(* none.                                                                   *)
Shown(e, p) == e.path = p /\ e.act # "remove" /\ e.flag # "disabled"
Gone(e, p)  == e.path = p /\ e.act = "remove"

(* What a queue says of p: that it is never shown; that it is there in the *)
(* end; that it is gone in the end.  Of the mapping q on p: that it is     *)
(* shown when p has been, and both stay; that it is shown after any other  *)
(* mapping r has gone.                                                     *)
Silent(s, p) == \A i \in DOMAIN s : ~Shown(s[i], p)

Shows(s, p) ==
    \E i \in DOMAIN s : Shown(s[i], p) /\ \A j \in DOMAIN s : j > i => ~Gone(s[j], p)

Goes(s, p) ==
    \E i \in DOMAIN s : Gone(s[i], p) /\ \A j \in DOMAIN s : j > i => ~Shown(s[j], p)

Linked(s, p, q) ==
    \E i, k \in DOMAIN s :
        /\ i < k /\ Shown(s[i], p) /\ Shown(s[k], q)
        /\ \A j \in DOMAIN s : (j > i => ~Gone(s[j], p)) /\ (j > k => ~Gone(s[j], q))

Outlived(s, r, q) ==
    \A j \in DOMAIN s : Gone(s[j], r) => \E i \in DOMAIN s : i > j /\ Shown(s[i], q)

-----------------------------------------------------------------------------
(* Queues after one another.                                               *)
LEMMA Concatenated ==
    ASSUME NEW S, NEW s \in Seq(S), NEW t \in Seq(S)
    PROVE  /\ s \o t \in Seq(S)
           /\ DOMAIN s = 1..Len(s) /\ DOMAIN t = 1..Len(t)
           /\ DOMAIN (s \o t) = 1..(Len(s) + Len(t))
           /\ Len(s) \in Nat /\ Len(t) \in Nat
           /\ \A i \in 1..Len(s) : (s \o t)[i] = s[i] /\ i \in 1..(Len(s) + Len(t))
           /\ \A i \in 1..Len(t) : /\ (s \o t)[Len(s) + i] = t[i]
                                   /\ Len(s) + i \in 1..(Len(s) + Len(t))
           /\ \A i \in 1..(Len(s) + Len(t)) :
                i \in 1..Len(s) \/ (i - Len(s) \in 1..Len(t) /\ i > Len(s)
                                    /\ (s \o t)[i] = t[i - Len(s)])
OBVIOUS

LEMMA ConcatShows ==
    ASSUME NEW S, NEW s \in Seq(S), NEW t \in Seq(S), NEW p
    PROVE  /\ Stays(s \o t, p) <=> Stays(s, p) /\ Stays(t, p)
           /\ Silent(s \o t, p) <=> Silent(s, p) /\ Silent(t, p)
           /\ Shows(s \o t, p) <=> Shows(t, p) \/ (Stays(t, p) /\ Shows(s, p))
           /\ Goes(s \o t, p) <=> Goes(t, p) \/ (Silent(t, p) /\ Goes(s, p))
<1> DEFINE u == s \o t
           m == Len(s)
           n == Len(t)
<1>1. /\ DOMAIN u = 1..(m + n) /\ DOMAIN s = 1..m /\ DOMAIN t = 1..n
      /\ m \in Nat /\ n \in Nat
      /\ \A i \in 1..m : u[i] = s[i] /\ i \in 1..(m + n)
      /\ \A i \in 1..n : u[m + i] = t[i] /\ m + i \in 1..(m + n)
      /\ \A i \in 1..(m + n) :
            i \in 1..m \/ (i - m \in 1..n /\ i > m /\ u[i] = t[i - m])
  BY Concatenated
<1>2. Stays(u, p) <=> Stays(s, p) /\ Stays(t, p)
  BY ConcatSays
<1> HIDE DEF u, m, n
<1>3. Silent(u, p) <=> Silent(s, p) /\ Silent(t, p)
  <2>1. ASSUME Silent(u, p) PROVE Silent(s, p) /\ Silent(t, p)
    <3>1. Silent(s, p)
      BY <1>1, <2>1 DEF Silent
    <3>2. ASSUME NEW j \in 1..n PROVE ~Shown(t[j], p)
      <4>1. u[m + j] = t[j] /\ m + j \in DOMAIN u
        BY <1>1
      <4> QED BY <2>1, <4>1 DEF Silent
    <3> QED BY <1>1, <3>1, <3>2 DEF Silent
  <2>2. ASSUME Silent(s, p), Silent(t, p), NEW j \in 1..(m + n) PROVE ~Shown(u[j], p)
    BY <1>1, <2>2 DEF Silent
  <2> QED BY <1>1, <2>1, <2>2 DEF Silent
<1>4. Shows(u, p) <=> Shows(t, p) \/ (Stays(t, p) /\ Shows(s, p))
  <2>1. ASSUME Shows(u, p) PROVE Shows(t, p) \/ (Stays(t, p) /\ Shows(s, p))
    <3>1. PICK i \in 1..(m + n) :
             Shown(u[i], p) /\ \A j \in 1..(m + n) : j > i => ~Gone(u[j], p)
      BY <1>1, <2>1 DEF Shows
    <3>2. CASE i \in 1..m
      <4>1. ASSUME NEW j \in 1..n PROVE ~Gone(t[j], p)
        <5>1. m + j > i /\ m + j \in 1..(m + n) /\ u[m + j] = t[j]
          BY <1>1, <3>2
        <5> QED BY <3>1, <5>1
      <4>2. Stays(t, p)
        BY <1>1, <4>1 DEF Stays, Gone
      <4>3. Shows(s, p)
        BY <1>1, <3>1, <3>2 DEF Shows
      <4> QED BY <4>2, <4>3
    <3>3. CASE i \notin 1..m
      <4>1. i - m \in 1..n /\ t[i - m] = u[i]
        BY <1>1, <3>3
      <4>2. ASSUME NEW j \in 1..n, j > i - m PROVE ~Gone(t[j], p)
        <5>1. m + j > i /\ m + j \in 1..(m + n) /\ u[m + j] = t[j]
          BY <1>1, <4>2
        <5> QED BY <3>1, <5>1
      <4> QED BY <1>1, <3>1, <4>1, <4>2 DEF Shows
    <3> QED BY <3>2, <3>3
  <2>2. ASSUME Shows(t, p) PROVE Shows(u, p)
    <3>1. PICK i \in 1..n : Shown(t[i], p) /\ \A j \in 1..n : j > i => ~Gone(t[j], p)
      BY <1>1, <2>2 DEF Shows
    <3>2. m + i \in 1..(m + n) /\ u[m + i] = t[i]
      BY <1>1
    <3>3. ASSUME NEW j \in 1..(m + n), j > m + i PROVE ~Gone(u[j], p)
      <4>1. j \notin 1..m /\ j - m > i
        BY <1>1, <3>3
      <4> QED BY <1>1, <3>1, <4>1
    <3> QED BY <1>1, <3>1, <3>2, <3>3 DEF Shows
  <2>3. ASSUME Stays(t, p), Shows(s, p) PROVE Shows(u, p)
    <3>1. PICK i \in 1..m : Shown(s[i], p) /\ \A j \in 1..m : j > i => ~Gone(s[j], p)
      BY <1>1, <2>3 DEF Shows
    <3>2. ASSUME NEW j \in 1..(m + n), j > i PROVE ~Gone(u[j], p)
      <4>1. CASE j \in 1..m
        BY <1>1, <3>1, <3>2, <4>1
      <4>2. CASE j \notin 1..m
        BY <1>1, <2>3, <4>2 DEF Stays, Gone
      <4> QED BY <4>1, <4>2
    <3>3. i \in 1..(m + n) /\ u[i] = s[i]
      BY <1>1
    <3> QED BY <1>1, <3>1, <3>2, <3>3 DEF Shows
  <2> QED BY <2>1, <2>2, <2>3
<1>5. Goes(u, p) <=> Goes(t, p) \/ (Silent(t, p) /\ Goes(s, p))
  <2>1. ASSUME Goes(u, p) PROVE Goes(t, p) \/ (Silent(t, p) /\ Goes(s, p))
    <3>1. PICK i \in 1..(m + n) :
             Gone(u[i], p) /\ \A j \in 1..(m + n) : j > i => ~Shown(u[j], p)
      BY <1>1, <2>1 DEF Goes
    <3>2. CASE i \in 1..m
      <4>1. ASSUME NEW j \in 1..n PROVE ~Shown(t[j], p)
        <5>1. m + j > i /\ m + j \in 1..(m + n) /\ u[m + j] = t[j]
          BY <1>1, <3>2
        <5> QED BY <3>1, <5>1
      <4>2. Silent(t, p)
        BY <1>1, <4>1 DEF Silent
      <4>3. Goes(s, p)
        BY <1>1, <3>1, <3>2 DEF Goes
      <4> QED BY <4>2, <4>3
    <3>3. CASE i \notin 1..m
      <4>1. i - m \in 1..n /\ t[i - m] = u[i]
        BY <1>1, <3>3
      <4>2. ASSUME NEW j \in 1..n, j > i - m PROVE ~Shown(t[j], p)
        <5>1. m + j > i /\ m + j \in 1..(m + n) /\ u[m + j] = t[j]
          BY <1>1, <4>2
        <5> QED BY <3>1, <5>1
      <4> QED BY <1>1, <3>1, <4>1, <4>2 DEF Goes
    <3> QED BY <3>2, <3>3
  <2>2. ASSUME Goes(t, p) PROVE Goes(u, p)
    <3>1. PICK i \in 1..n : Gone(t[i], p) /\ \A j \in 1..n : j > i => ~Shown(t[j], p)
      BY <1>1, <2>2 DEF Goes
    <3>2. m + i \in 1..(m + n) /\ u[m + i] = t[i]
      BY <1>1
    <3>3. ASSUME NEW j \in 1..(m + n), j > m + i PROVE ~Shown(u[j], p)
      <4>1. j \notin 1..m /\ j - m > i
        BY <1>1, <3>3
      <4> QED BY <1>1, <3>1, <4>1
    <3> QED BY <1>1, <3>1, <3>2, <3>3 DEF Goes
  <2>3. ASSUME Silent(t, p), Goes(s, p) PROVE Goes(u, p)
    <3>1. PICK i \in 1..m : Gone(s[i], p) /\ \A j \in 1..m : j > i => ~Shown(s[j], p)
      BY <1>1, <2>3 DEF Goes
    <3>2. ASSUME NEW j \in 1..(m + n), j > i PROVE ~Shown(u[j], p)
      <4>1. CASE j \in 1..m
        BY <1>1, <3>1, <3>2, <4>1
      <4>2. CASE j \notin 1..m
        BY <1>1, <2>3, <4>2 DEF Silent
      <4> QED BY <4>1, <4>2
    <3>3. i \in 1..(m + n) /\ u[i] = s[i]
      BY <1>1
    <3> QED BY <1>1, <3>1, <3>2, <3>3 DEF Goes
  <2> QED BY <2>1, <2>2, <2>3
<1> QED BY <1>2, <1>3, <1>4, <1>5 DEF u

LEMMA ConcatLinks ==
    ASSUME NEW S, NEW s \in Seq(S), NEW t \in Seq(S), NEW p, NEW q
    PROVE  /\ Linked(s \o t, p, q) <=>
                 \/ Linked(t, p, q)
                 \/ Stays(t, p) /\ Shows(s, p) /\ Shows(t, q)
                 \/ Stays(t, p) /\ Stays(t, q) /\ Linked(s, p, q)
           /\ Outlived(s \o t, p, q) <=>
                 Outlived(t, p, q) /\ (Outlived(s, p, q) \/ ~Silent(t, q))
<1> DEFINE u == s \o t
           m == Len(s)
           n == Len(t)
<1>1. /\ DOMAIN u = 1..(m + n) /\ DOMAIN s = 1..m /\ DOMAIN t = 1..n
      /\ m \in Nat /\ n \in Nat
      /\ \A i \in 1..m : u[i] = s[i] /\ i \in 1..(m + n)
      /\ \A i \in 1..n : u[m + i] = t[i] /\ m + i \in 1..(m + n)
      /\ \A i \in 1..(m + n) :
            i \in 1..m \/ (i - m \in 1..n /\ i > m /\ u[i] = t[i - m])
  BY Concatenated
<1> HIDE DEF u, m, n
<1>2. ASSUME Linked(u, p, q)
      PROVE  \/ Linked(t, p, q)
             \/ Stays(t, p) /\ Shows(s, p) /\ Shows(t, q)
             \/ Stays(t, p) /\ Stays(t, q) /\ Linked(s, p, q)
  <2>1. PICK i, k \in 1..(m + n) :
           /\ i < k /\ Shown(u[i], p) /\ Shown(u[k], q)
           /\ \A j \in 1..(m + n) : (j > i => ~Gone(u[j], p)) /\ (j > k => ~Gone(u[j], q))
    BY <1>1, <1>2 DEF Linked
  <2>2. ASSUME NEW j \in 1..n, m + j > i PROVE ~Gone(t[j], p)
    <3>1. m + j \in 1..(m + n) /\ u[m + j] = t[j]
      BY <1>1
    <3> QED BY <2>1, <2>2, <3>1
  <2>3. ASSUME NEW j \in 1..n, m + j > k PROVE ~Gone(t[j], q)
    <3>1. m + j \in 1..(m + n) /\ u[m + j] = t[j]
      BY <1>1
    <3> QED BY <2>1, <2>3, <3>1
  <2>4. CASE i \notin 1..m
    <3>1. i - m \in 1..n /\ k - m \in 1..n /\ i - m < k - m
      BY <1>1, <2>1, <2>4
    <3>2. t[i - m] = u[i] /\ t[k - m] = u[k]
      BY <1>1, <2>1, <2>4, <3>1
    <3>3. \A j \in 1..n : (j > i - m => ~Gone(t[j], p)) /\ (j > k - m => ~Gone(t[j], q))
      BY <1>1, <2>2, <2>3
    <3> QED BY <1>1, <2>1, <3>1, <3>2, <3>3 DEF Linked
  <2>5. CASE i \in 1..m
    <3>1. Stays(t, p)
      BY <1>1, <2>2, <2>5 DEF Stays, Gone
    <3>2. CASE k \in 1..m
      <4>1. Stays(t, q)
        BY <1>1, <2>3, <3>2 DEF Stays, Gone
      <4>2. Linked(s, p, q)
        BY <1>1, <2>1, <2>5, <3>2 DEF Linked
      <4> QED BY <3>1, <4>1, <4>2
    <3>3. CASE k \notin 1..m
      <4>1. Shows(s, p)
        BY <1>1, <2>1, <2>5 DEF Shows
      <4>2. k - m \in 1..n /\ t[k - m] = u[k]
        BY <1>1, <3>3
      <4>3. \A j \in 1..n : j > k - m => ~Gone(t[j], q)
        BY <1>1, <2>3
      <4>4. Shows(t, q)
        BY <1>1, <2>1, <4>2, <4>3 DEF Shows
      <4> QED BY <3>1, <4>1, <4>4
    <3> QED BY <3>2, <3>3
  <2> QED BY <2>4, <2>5
<1>3. ASSUME Linked(t, p, q) PROVE Linked(u, p, q)
  <2>1. PICK i, k \in 1..n :
           /\ i < k /\ Shown(t[i], p) /\ Shown(t[k], q)
           /\ \A j \in 1..n : (j > i => ~Gone(t[j], p)) /\ (j > k => ~Gone(t[j], q))
    BY <1>1, <1>3 DEF Linked
  <2>2. /\ m + i \in 1..(m + n) /\ m + k \in 1..(m + n) /\ m + i < m + k
        /\ u[m + i] = t[i] /\ u[m + k] = t[k]
    BY <1>1, <2>1
  <2>3. ASSUME NEW j \in 1..(m + n)
        PROVE  (j > m + i => ~Gone(u[j], p)) /\ (j > m + k => ~Gone(u[j], q))
    BY <1>1, <2>1
  <2> QED BY <1>1, <2>1, <2>2, <2>3 DEF Linked
<1>4. ASSUME Stays(t, p), Shows(s, p), Shows(t, q) PROVE Linked(u, p, q)
  <2>1. PICK i \in 1..m : Shown(s[i], p) /\ \A j \in 1..m : j > i => ~Gone(s[j], p)
    BY <1>1, <1>4 DEF Shows
  <2>2. PICK k \in 1..n : Shown(t[k], q) /\ \A j \in 1..n : j > k => ~Gone(t[j], q)
    BY <1>1, <1>4 DEF Shows
  <2>3. /\ i \in 1..(m + n) /\ m + k \in 1..(m + n) /\ i < m + k
        /\ u[i] = s[i] /\ u[m + k] = t[k]
    BY <1>1
  <2>4. ASSUME NEW j \in 1..(m + n), j > i PROVE ~Gone(u[j], p)
    <3>1. CASE j \in 1..m
      BY <1>1, <2>1, <2>4, <3>1
    <3>2. CASE j \notin 1..m
      BY <1>1, <1>4, <3>2 DEF Stays, Gone
    <3> QED BY <3>1, <3>2
  <2>5. ASSUME NEW j \in 1..(m + n), j > m + k PROVE ~Gone(u[j], q)
    <3>1. j \notin 1..m /\ j - m > k
      BY <1>1, <2>5
    <3> QED BY <1>1, <2>2, <3>1
  <2> QED BY <1>1, <2>1, <2>2, <2>3, <2>4, <2>5 DEF Linked
<1>5. ASSUME Stays(t, p), Stays(t, q), Linked(s, p, q) PROVE Linked(u, p, q)
  <2>1. PICK i, k \in 1..m :
           /\ i < k /\ Shown(s[i], p) /\ Shown(s[k], q)
           /\ \A j \in 1..m : (j > i => ~Gone(s[j], p)) /\ (j > k => ~Gone(s[j], q))
    BY <1>1, <1>5 DEF Linked
  <2>2. /\ i \in 1..(m + n) /\ k \in 1..(m + n) /\ u[i] = s[i] /\ u[k] = s[k]
    BY <1>1
  <2>3. ASSUME NEW j \in 1..(m + n)
        PROVE  (j > i => ~Gone(u[j], p)) /\ (j > k => ~Gone(u[j], q))
    <3>1. CASE j \in 1..m
      BY <1>1, <2>1, <3>1
    <3>2. CASE j \notin 1..m
      <4>1. j - m \in 1..n /\ u[j] = t[j - m]
        BY <1>1, <3>2
      <4>2. ~Gone(t[j - m], p) /\ ~Gone(t[j - m], q)
        BY <1>1, <1>5, <4>1 DEF Stays, Gone
      <4> QED BY <4>1, <4>2
    <3> QED BY <3>1, <3>2
  <2>4. i < k /\ Shown(u[i], p) /\ Shown(u[k], q)
    BY <2>1, <2>2
  <2> QED BY <1>1, <2>2, <2>3, <2>4 DEF Linked
<1>6. ASSUME Outlived(u, p, q)
      PROVE  Outlived(t, p, q) /\ (Outlived(s, p, q) \/ ~Silent(t, q))
  <2>1. ASSUME NEW j \in 1..n, Gone(t[j], p) PROVE \E i \in 1..n : i > j /\ Shown(t[i], q)
    <3>1. m + j \in 1..(m + n) /\ u[m + j] = t[j]
      BY <1>1
    <3>2. PICK i \in 1..(m + n) : i > m + j /\ Shown(u[i], q)
      BY <1>1, <1>6, <2>1, <3>1 DEF Outlived
    <3>3. i - m \in 1..n /\ t[i - m] = u[i] /\ i - m > j
      BY <1>1, <3>2
    <3> QED BY <3>2, <3>3
  <2>2. ASSUME Silent(t, q), NEW j \in 1..m, Gone(s[j], p)
        PROVE  \E i \in 1..m : i > j /\ Shown(s[i], q)
    <3>1. j \in 1..(m + n) /\ u[j] = s[j]
      BY <1>1
    <3>2. PICK i \in 1..(m + n) : i > j /\ Shown(u[i], q)
      BY <1>1, <1>6, <2>2, <3>1 DEF Outlived
    <3>3. i \in 1..m
      BY <1>1, <2>2, <3>2 DEF Silent
    <3> QED BY <1>1, <3>2, <3>3
  <2> QED BY <1>1, <2>1, <2>2 DEF Outlived
<1>7. ASSUME Outlived(t, p, q), Outlived(s, p, q) \/ ~Silent(t, q) PROVE Outlived(u, p, q)
  <2>1. ASSUME NEW j \in 1..(m + n), Gone(u[j], p)
        PROVE  \E i \in 1..(m + n) : i > j /\ Shown(u[i], q)
    <3>1. CASE j \notin 1..m
      <4>1. j - m \in 1..n /\ t[j - m] = u[j]
        BY <1>1, <3>1
      <4>2. PICK i \in 1..n : i > j - m /\ Shown(t[i], q)
        BY <1>1, <1>7, <2>1, <4>1 DEF Outlived
      <4>3. m + i \in 1..(m + n) /\ u[m + i] = t[i] /\ m + i > j
        BY <1>1, <4>2
      <4> QED BY <4>2, <4>3
    <3>2. CASE j \in 1..m /\ Silent(t, q)
      <4>1. PICK i \in 1..m : i > j /\ Shown(s[i], q)
        BY <1>1, <1>7, <2>1, <3>2 DEF Outlived
      <4> QED BY <1>1, <4>1
    <3>3. CASE j \in 1..m /\ ~Silent(t, q)
      <4>1. PICK i \in 1..n : Shown(t[i], q)
        BY <1>1, <3>3 DEF Silent
      <4>2. m + i \in 1..(m + n) /\ u[m + i] = t[i] /\ m + i > j
        BY <1>1, <3>3
      <4> QED BY <4>1, <4>2
    <3> QED BY <3>1, <3>2, <3>3
  <2> QED BY <1>1, <2>1 DEF Outlived
<1> QED BY <1>2, <1>3, <1>4, <1>5, <1>6, <1>7 DEF u

(* A queue that is empty, and one uevent.                                  *)
LEMMA EmptyShows ==
    ASSUME NEW p, NEW q
    PROVE  /\ Stays(<<>>, p) /\ Silent(<<>>, p) /\ ~Shows(<<>>, p) /\ ~Goes(<<>>, p)
           /\ ~Linked(<<>>, p, q) /\ Outlived(<<>>, p, q)
BY DEF Stays, Silent, Shows, Goes, Linked, Outlived

LEMMA OneShows ==
    ASSUME NEW e, NEW p, NEW q
    PROVE  /\ Stays(<<e>>, p) <=> ~Gone(e, p)
           /\ Silent(<<e>>, p) <=> ~Shown(e, p)
           /\ Shows(<<e>>, p) <=> Shown(e, p)
           /\ Goes(<<e>>, p) <=> Gone(e, p)
           /\ ~Linked(<<e>>, p, q)
           /\ Outlived(<<e>>, p, q) <=> ~Gone(e, p)
<1>1. DOMAIN <<e>> = {1} /\ <<e>>[1] = e
  OBVIOUS
<1>2. Stays(<<e>>, p) <=> ~Gone(e, p)
  BY <1>1 DEF Stays, Gone
<1>3. Silent(<<e>>, p) <=> ~Shown(e, p)
  BY <1>1 DEF Silent
<1>4. Shows(<<e>>, p) <=> Shown(e, p)
  BY <1>1 DEF Shows
<1>5. Goes(<<e>>, p) <=> Gone(e, p)
  BY <1>1 DEF Goes
<1>6. ~Linked(<<e>>, p, q)
  BY <1>1 DEF Linked
<1>7. Outlived(<<e>>, p, q) <=> ~Gone(e, p)
  BY <1>1 DEF Outlived
<1> QED BY <1>2, <1>3, <1>4, <1>5, <1>6, <1>7

LEMMA HeadFirst ==
    ASSUME NEW S, NEW s \in Seq(S), s # <<>>
    PROVE  s = <<Head(s)>> \o Tail(s) /\ Head(s) \in S /\ Tail(s) \in Seq(S)
OBVIOUS

(* Who stays and is heard of is there in the end.                          *)
LEMMA HeardAndStays ==
    ASSUME NEW s, NEW p, Stays(s, p), ~Silent(s, p)
    PROVE  Shows(s, p)
BY DEF Stays, Silent, Shows, Gone

-----------------------------------------------------------------------------
(* Block objects: who names whom, before (B) and after (C).                *)
SameLink(b, c) ==
    /\ c # Absent <=> b # Absent
    /\ c # Absent => c.label = b.label /\ c.backing = b.backing

BackingIn(B, p) ==
    IF Kind(p) = "dm" /\ p \in present /\ B[On(p)] # Absent THEN On(p) ELSE Absent

LinksShown(B, C, p, lab) ==
    /\ C[p] # Absent /\ C[p].label = lab /\ C[p].backing = BackingIn(B, p)
    /\ \A x \in Paths \ {p} :
         /\ SameLink(B[x], C[x])
         /\ C[x] # Absent =>
              C[x].cleartext = IF x = BackingIn(B, p) /\ B[x].label = "crypto" THEN p
                               ELSE B[x].cleartext
    /\ lab # "crypto" => C[p].cleartext = Absent
    /\ C[p].cleartext # Absent =>
         LET x == C[p].cleartext IN x \in Paths /\ C[x] # Absent /\ C[x].backing = p
    /\ lab = "crypto" /\ C[p].cleartext = Absent =>
         \A x \in Paths : C[x] # Absent => C[x].backing # p

LinksGone(B, C, p) ==
    /\ C[p] = Absent
    /\ \A x \in Paths \ {p} :
         /\ SameLink(B[x], C[x])
         /\ C[x] # Absent =>
              C[x].cleartext = IF x = B[p].backing /\ B[x].label = "crypto" THEN Absent
                               ELSE B[x].cleartext

LEMMA BlocksOfTables ==
    ASSUME machine \in Setups, NEW T \in Tables
    PROVE  /\ T.block \in [Paths -> OrAbsent(BlockObject)]
           /\ Absent \notin BlockObject /\ Absent \notin Paths
           /\ \A p \in Paths : T.block[p] # Absent => T.block[p] \in BlockObject
BY MachineShape DEF Tables, OrAbsent

Renamed(B, C, p, x) ==
    /\ C[p] # Absent /\ C[p].label = B[p].label /\ C[p].backing = B[p].backing
    /\ C[p].cleartext = x
    /\ \A q \in Paths \ {p} : C[q] = B[q]

LEMMA CleartextSet ==
    ASSUME machine \in Setups, NEW T \in Tables, NEW p \in Paths, T.block[p] # Absent,
           NEW x \in OrAbsent(Paths), NEW U, U = [T EXCEPT !.block[p].cleartext = x]
    PROVE  U \in Tables /\ Renamed(T.block, U.block, p, x)
<1>1. U \in Tables
  BY CleartextNamed
<1> DEFINE b == [T.block[p] EXCEPT !.cleartext = x]
<1>2. T.block[p] \in BlockObject /\ T.block \in [Paths -> OrAbsent(BlockObject)]
      /\ Absent \notin BlockObject
  BY BlocksOfTables
<1>3. /\ b \in BlockObject
      /\ b.label = T.block[p].label /\ b.backing = T.block[p].backing /\ b.cleartext = x
  BY <1>2 DEF BlockObject
<1>4. U.block = [T.block EXCEPT ![p] = b]
  BY DEF Tables
<1> HIDE DEF b
<1>5. U.block[p] = b /\ b # Absent /\ \A q \in Paths \ {p} : U.block[q] = T.block[q]
  BY <1>2, <1>3, <1>4
<1>6. U.block[p].cleartext = x /\ U.block[p].label = T.block[p].label
      /\ U.block[p].backing = T.block[p].backing
  BY <1>3, <1>5
<1> QED BY <1>1, <1>5, <1>6 DEF Renamed

LEMMA BlockShown ==
    ASSUME machine \in Setups, NEW T \in Tables, NEW p \in Paths, NEW lab \in Labels
    PROVE  LinksShown(T.block, UpdateBlock(T, p, lab).block, p, lab)
<1> DEFINE k == BackingOf(T, p)
           object == [label |-> lab, table |-> Partitioned(p),
                      fs |-> lab = "fs" /\ ~Partitioned(p), backing |-> k, cleartext |-> Absent]
           T1 == [T EXCEPT !.block[p] = object]
           T2 == IF IsEncrypted(T1, k) THEN [T1 EXCEPT !.block[k].cleartext = p] ELSE T1
           U == IF lab = "crypto" THEN [T2 EXCEPT !.block[p].cleartext = FindCleartext(T2, p)]
                ELSE T2
<1>1. U = UpdateBlock(T, p, lab)
  BY DEF UpdateBlock
<1>2. k = BackingIn(T.block, p) /\ k \in OrAbsent(Paths) /\ k # p
  <2>1. k = BackingIn(T.block, p)
    BY DEF BackingOf, BackingIn
  <2>2. Kind(p) = "dm" => On(p) \in Paths /\ On(p) # p
    <3>1. /\ \A x \in Paths : machine.kind[x] = "dm" => machine.kind[machine.on[x]] # "dm"
          /\ machine.kind[p] \in {"partition", "dm"} <=> machine.on[p] # Absent
      BY DeviceTablesAssumption
    <3>2. On(p) \in OrAbsent(Paths)
      BY MachineShape
    <3> QED BY <3>1, <3>2 DEF Kind, On, OrAbsent
  <2>3. Absent \notin Paths
    BY MachineShape
  <2> QED BY <2>1, <2>2, <2>3 DEF BackingIn, OrAbsent
<1> HIDE DEF k
<1>3. object \in BlockObject /\ object # Absent /\ object.label = lab
      /\ object.backing = k /\ object.cleartext = Absent
  <2>1. Partitioned(p) \in BOOLEAN /\ (lab = "fs" /\ ~Partitioned(p)) \in BOOLEAN
    BY DEF Partitioned
  <2>2. object \in BlockObject
    BY <1>2, <2>1 DEF BlockObject, OrAbsent
  <2>3. Absent \notin BlockObject
    BY MachineShape
  <2> QED BY <2>2, <2>3
<1> HIDE DEF object
<1>4. T1 \in Tables /\ T1.block = [T.block EXCEPT ![p] = object]
  BY <1>3, BlockReplaced DEF OrAbsent
<1>5. /\ T1.block[p] = object
      /\ \A x \in Paths \ {p} : T1.block[x] = T.block[x]
  BY <1>4, BlocksOfTables
<1> HIDE DEF T1
<1>6. IsEncrypted(T1, k) <=> k # Absent /\ T.block[k] # Absent /\ T.block[k].label = "crypto"
  BY <1>2, <1>5 DEF IsEncrypted, OrAbsent
<1>7. /\ T2 \in Tables /\ T2.block[p] = object
      /\ \A x \in Paths \ {p} :
           /\ SameLink(T.block[x], T2.block[x])
           /\ T2.block[x] # Absent =>
                T2.block[x].cleartext = IF x = k /\ T.block[x].label = "crypto" THEN p
                                        ELSE T.block[x].cleartext
  <2>1. CASE IsEncrypted(T1, k)
    <3>1. k \in Paths /\ T1.block[k] # Absent /\ p \in OrAbsent(Paths)
      BY <1>2, <2>1 DEF IsEncrypted, OrAbsent
    <3> DEFINE V == [T1 EXCEPT !.block[k].cleartext = p]
    <3>3. T2 = V
      BY <2>1
    <3>6. V = [T1 EXCEPT !.block[k].cleartext = p]
      OBVIOUS
    <3> HIDE DEF V, T2
    <3>7. V \in Tables /\ Renamed(T1.block, V.block, k, p)
      BY <1>4, <3>1, <3>6, CleartextSet
    <3>2. /\ V.block[k] # Absent /\ V.block[k].label = T1.block[k].label
          /\ V.block[k].backing = T1.block[k].backing /\ V.block[k].cleartext = p
          /\ \A q \in Paths \ {k} : V.block[q] = T1.block[q]
      BY <3>7 DEF Renamed
    <3>4. V.block[p] = object
      BY <1>2, <1>5, <3>2
    <3>5. ASSUME NEW x \in Paths \ {p}
          PROVE  /\ SameLink(T.block[x], V.block[x])
                 /\ V.block[x] # Absent =>
                      V.block[x].cleartext = IF x = k /\ T.block[x].label = "crypto" THEN p
                                             ELSE T.block[x].cleartext
      <4>1. CASE x = k
        BY <1>2, <1>5, <1>6, <2>1, <3>2, <4>1 DEF SameLink
      <4>2. CASE x # k
        BY <1>5, <3>2, <4>2 DEF SameLink
      <4> QED BY <4>1, <4>2
    <3> QED BY <3>3, <3>4, <3>5, <3>7
  <2>2. CASE ~IsEncrypted(T1, k)
    <3>1. T2 = T1
      BY <2>2
    <3> HIDE DEF T2
    <3>2. ASSUME NEW x \in Paths \ {p}
          PROVE  /\ SameLink(T.block[x], T1.block[x])
                 /\ T1.block[x] # Absent =>
                      T1.block[x].cleartext = IF x = k /\ T.block[x].label = "crypto" THEN p
                                              ELSE T.block[x].cleartext
      <4>1. x = k => k # Absent
        BY MachineShape
      <4> QED BY <1>5, <1>6, <2>2, <4>1 DEF SameLink
    <3> QED BY <1>4, <1>5, <3>1, <3>2
  <2> QED BY <2>1, <2>2
<1> HIDE DEF T2
<1>8. ASSUME lab # "crypto"
      PROVE  LinksShown(T.block, U.block, p, lab)
  <2>1. U = T2
    BY <1>8
  <2> HIDE DEF U
  <2> QED BY <1>2, <1>3, <1>7, <1>8, <2>1 DEF LinksShown
<1>9. ASSUME lab = "crypto"
      PROVE  LinksShown(T.block, U.block, p, lab)
  <2> DEFINE found == {q \in Paths : T2.block[q] # Absent /\ T2.block[q].backing = p}
             c == FindCleartext(T2, p)
  <2>1. /\ found = {} => c = Absent
        /\ found # {} => c \in found
    BY DEF FindCleartext
  <2>2. c \in OrAbsent(Paths)
    BY <2>1 DEF OrAbsent
  <2> HIDE DEF c
  <2> DEFINE V == [T2 EXCEPT !.block[p].cleartext = c]
  <2>3. U = V
    BY <1>9 DEF c
  <2>8. V = [T2 EXCEPT !.block[p].cleartext = c]
    OBVIOUS
  <2> HIDE DEF U, V
  <2>4. /\ V.block[p] # Absent /\ V.block[p].label = T2.block[p].label
        /\ V.block[p].backing = T2.block[p].backing /\ V.block[p].cleartext = c
        /\ \A q \in Paths \ {p} : V.block[q] = T2.block[q]
    <3>1. T2.block[p] # Absent
      BY <1>3, <1>7
    <3>2. Renamed(T2.block, V.block, p, c)
      BY <1>7, <2>2, <2>8, <3>1, CleartextSet
    <3> QED BY <3>2 DEF Renamed
  <2>5. \A x \in Paths : /\ V.block[x] # Absent <=> T2.block[x] # Absent
                         /\ V.block[x] # Absent => V.block[x].backing = T2.block[x].backing
    BY <1>3, <1>7, <2>4
  <2>6. c # Absent => c \in Paths /\ V.block[c] # Absent /\ V.block[c].backing = p
    BY <2>1, <2>5
  <2>7. c = Absent => \A x \in Paths : V.block[x] # Absent => V.block[x].backing # p
    <3>1. Absent \notin Paths
      BY MachineShape
    <3> QED BY <2>1, <2>5, <3>1
  <2> QED BY <1>2, <1>3, <1>7, <1>9, <2>3, <2>4, <2>6, <2>7 DEF LinksShown
<1> QED BY <1>1, <1>8, <1>9

LEMMA BlockGone ==
    ASSUME machine \in Setups, NEW T \in Tables, NEW p \in Paths, T.block[p] # Absent
    PROVE  LinksGone(T.block, [PreRemove(T, p) EXCEPT !.block[p] = Absent].block, p)
<1> DEFINE k == T.block[p].backing
           T1 == PreRemove(T, p)
           U == [T1 EXCEPT !.block[p] = Absent]
<1>1. k \in OrAbsent(Paths) /\ Absent \notin Paths
  BY BlocksOfTables, MachineShape DEF BlockObject
<1>2. T1 = IF IsEncrypted(T, k) THEN [T EXCEPT !.block[k].cleartext = Absent] ELSE T
  BY DEF PreRemove
<1>3. /\ T1 \in Tables
      /\ \A x \in Paths :
           /\ SameLink(T.block[x], T1.block[x])
           /\ T1.block[x] # Absent =>
                T1.block[x].cleartext = IF x = k /\ T.block[x].label = "crypto" THEN Absent
                                        ELSE T.block[x].cleartext
  <2> HIDE DEF k, T1
  <2>1. CASE IsEncrypted(T, k)
    <3>1. k \in Paths /\ T.block[k] # Absent /\ T.block[k].label = "crypto"
      BY <1>1, <2>1 DEF IsEncrypted, OrAbsent
    <3>2. T1 = [T EXCEPT !.block[k].cleartext = Absent]
      BY <1>2, <2>1
    <3>3. Absent \in OrAbsent(Paths)
      BY DEF OrAbsent
    <3>4. T1 \in Tables /\ Renamed(T.block, T1.block, k, Absent)
      BY <3>1, <3>2, <3>3, CleartextSet
    <3>5. /\ T1.block[k] # Absent /\ T1.block[k].label = T.block[k].label
          /\ T1.block[k].backing = T.block[k].backing /\ T1.block[k].cleartext = Absent
          /\ \A q \in Paths \ {k} : T1.block[q] = T.block[q]
      BY <3>4 DEF Renamed
    <3>6. ASSUME NEW x \in Paths
          PROVE  /\ SameLink(T.block[x], T1.block[x])
                 /\ T1.block[x] # Absent =>
                      T1.block[x].cleartext = IF x = k /\ T.block[x].label = "crypto"
                                              THEN Absent ELSE T.block[x].cleartext
      <4>1. CASE x = k
        BY <3>1, <3>5, <4>1 DEF SameLink
      <4>2. CASE x # k
        BY <3>5, <4>2 DEF SameLink
      <4> QED BY <4>1, <4>2
    <3> QED BY <3>4, <3>6
  <2>2. CASE ~IsEncrypted(T, k)
    <3>1. T1 = T
      BY <1>2, <2>2
    <3>2. \A x \in Paths : x = k /\ T.block[x] # Absent => T.block[x].label # "crypto"
      BY <1>1, <2>2 DEF IsEncrypted
    <3> QED BY <3>1, <3>2 DEF SameLink
  <2> QED BY <2>1, <2>2
<1> HIDE DEF T1
<1>4. U.block = [T1.block EXCEPT ![p] = Absent]
  <2>1. Absent \in OrAbsent(BlockObject)
    BY DEF OrAbsent
  <2> QED BY <1>3, <2>1, BlockReplaced
<1>5. U.block[p] = Absent /\ \A x \in Paths \ {p} : U.block[x] = T1.block[x]
  BY <1>3, <1>4, BlocksOfTables
<1> HIDE DEF U
<1>6. LinksGone(T.block, U.block, p)
  BY <1>3, <1>5 DEF LinksGone, k
<1> QED BY <1>6 DEF U, T1

(* What a uevent, or a refresh, makes of the block objects.                *)
Ignored(B, e) ==
    \/ ~IsBlock(e.path)
    \/ e.act = "remove" /\ B[e.path] = Absent
    \/ e.act # "remove" /\ e.flag = "disabled"

LinksAfter(B, C, e) ==
    /\ Ignored(B, e) => C = B
    /\ ~Ignored(B, e) /\ e.act = "remove" => LinksGone(B, C, e.path)
    /\ ~Ignored(B, e) /\ e.act # "remove" => LinksShown(B, C, e.path, e.label)

LEMMA LinksOfBlock ==
    ASSUME machine \in Setups, NEW T \in Tables, NEW e \in Events,
           e.act = "remove" \/ e.flag # "disabled", NEW U, U = ForBlock(T, e)
    PROVE  LinksAfter(T.block, U.block, e)
<1> DEFINE p == e.path
<1>1. p \in Paths /\ e.label \in Labels
  BY DEF Events
<1>2. CASE ~IsBlock(p)
  BY <1>2 DEF ForBlock, LinksAfter, Ignored
<1>3. CASE IsBlock(p) /\ e.act = "remove" /\ T.block[p] = Absent
  BY <1>3 DEF ForBlock, LinksAfter, Ignored
<1>4. CASE IsBlock(p) /\ e.act = "remove" /\ T.block[p] # Absent
  <2>1. U = [PreRemove(T, p) EXCEPT !.block[p] = Absent]
    BY <1>4 DEF ForBlock
  <2>2. LinksGone(T.block, U.block, p)
    BY <1>1, <1>4, <2>1, BlockGone
  <2> QED BY <1>4, <2>2 DEF LinksAfter, Ignored
<1>5. CASE IsBlock(p) /\ e.act # "remove"
  <2>1. U = UpdateBlock(T, p, e.label)
    BY <1>5 DEF ForBlock
  <2>2. LinksShown(T.block, U.block, p, e.label)
    BY <1>1, <2>1, BlockShown
  <2> QED BY <1>5, <2>2 DEF LinksAfter, Ignored
<1> QED BY <1>2, <1>3, <1>4, <1>5

LEMMA LinksOfUevent ==
    ASSUME machine \in Setups, NEW T \in Tables, TablesOf(T), NEW e \in Events,
           NEW U, U = HandleUevent(T, e)
    PROVE  LinksAfter(T.block, U.block, e)
<1> DEFINE V == HandleBlockUevent(T, e)
<1>1. V \in Tables /\ SubsystemsOK(V) /\ LinksAfter(T.block, V.block, e)
  <2>1. CASE e.act = "remove"
    <3> DEFINE A == ForBlock(T, e)
               F == ForDrive(A, e)
               G == ForMDRaid(F, e)
    <3>1. V = ForModules(G, e)
      BY <2>1 DEF HandleBlockUevent
    <3>2. A \in Tables /\ BlockBecomes(T, A) /\ LinksAfter(T.block, A.block, e)
      BY <2>1, BlocksHandled, LinksOfBlock
    <3> HIDE DEF A
    <3>3. TablesOf(A)
      BY <3>2, TablesKept DEF BlockBecomes, TablesOf
    <3>4. F \in Tables /\ DrivesBecome(A, F, F.drive, F.drivePath)
      BY <3>2, <3>3, DrivesHandled DEF TablesOf
    <3> HIDE DEF F
    <3>5. PointersOK(F) /\ SubsystemsOK(F)
      BY <3>3, <3>4, TablesKept DEF DrivesBecome, TablesOf
    <3>6. G \in Tables /\ ArraysBecome(F, G)
      BY <3>4, <3>5, ArraysHandled
    <3> HIDE DEF G
    <3>7. V \in Tables /\ SubsystemsAlone(G, V) /\ V.block = G.block
      BY <3>1, <3>6, ModulesHandled
    <3> HIDE DEF V
    <3>8. SubsystemsOK(V)
      BY <3>5, <3>6, <3>7, TablesKept DEF ArraysBecome
    <3>9. V.block = A.block
      BY <3>4, <3>6, <3>7 DEF DrivesBecome, ArraysBecome
    <3> QED BY <3>2, <3>7, <3>8, <3>9
  <2>2. CASE e.act # "remove" /\ e.flag = "disabled"
    <3>1. V = T
      BY <2>2 DEF HandleBlockUevent
    <3> QED BY <2>2, <3>1 DEF TablesOf, LinksAfter, Ignored
  <2>3. CASE e.act # "remove" /\ e.flag # "disabled"
    <3> DEFINE A == ForModules(T, e)
               F == ForMDRaid(A, e)
               G == ForDrive(F, e)
    <3>1. V = ForBlock(G, e)
      BY <2>3 DEF HandleBlockUevent
    <3>2. /\ A \in Tables /\ A.block = T.block
          /\ ArraysAlone(T, A) /\ DrivesAlone(T, A) /\ SubsystemsAlone(T, A)
      BY ModulesHandled
    <3> HIDE DEF A
    <3>3. TablesOf(A)
      BY <3>2, TablesKept DEF TablesOf
    <3>4. F \in Tables /\ ArraysBecome(A, F)
      BY <3>2, <3>3, ArraysHandled DEF TablesOf
    <3> HIDE DEF F
    <3>5. DrivesOK(F) /\ SubsystemsOK(F)
      BY <3>3, <3>4, TablesKept DEF ArraysBecome, TablesOf
    <3>6. G \in Tables /\ DrivesBecome(F, G, G.drive, G.drivePath)
      BY <3>4, <3>5, DrivesHandled
    <3> HIDE DEF G
    <3>7. V \in Tables /\ BlockBecomes(G, V) /\ LinksAfter(G.block, V.block, e)
      BY <2>3, <3>1, <3>6, BlocksHandled, LinksOfBlock
    <3> HIDE DEF V
    <3>8. SubsystemsOK(V)
      BY <3>5, <3>6, <3>7, TablesKept DEF DrivesBecome, BlockBecomes
    <3>9. G.block = T.block
      BY <3>2, <3>4, <3>6 DEF ArraysBecome, DrivesBecome
    <3> QED BY <3>7, <3>8, <3>9
  <2> QED BY <2>1, <2>2, <2>3
<1>2. U = ForSubsystem(V, e)
  BY DEF HandleUevent
<1> HIDE DEF V
<1>3. U.block = V.block
  BY <1>1, <1>2, SubsystemsHandled
<1> QED BY <1>1, <1>3

LEMMA LinksHandled ==
    ASSUME machine \in Setups, tables \in Tables, TablesOf(tables), NEW e \in Events, Handle(e),
           e.act = "refresh" => e.flag # "disabled"
    PROVE  LinksAfter(tables.block, tables'.block, e)
<1>1. tables' = IF e.act = "refresh" THEN ForBlock(tables, e) ELSE HandleUevent(tables, e)
  BY DEF Handle, TablesBecome
<1>2. CASE e.act = "refresh"
  BY <1>1, <1>2, LinksOfBlock
<1>3. CASE e.act # "refresh"
  BY <1>1, <1>3, LinksOfUevent
<1> QED BY <1>2, <1>3

-----------------------------------------------------------------------------
(* What is known of p and the mappings on it, from what is still to come   *)
(* (C), the block objects (B) and the devices that are there (S).          *)
Mapping(q, p) == Kind(q) = "dm" /\ On(q) = p

OneMapping(S) == \A p \in Paths : \A q, r \in Mapped(p, S) : q = r

(* The mapping q is tied to p, and to its cleartext device if p has one to *)
(* name.                                                                   *)
Joined(B, q, p) ==
    /\ B[q] # Absent /\ B[q].backing = p
    /\ B[p] # Absent /\ B[p].label = "crypto" => B[p].cleartext # Absent

(* Before coldplug nothing is lost of what udev will tell.                 *)
ToCome(C, S, p) ==
    /\ p \in S => Shows(C, p) \/ Stays(C, p)
    /\ \A q \in S : Mapping(q, p) =>
         Linked(C, p, q) \/ (Stays(C, p) /\ (Shows(C, q) \/ Stays(C, q)))

(* From then on what is there is known, or to come; a mapping joins the    *)
(* device below.                                                           *)
Known(C, B, S, p) ==
    /\ p \in S => Shows(C, p) \/ (Stays(C, p) /\ B[p] # Absent)
    /\ \A q \in S : Mapping(q, p) =>
         \/ Linked(C, p, q)
         \/ /\ Stays(C, p) /\ B[p] # Absent
            /\ Shows(C, q) \/ (Stays(C, q) /\ Joined(B, q, p))

(* A mapping that is gone goes before the next is shown, and with no word  *)
(* of it to come it has no object; what is named is there, on p.           *)
Outdated(C, B, S, p) ==
    /\ \A q \in S, r \in Paths : r # q /\ Mapping(q, p) /\ Mapping(r, p) => Outlived(C, r, q)
    /\ \A q \in Paths \ S : Mapping(q, p) => Goes(C, q) \/ (B[q] = Absent /\ Silent(C, q))
    /\ B[p] # Absent /\ B[p].cleartext # Absent =>
         /\ B[p].label = "crypto"
         /\ LET c == B[p].cleartext IN c \in Paths /\ B[c] # Absent /\ B[c].backing = p

BackingsOK(B) ==
    \A q \in Paths : B[q] # Absent /\ B[q].backing # Absent => Mapping(q, B[q].backing)

(* A block object is brought up to date: objects that others name stay.    *)
LEMMA BackingsKept ==
    ASSUME machine \in Setups, NEW B, BackingsOK(B), NEW e \in Events, NEW C, LinksAfter(B, C, e)
    PROVE  BackingsOK(C)
<1> DEFINE p == e.path
<1>1. p \in Paths
  BY DEF Events
<1>2. CASE Ignored(B, e)
  BY <1>2 DEF LinksAfter
<1>3. CASE ~Ignored(B, e) /\ e.act = "remove"
  <2>1. C[p] = Absent /\ \A x \in Paths \ {p} : SameLink(B[x], C[x])
    BY <1>3 DEF LinksAfter, LinksGone
  <2> QED BY <1>1, <2>1 DEF BackingsOK, SameLink
<1>4. CASE ~Ignored(B, e) /\ e.act # "remove"
  <2>1. C[p].backing = BackingIn(B, p) /\ \A x \in Paths \ {p} : SameLink(B[x], C[x])
    BY <1>4 DEF LinksAfter, LinksShown
  <2>2. BackingIn(B, p) # Absent => Mapping(p, BackingIn(B, p))
    BY DEF BackingIn, Mapping
  <2> QED BY <1>1, <2>1, <2>2 DEF BackingsOK, SameLink
<1> QED BY <1>2, <1>3, <1>4

(* What a uevent makes of the objects of p and of the mapping q on it.     *)
LEMMA ThereAfter ==
    ASSUME NEW B, NEW e \in Events, NEW C, LinksAfter(B, C, e), NEW x \in Paths, IsBlock(x)
    PROVE  /\ Shown(e, x) => C[x] # Absent /\ C[x].label = e.label
                             /\ C[x].backing = BackingIn(B, x)
           /\ Gone(e, x) => C[x] = Absent
           /\ ~Shown(e, x) /\ ~Gone(e, x) => SameLink(B[x], C[x])
<1>1. e.path \in Paths
  BY DEF Events
<1>2. CASE Ignored(B, e)
  BY <1>1, <1>2 DEF LinksAfter, Ignored, Shown, Gone, SameLink
<1>3. CASE ~Ignored(B, e) /\ e.act = "remove"
  BY <1>1, <1>3 DEF LinksAfter, LinksGone, Ignored, Shown, Gone, SameLink
<1>4. CASE ~Ignored(B, e) /\ e.act # "remove"
  BY <1>1, <1>4 DEF LinksAfter, LinksShown, Ignored, Shown, Gone, SameLink
<1> QED BY <1>2, <1>3, <1>4

LEMMA JoinedByUevent ==
    ASSUME machine \in Setups, NEW B, NEW e \in Events, NEW C, LinksAfter(B, C, e),
           NEW p \in Paths, IsBlock(p), NEW q \in present, q \in Paths, Mapping(q, p),
           B[p] # Absent, Shown(e, q)
    PROVE  Joined(C, q, p)
<1>1. IsBlock(q) /\ q # p /\ Absent \notin Paths
  <2>1. Kind(p) # "dm"
    BY DeviceTablesAssumption DEF Mapping, Kind, On
  <2> QED BY <2>1, MachineShape DEF Mapping, IsBlock
<1>2. e.path = q /\ e.act # "remove" /\ e.flag # "disabled" /\ ~Ignored(B, e)
  BY <1>1 DEF Shown, Ignored
<1>3. LinksShown(B, C, q, e.label)
  BY <1>2 DEF LinksAfter
<1>4. BackingIn(B, q) = p
  BY DEF BackingIn, Mapping
<1>5. C[q] # Absent /\ C[q].backing = p
  BY <1>3, <1>4 DEF LinksShown
<1>6. /\ SameLink(B[p], C[p])
      /\ C[p] # Absent => C[p].cleartext = IF p = BackingIn(B, q) /\ B[p].label = "crypto" THEN q
                                           ELSE B[p].cleartext
  BY <1>1, <1>3 DEF LinksShown
<1>7. C[p] # Absent /\ C[p].label = "crypto" => C[p].cleartext # Absent
  BY <1>1, <1>4, <1>6 DEF SameLink
<1> QED BY <1>5, <1>7 DEF Joined

LEMMA JoinedAfter ==
    ASSUME machine \in Setups, NEW B, NEW e \in Events, NEW C, LinksAfter(B, C, e),
           NEW p \in Paths, IsBlock(p), NEW q \in Paths, Mapping(q, p),
           Joined(B, q, p), ~Gone(e, p), ~Gone(e, q), ~Shown(e, q), B[p] # Absent
    PROVE  Joined(C, q, p) \/ (Gone(e, e.path) /\ B[e.path] # Absent /\ B[e.path].backing = p)
<1> DEFINE x == e.path
<1>1. IsBlock(q) /\ q # p /\ Absent \notin Paths /\ x \in Paths
  <2>1. Kind(p) # "dm"
    BY DeviceTablesAssumption DEF Mapping, Kind, On
  <2> QED BY <2>1, MachineShape DEF Mapping, IsBlock, Events
<1>2. SameLink(B[q], C[q]) /\ C[q] # Absent /\ C[q].backing = p
  <2>1. SameLink(B[q], C[q])
    BY <1>1, ThereAfter
  <2> QED BY <2>1 DEF SameLink, Joined
<1>3. CASE Ignored(B, e)
  BY <1>3 DEF LinksAfter
<1>4. CASE ~Ignored(B, e) /\ e.act = "remove"
  <2>1. x # p /\ B[x] # Absent /\ Gone(e, x)
    BY <1>4 DEF Gone, Ignored
  <2>2. LinksGone(B, C, x)
    BY <1>4 DEF LinksAfter
  <2>3. /\ SameLink(B[p], C[p])
        /\ C[p] # Absent => C[p].cleartext = IF p = B[x].backing /\ B[p].label = "crypto"
                                             THEN Absent ELSE B[p].cleartext
    BY <2>1, <2>2 DEF LinksGone
  <2> QED BY <1>2, <2>1, <2>3 DEF Joined, SameLink
<1>5. CASE ~Ignored(B, e) /\ e.act # "remove"
  <2>1. LinksShown(B, C, x, e.label)
    BY <1>5 DEF LinksAfter
  <2>2. CASE x = p
    <3>1. C[p].label = e.label
      BY <2>1, <2>2 DEF LinksShown
    <3>2. e.label = "crypto" => C[p].cleartext # Absent
      BY <1>2, <2>1, <2>2 DEF LinksShown
    <3> QED BY <1>2, <3>1, <3>2 DEF Joined
  <2>3. CASE x # p
    <3>1. /\ SameLink(B[p], C[p])
          /\ C[p] # Absent => C[p].cleartext = IF p = BackingIn(B, x) /\ B[p].label = "crypto"
                                               THEN x ELSE B[p].cleartext
      BY <2>1, <2>3 DEF LinksShown
    <3> QED BY <1>1, <1>2, <3>1 DEF Joined, SameLink
  <2> QED BY <2>2, <2>3
<1> QED BY <1>3, <1>4, <1>5

-----------------------------------------------------------------------------
(* The main thread takes the first of what is to come.                     *)
LEMMA TailSaysMore ==
    ASSUME NEW C \in Seq(Events), NEW D \in Seq(Events), NEW e \in Events, C = <<e>> \o D,
           NEW p, NEW q
    PROVE  /\ Stays(C, p) <=> ~Gone(e, p) /\ Stays(D, p)
           /\ Silent(C, p) <=> ~Shown(e, p) /\ Silent(D, p)
           /\ Shows(C, p) <=> Shows(D, p) \/ (Stays(D, p) /\ Shown(e, p))
           /\ Goes(C, p) <=> Goes(D, p) \/ (Silent(D, p) /\ Gone(e, p))
           /\ Linked(C, p, q) <=>
                 Linked(D, p, q) \/ (Stays(D, p) /\ Shown(e, p) /\ Shows(D, q))
           /\ Outlived(C, p, q) <=> Outlived(D, p, q) /\ (~Gone(e, p) \/ ~Silent(D, q))
<1> DEFINE s == <<e>>
<1>1. s \in Seq(Events)
  OBVIOUS
<1>2. /\ Stays(s, p) <=> ~Gone(e, p)
      /\ Silent(s, p) <=> ~Shown(e, p)
      /\ Shows(s, p) <=> Shown(e, p)
      /\ Goes(s, p) <=> Gone(e, p)
      /\ ~Linked(s, p, q)
      /\ Outlived(s, p, q) <=> ~Gone(e, p)
  BY OneShows
<1> HIDE DEF s, Events
<1>3. /\ Stays(s \o D, p) <=> Stays(s, p) /\ Stays(D, p)
      /\ Silent(s \o D, p) <=> Silent(s, p) /\ Silent(D, p)
      /\ Shows(s \o D, p) <=> Shows(D, p) \/ (Stays(D, p) /\ Shows(s, p))
      /\ Goes(s \o D, p) <=> Goes(D, p) \/ (Silent(D, p) /\ Goes(s, p))
  BY <1>1, ConcatShows
<1>4. /\ Linked(s \o D, p, q) <=>
            \/ Linked(D, p, q)
            \/ Stays(D, p) /\ Shows(s, p) /\ Shows(D, q)
            \/ Stays(D, p) /\ Stays(D, q) /\ Linked(s, p, q)
      /\ Outlived(s \o D, p, q) <=> Outlived(D, p, q) /\ (Outlived(s, p, q) \/ ~Silent(D, q))
  BY <1>1, ConcatLinks
<1>5. C = s \o D
  BY DEF s
<1> QED BY <1>2, <1>3, <1>4, <1>5

LEMMA KnownAfter ==
    ASSUME machine \in Setups, present \subseteq Paths,
           NEW C \in Seq(Events), NEW D \in Seq(Events), NEW e \in Events, C = <<e>> \o D,
           NEW B, BackingsOK(B), NEW B2, LinksAfter(B, B2, e),
           NEW p \in Paths, IsBlock(p), Known(C, B, present, p), Outdated(C, B, present, p)
    PROVE  Known(D, B2, present, p)
<1>1. /\ Stays(C, p) => ~Gone(e, p) /\ Stays(D, p)
      /\ Shows(C, p) <=> Shows(D, p) \/ (Stays(D, p) /\ Shown(e, p))
  BY TailSaysMore
<1>2. /\ Shown(e, p) => B2[p] # Absent
      /\ B[p] # Absent /\ ~Gone(e, p) => B2[p] # Absent
  <2>1. /\ Shown(e, p) => B2[p] # Absent
        /\ ~Shown(e, p) /\ ~Gone(e, p) => SameLink(B[p], B2[p])
    BY ThereAfter
  <2> QED BY <2>1 DEF SameLink
<1>3. p \in present => Shows(D, p) \/ (Stays(D, p) /\ B2[p] # Absent)
  BY <1>1, <1>2 DEF Known
<1>4. ASSUME NEW q \in present, Mapping(q, p)
      PROVE  \/ Linked(D, p, q)
             \/ /\ Stays(D, p) /\ B2[p] # Absent
                /\ Shows(D, q) \/ (Stays(D, q) /\ Joined(B2, q, p))
  <2>0. q \in Paths
    OBVIOUS
  <2>1. /\ Linked(C, p, q) <=>
              Linked(D, p, q) \/ (Stays(D, p) /\ Shown(e, p) /\ Shows(D, q))
        /\ Stays(C, q) => ~Gone(e, q) /\ Stays(D, q)
        /\ Shows(C, q) <=> Shows(D, q) \/ (Stays(D, q) /\ Shown(e, q))
    BY TailSaysMore
  <2>2. CASE Linked(C, p, q)
    BY <1>2, <2>1, <2>2
  <2>3. CASE Stays(C, p) /\ B[p] # Absent /\ Shows(C, q)
    <3>1. Stays(D, p) /\ B2[p] # Absent
      BY <1>1, <1>2, <2>3
    <3>2. Shown(e, q) => Joined(B2, q, p)
      BY <1>4, <2>0, <2>3, JoinedByUevent
    <3> QED BY <2>1, <2>3, <3>1, <3>2
  <2>4. CASE Stays(C, p) /\ B[p] # Absent /\ Stays(C, q) /\ Joined(B, q, p)
    <3>1. Stays(D, p) /\ B2[p] # Absent /\ Stays(D, q) /\ ~Gone(e, p) /\ ~Gone(e, q)
      BY <1>1, <1>2, <2>1, <2>4
    <3>2. CASE Shown(e, q)
      BY <1>4, <2>0, <2>4, <3>1, <3>2, JoinedByUevent
    <3>3. CASE Joined(B2, q, p)
      BY <3>1, <3>3
    <3>4. CASE ~Shown(e, q) /\ ~Joined(B2, q, p)
      <4> DEFINE x == e.path
      <4>1. Gone(e, x) /\ B[x] # Absent /\ B[x].backing = p /\ x \in Paths /\ p # Absent
        <5>1. x \in Paths /\ p # Absent
          BY MachineShape DEF Events
        <5>2. Joined(B2, q, p) \/ (Gone(e, e.path) /\ B[e.path] # Absent /\ B[e.path].backing = p)
          <6> HIDE DEF x
          <6> QED BY <1>4, <2>0, <2>4, <3>1, <3>4, <5>1, JoinedAfter
        <5> QED BY <3>4, <5>1, <5>2
      <4>2. Mapping(x, p)
        BY <4>1 DEF BackingsOK
      <4>3. x # q
        BY <3>1, <4>1
      <4>4. Outlived(C, x, q)
        BY <1>4, <4>1, <4>2, <4>3 DEF Outdated
      <4>5. ~Silent(D, q)
        BY <4>1, <4>4, TailSaysMore
      <4>6. Shows(D, q)
        BY <3>1, <4>5, HeardAndStays
      <4> QED BY <3>1, <4>6
    <3> QED BY <3>2, <3>3, <3>4
  <2> QED BY <1>4, <2>2, <2>3, <2>4 DEF Known
<1> QED BY <1>3, <1>4 DEF Known

LEMMA OutdatedAfter ==
    ASSUME machine \in Setups, present \subseteq Paths,
           NEW C \in Seq(Events), NEW D \in Seq(Events), NEW e \in Events, C = <<e>> \o D,
           NEW B, BackingsOK(B), NEW B2, LinksAfter(B, B2, e),
           NEW p \in Devices, IsBlock(p), p \notin Overlooked(e), Outdated(C, B, present, p)
    PROVE  Outdated(D, B2, present, p)
<1>0. p \in Paths /\ Absent \notin Paths
  BY MachineShape
<1>1. ASSUME NEW q \in present, NEW r \in Paths, r # q, Mapping(q, p), Mapping(r, p)
      PROVE  Outlived(D, r, q)
  <2>1. Outlived(C, r, q)
    BY <1>1 DEF Outdated
  <2> QED BY <2>1, TailSaysMore
<1>2. ASSUME NEW q \in Paths \ present, Mapping(q, p)
      PROVE  Goes(D, q) \/ (B2[q] = Absent /\ Silent(D, q))
  <2>1. IsBlock(q)
    BY <1>2 DEF Mapping, IsBlock
  <2>2. /\ Silent(C, q) <=> ~Shown(e, q) /\ Silent(D, q)
        /\ Goes(C, q) <=> Goes(D, q) \/ (Silent(D, q) /\ Gone(e, q))
    BY TailSaysMore
  <2>3. /\ Gone(e, q) => B2[q] = Absent
        /\ ~Shown(e, q) /\ B[q] = Absent => B2[q] = Absent
    <3>1. /\ Gone(e, q) => B2[q] = Absent
          /\ ~Shown(e, q) /\ ~Gone(e, q) => SameLink(B[q], B2[q])
      BY <1>2, <2>1, ThereAfter
    <3> QED BY <3>1 DEF SameLink
  <2>4. Goes(C, q) \/ (B[q] = Absent /\ Silent(C, q))
    BY <1>2 DEF Outdated
  <2> QED BY <2>2, <2>3, <2>4
<1>3. ASSUME B2[p] # Absent, B2[p].cleartext # Absent
      PROVE  /\ B2[p].label = "crypto"
             /\ LET c == B2[p].cleartext IN c \in Paths /\ B2[c] # Absent /\ B2[c].backing = p
  <2> DEFINE x == e.path
             c == B2[p].cleartext
             old == B[p].cleartext
  <2>0. x \in Paths
    BY DEF Events
  <2>1. B[p] # Absent /\ old # Absent =>
          B[p].label = "crypto" /\ old \in Paths /\ B[old] # Absent /\ B[old].backing = p
    BY DEF Outdated
  <2>2. CASE Ignored(B, e)
    BY <1>3, <2>1, <2>2 DEF LinksAfter
  <2>3. CASE ~Ignored(B, e) /\ e.act = "remove"
    <3>1. LinksGone(B, B2, x) /\ B[x] # Absent
      BY <2>3 DEF LinksAfter, Ignored
    <3>2. x # p
      BY <1>3, <3>1 DEF LinksGone
    <3>3. /\ SameLink(B[p], B2[p])
          /\ c = IF p = B[x].backing /\ B[p].label = "crypto" THEN Absent ELSE old
      BY <1>0, <1>3, <3>1, <3>2 DEF LinksGone
    <3>4. B[p] # Absent /\ B2[p].label = B[p].label /\ c = old
          /\ ~(p = B[x].backing /\ B[p].label = "crypto")
      BY <1>3, <3>3 DEF SameLink
    <3>5. c \in Paths /\ B[c] # Absent /\ B[c].backing = p /\ B[p].label = "crypto"
      BY <1>3, <2>1, <3>4
    <3>6. c # x
      BY <3>4, <3>5
    <3>7. SameLink(B[c], B2[c])
      BY <3>1, <3>5, <3>6 DEF LinksGone
    <3> QED BY <3>4, <3>5, <3>7 DEF SameLink
  <2>4. CASE ~Ignored(B, e) /\ e.act # "remove"
    <3>1. LinksShown(B, B2, x, e.label)
      BY <2>4 DEF LinksAfter
    <3>2. CASE x = p
      BY <1>3, <3>1, <3>2 DEF LinksShown
    <3>3. CASE x # p
      <4>1. /\ SameLink(B[p], B2[p])
            /\ c = IF p = BackingIn(B, x) /\ B[p].label = "crypto" THEN x ELSE old
        BY <1>0, <1>3, <3>1, <3>3 DEF LinksShown
      <4>2. B[p] # Absent /\ B2[p].label = B[p].label
        BY <1>3, <4>1 DEF SameLink
      <4>3. CASE p = BackingIn(B, x) /\ B[p].label = "crypto"
        <5>1. B2[x] # Absent /\ B2[x].backing = p /\ c = x
          BY <3>1, <4>1, <4>3 DEF LinksShown
        <5> QED BY <2>0, <4>2, <4>3, <5>1
      <4>4. CASE ~(p = BackingIn(B, x) /\ B[p].label = "crypto")
        <5>1. c \in Paths /\ B[c] # Absent /\ B[c].backing = p /\ B[p].label = "crypto"
          BY <1>3, <2>1, <4>1, <4>2, <4>4
        <5>2. c # x
          <6>1. SUFFICES ASSUME c = x PROVE FALSE
            OBVIOUS
          <6>2. Kind(x) = "dm" /\ On(x) = p
            BY <1>0, <5>1, <6>1 DEF BackingsOK, Mapping
          <6>3. x \notin present
            BY <4>2, <4>4, <5>1, <6>2 DEF BackingIn
          <6>4. e.flag # "disabled"
            BY <2>4 DEF Ignored
          <6> QED BY <2>4, <6>2, <6>3, <6>4 DEF Overlooked
        <5>3. SameLink(B[c], B2[c])
          BY <3>1, <5>1, <5>2 DEF LinksShown
        <5> QED BY <4>2, <5>1, <5>3 DEF SameLink
      <4> QED BY <4>3, <4>4
    <3> QED BY <3>2, <3>3
  <2> QED BY <2>2, <2>3, <2>4
<1> QED BY <1>1, <1>2, <1>3 DEF Outdated

-----------------------------------------------------------------------------
(* The main thread is given more to do: a coldplug, or refreshes, neither  *)
(* of which removes anything.                                              *)
LEMMA KnownBehind ==
    ASSUME NEW C \in Seq(Events), NEW t \in Seq(Events), \A x : Stays(t, x),
           NEW B, NEW S \in SUBSET Paths, NEW p \in Paths,
           \A q \in Paths \ S : Silent(t, q) \/ B[q] # Absent,
           Known(C, B, S, p), Outdated(C, B, S, p)
    PROVE  Known(t \o C, B, S, p) /\ Outdated(t \o C, B, S, p)
<1> DEFINE D == t \o C
<1>1. \A x : /\ Stays(D, x) <=> Stays(C, x)
             /\ Silent(D, x) <=> Silent(t, x) /\ Silent(C, x)
             /\ Shows(C, x) => Shows(D, x)
             /\ Goes(C, x) => Goes(D, x)
  BY ConcatShows
<1>2. \A x, y : /\ Linked(C, x, y) => Linked(D, x, y)
                /\ Outlived(C, x, y) => Outlived(D, x, y)
  <2>1. ASSUME NEW x, NEW y
        PROVE  /\ Linked(C, x, y) => Linked(D, x, y)
               /\ Outlived(C, x, y) => Outlived(D, x, y)
    <3>1. Outlived(t, x, y)
      BY DEF Outlived, Stays, Gone
    <3> QED BY <3>1, ConcatLinks
  <2> QED BY <2>1
<1> HIDE DEF D
<1>3. Known(D, B, S, p)
  BY <1>1, <1>2 DEF Known
<1>4. Outdated(D, B, S, p)
  BY <1>1, <1>2 DEF Outdated
<1> QED BY <1>3, <1>4 DEF D

(* What coldplug shows.                                                    *)
LEMMA EnumerationShows ==
    ASSUME machine \in Setups, WorldType, WorldShape, NEW s, Enumerated(s)
    PROVE  /\ \A x : Stays(s, x)
           /\ \A x \in present : Shows(s, x)
           /\ \A x : x \notin present => Silent(s, x)
<1>1. \A i \in DOMAIN s : /\ s[i].path \in present /\ s[i].act = "add" /\ s[i].flag = "none"
  <2>1. ASSUME NEW i \in DOMAIN s
        PROVE  /\ s[i].path \in present /\ s[i].act = "add" /\ s[i].flag = "none"
    <3>1. s[i].path \in present /\ s[i] = Snapshot("add", s[i].path)
      BY DEF Enumerated
    <3> QED BY <3>1 DEF Snapshot
  <2> QED BY <2>1
<1>2. \A x : Stays(s, x)
  BY <1>1 DEF Stays
<1>3. ASSUME NEW x \in present
      PROVE  Shows(s, x)
  <2>1. Comes(s, x)
    BY DEF Enumerated
  <2>2. PICK i \in DOMAIN s : s[i].path = x
    BY <2>1 DEF Comes
  <2> QED BY <1>1, <2>2 DEF Shows, Shown, Gone
<1>4. \A x : x \notin present => Silent(s, x)
  BY <1>1 DEF Silent, Shown
<1> QED BY <1>2, <1>3, <1>4

(* At start-up what is there is coldplugged twice: the second time a       *)
(* mapping finds the device below.                                         *)
LEMMA KnownFromStart ==
    ASSUME NEW C \in Seq(Events), NEW u \in Seq(Events), \A x : Stays(u, x),
           NEW B, NEW S \in SUBSET Paths, NEW p \in Paths,
           \A q \in S : Shows(u, q), \A q \in Paths \ S : Silent(u, q),
           \A q \in S : Mapping(q, p) => p \in S,
           ToCome(C, S, p), Outdated(C, B, S, p)
    PROVE  Known((u \o u) \o C, B, S, p) /\ Outdated((u \o u) \o C, B, S, p)
<1> DEFINE t == u \o u
<1>0. t \in Seq(Events)
  OBVIOUS
<1>1. \A x : /\ Stays(t, x)
             /\ Silent(u, x) => Silent(t, x)
             /\ Shows(u, x) => Shows(t, x)
  BY ConcatShows
<1>2. \A q \in S : Mapping(q, p) => Linked(t, p, q)
  BY ConcatLinks
<1> HIDE DEF t
<1>3. \A x : /\ Stays(t \o C, x) <=> Stays(C, x)
             /\ Silent(t \o C, x) <=> Silent(t, x) /\ Silent(C, x)
             /\ Shows(t \o C, x) <=> Shows(C, x) \/ (Stays(C, x) /\ Shows(t, x))
             /\ Goes(C, x) => Goes(t \o C, x)
  BY <1>0, <1>1, ConcatShows
<1>4. \A x, y : /\ Linked(t \o C, x, y) <=>
                     \/ Linked(C, x, y)
                     \/ Stays(C, x) /\ Shows(t, x) /\ Shows(C, y)
                     \/ Stays(C, x) /\ Stays(C, y) /\ Linked(t, x, y)
                /\ Outlived(C, x, y) => Outlived(t \o C, x, y)
  <2>1. ASSUME NEW x, NEW y
        PROVE  /\ Linked(t \o C, x, y) <=>
                    \/ Linked(C, x, y)
                    \/ Stays(C, x) /\ Shows(t, x) /\ Shows(C, y)
                    \/ Stays(C, x) /\ Stays(C, y) /\ Linked(t, x, y)
               /\ Outlived(C, x, y) => Outlived(t \o C, x, y)
    <3>1. Outlived(t, x, y)
      BY <1>1 DEF Outlived, Stays, Gone
    <3> QED BY <1>0, <3>1, ConcatLinks
  <2> QED BY <2>1
<1>5. Known(t \o C, B, S, p)
  <2>1. p \in S => Shows(t \o C, p)
    BY <1>1, <1>3 DEF ToCome
  <2>2. \A q \in S : Mapping(q, p) => Linked(t \o C, p, q)
    BY <1>1, <1>2, <1>4 DEF ToCome
  <2> QED BY <2>1, <2>2 DEF Known
<1>6. Outdated(t \o C, B, S, p)
  BY <1>1, <1>3, <1>4 DEF Outdated
<1> QED BY <1>5, <1>6 DEF t

-----------------------------------------------------------------------------
(* The world changes from S to R: what is there in the end stays, and is   *)
(* shown if it is new; what is not goes, or is not heard of.               *)
Tells(s, S, R) ==
    /\ \A x \in R : Stays(s, x) /\ (x \in S \/ Shows(s, x))
    /\ \A x \in Paths \ R : IF x \in S THEN Goes(s, x) ELSE Silent(s, x)
    /\ \A x \in Paths : ~Stays(s, x) => x \in S \ R /\ R \subseteq S
    /\ \A x \in R \ S : On(x) \in OrAbsent(S)

LEMMA KnownMore ==
    ASSUME NEW C \in Seq(Events), NEW s \in Seq(Events),
           NEW B, NEW S \in SUBSET Paths, NEW R \in SUBSET Paths, NEW p \in Paths,
           Tells(s, S, R), OneMapping(S),
           \A q \in S : Mapping(q, p) => p \in S, \A q \in R : Mapping(q, p) => p \in R,
           Outdated(C, B, S, p)
    PROVE  /\ ToCome(C, S, p) => ToCome(C \o s, R, p)
           /\ Known(C, B, S, p) => Known(C \o s, B, R, p)
           /\ Outdated(C \o s, B, R, p)
<1> DEFINE D == C \o s
<1>1. \A x : /\ Stays(D, x) <=> Stays(C, x) /\ Stays(s, x)
             /\ Silent(D, x) <=> Silent(C, x) /\ Silent(s, x)
             /\ Shows(D, x) <=> Shows(s, x) \/ (Stays(s, x) /\ Shows(C, x))
             /\ Goes(D, x) <=> Goes(s, x) \/ (Silent(s, x) /\ Goes(C, x))
  BY ConcatShows
<1>2. \A x, y : /\ Linked(D, x, y) <=>
                     \/ Linked(s, x, y)
                     \/ Stays(s, x) /\ Shows(C, x) /\ Shows(s, y)
                     \/ Stays(s, x) /\ Stays(s, y) /\ Linked(C, x, y)
                /\ Outlived(D, x, y) <=>
                     Outlived(s, x, y) /\ (Outlived(C, x, y) \/ ~Silent(s, y))
  BY ConcatLinks
<1> HIDE DEF D
<1>3. \A x \in R : /\ Stays(s, x)
                   /\ x \in S \/ Shows(s, x)
  BY DEF Tells
<1>7. \A q \in R : Mapping(q, p) => p \in R /\ (q \in S \/ p \in S)
  BY DeviceTablesAssumption DEF Tells, Mapping, OrAbsent
<1>4. ASSUME ToCome(C, S, p)
      PROVE  ToCome(D, R, p)
  <2>1. p \in R => Shows(D, p) \/ Stays(D, p)
    BY <1>1, <1>3, <1>4 DEF ToCome
  <2>2. ASSUME NEW q \in R, Mapping(q, p)
        PROVE  Linked(D, p, q) \/ (Stays(D, p) /\ (Shows(D, q) \/ Stays(D, q)))
    <3>1. Stays(s, p) /\ Stays(s, q) /\ (q \in S \/ p \in S)
      BY <1>3, <1>7, <2>2
    <3>2. CASE q \in S
      BY <1>1, <1>2, <1>4, <2>2, <3>1, <3>2 DEF ToCome
    <3>3. CASE q \notin S /\ p \in S
      <4>1. Shows(s, q)
        BY <1>3, <2>2, <3>3
      <4> QED BY <1>1, <1>2, <1>4, <3>1, <3>3, <4>1 DEF ToCome
    <3> QED BY <3>1, <3>2, <3>3
  <2> QED BY <2>1, <2>2 DEF ToCome
<1>5. ASSUME Known(C, B, S, p)
      PROVE  Known(D, B, R, p)
  <2>1. p \in R => Shows(D, p) \/ (Stays(D, p) /\ B[p] # Absent)
    BY <1>1, <1>3, <1>5 DEF Known
  <2>2. ASSUME NEW q \in R, Mapping(q, p)
        PROVE  \/ Linked(D, p, q)
               \/ /\ Stays(D, p) /\ B[p] # Absent
                  /\ Shows(D, q) \/ (Stays(D, q) /\ Joined(B, q, p))
    <3>1. Stays(s, p) /\ Stays(s, q) /\ (q \in S \/ p \in S)
      BY <1>3, <1>7, <2>2
    <3>2. CASE q \in S
      BY <1>1, <1>2, <1>5, <2>2, <3>1, <3>2 DEF Known
    <3>3. CASE q \notin S /\ p \in S
      <4>1. Shows(s, q)
        BY <1>3, <2>2, <3>3
      <4> QED BY <1>1, <1>2, <1>5, <3>1, <3>3, <4>1 DEF Known
    <3> QED BY <3>1, <3>2, <3>3
  <2> QED BY <2>1, <2>2 DEF Known
<1>6. Outdated(D, B, R, p)
  <2>1. ASSUME NEW q \in R, NEW r \in Paths, r # q, Mapping(q, p), Mapping(r, p)
        PROVE  Outlived(D, r, q)
    <3>1. Stays(s, r)
      <4>1. SUFFICES ASSUME ~Stays(s, r) PROVE FALSE
        OBVIOUS
      <4>2. r \in S /\ q \in S
        BY <4>1 DEF Tells
      <4> QED BY <2>1, <4>2 DEF OneMapping, Mapped, Mapping
    <3>2. Outlived(s, r, q)
      BY <3>1 DEF Outlived, Stays, Gone
    <3>3. CASE q \in S
      BY <1>2, <2>1, <3>2, <3>3 DEF Outdated
    <3>4. CASE q \notin S
      <4>1. Shows(s, q)
        BY <1>3, <2>1, <3>4
      <4>2. ~Silent(s, q)
        BY <4>1 DEF Shows, Silent
      <4> QED BY <1>2, <3>2, <4>2
    <3> QED BY <3>3, <3>4
  <2>2. ASSUME NEW q \in Paths \ R, Mapping(q, p)
        PROVE  Goes(D, q) \/ (B[q] = Absent /\ Silent(D, q))
    <3>1. CASE q \in S
      BY <1>1, <3>1 DEF Tells
    <3>2. CASE q \notin S
      BY <1>1, <2>2, <3>2 DEF Tells, Outdated
    <3> QED BY <3>1, <3>2
  <2> QED BY <2>1, <2>2 DEF Outdated
<1> QED BY <1>4, <1>5, <1>6 DEF D

LEMMA TwoShow ==
    ASSUME NEW d \in Events, NEW e \in Events, NEW x
    PROVE  /\ Stays(<<d, e>>, x) <=> ~Gone(d, x) /\ ~Gone(e, x)
           /\ Silent(<<d, e>>, x) <=> ~Shown(d, x) /\ ~Shown(e, x)
           /\ Shows(<<d, e>>, x) <=> Shown(e, x) \/ (~Gone(e, x) /\ Shown(d, x))
           /\ Goes(<<d, e>>, x) <=> Gone(e, x) \/ (~Shown(e, x) /\ Gone(d, x))
<1> DEFINE u == <<d, e>>
<1>1. DOMAIN u = {1, 2} /\ u[1] = d /\ u[2] = e
  OBVIOUS
<1> HIDE DEF u
<1>2. Stays(u, x) <=> ~Gone(d, x) /\ ~Gone(e, x)
  BY <1>1 DEF Stays, Gone
<1>3. Silent(u, x) <=> ~Shown(d, x) /\ ~Shown(e, x)
  BY <1>1 DEF Silent
<1>4. Shows(u, x) <=> Shown(e, x) \/ (~Gone(e, x) /\ Shown(d, x))
  BY <1>1 DEF Shows
<1>5. Goes(u, x) <=> Gone(e, x) \/ (~Shown(e, x) /\ Gone(d, x))
  BY <1>1 DEF Goes
<1> QED BY <1>2, <1>3, <1>4, <1>5 DEF u

(* A change of media is one of a disk.                                     *)
MediaOK(s) == \A i \in DOMAIN s : s[i].flag = "media" => Kind(s[i].path) = "disk"

WorldTells ==
    /\ \E s \in Seq(Events) : Emit(s) /\ Tells(s, present, present') /\ MediaOK(s)
    /\ OneMapping(present')

LEMMA PlugTells ==
    ASSUME machine \in Setups, WorldType, WorldShape, OneMapping(present),
           NEW p \in Devices, Plug(p)
    PROVE  WorldTells
<1> DEFINE a == Snapshot("add", p)
           c == Snapshot("change", p)
           d == [a EXCEPT !.flag = "disabled"]
           o == Snapshot("change", On(p))
           events == IF Kind(p) = "dm" THEN <<d, c>>
                     ELSE IF Kind(p) = "partition" THEN <<a, o>> ELSE <<a>>
<1>1. /\ p \in Paths /\ p \notin present /\ On(p) \in OrAbsent(present)
      /\ present' = present \cup {p} /\ Emit(events)
      /\ Kind(p) = "dm" => Mapped(On(p), present) = {}
      /\ present \subseteq Paths /\ Absent \notin Paths
  BY MachineShape DEF Plug, Emit, WithParent, Snapshot, WorldType
<1>2. /\ a \in Events /\ a.act = "add" /\ a.path = p /\ a.flag = "none"
      /\ c \in Events /\ c.act = "change" /\ c.path = p /\ c.flag = "none"
  BY <1>1, SnapshotShape
<1>3. d \in Events /\ d.act = "add" /\ d.path = p /\ d.flag = "disabled"
  BY <1>2 DEF Events
<1> HIDE DEF a, c, d
<1>4. OneMapping(present')
  <2>1. ASSUME NEW k \in Paths, NEW q \in Mapped(k, present'), NEW r \in Mapped(k, present')
        PROVE  q = r
    BY <1>1 DEF OneMapping, Mapped
  <2> QED BY <2>1 DEF OneMapping
<1>5. ASSUME NEW s \in Seq(Events), Shows(s, p), \A x : Stays(s, x),
             \A x : x \notin present' => Silent(s, x)
      PROVE  Tells(s, present, present')
  BY <1>1, <1>5 DEF Tells
<1>6. CASE Kind(p) = "dm"
  <2>1. events = <<d, c>>
    BY <1>6
  <2> HIDE DEF events
  <2>2. events \in Seq(Events) /\ MediaOK(events)
    BY <1>2, <1>3, <2>1 DEF MediaOK
  <2>3. ASSUME NEW x
        PROVE  Stays(events, x) /\ (x = p => Shows(events, x)) /\ (x # p => Silent(events, x))
    BY <1>2, <1>3, <2>1, TwoShow DEF Shown, Gone
  <2>4. Tells(events, present, present')
    BY <1>1, <1>5, <2>2, <2>3
  <2> QED BY <1>1, <1>4, <2>2, <2>4 DEF WorldTells
<1>7. CASE Kind(p) = "partition"
  <2>1. On(p) \in present /\ On(p) # p /\ On(p) \in Paths
    BY <1>1, <1>7, MachineShape DEF OrAbsent
  <2>2. o \in Events /\ o.act = "change" /\ o.path = On(p) /\ o.flag = "none"
    BY <2>1, SnapshotShape
  <2> HIDE DEF o
  <2>3. events = <<a, o>>
    BY <1>7
  <2> HIDE DEF events
  <2>4. events \in Seq(Events) /\ MediaOK(events)
    BY <1>2, <2>2, <2>3 DEF MediaOK
  <2>5. ASSUME NEW x
        PROVE  /\ Stays(events, x) /\ (x = p => Shows(events, x))
               /\ x # p /\ x # On(p) => Silent(events, x)
    BY <1>2, <2>1, <2>2, <2>3, TwoShow DEF Shown, Gone
  <2>6. Tells(events, present, present')
    BY <1>1, <1>5, <2>1, <2>4, <2>5
  <2> QED BY <1>1, <1>4, <2>4, <2>6 DEF WorldTells
<1>8. CASE Kind(p) \notin {"dm", "partition"}
  <2>1. events = <<a>>
    BY <1>8
  <2> HIDE DEF events
  <2>2. events \in Seq(Events) /\ MediaOK(events)
    BY <1>2, <2>1 DEF MediaOK
  <2>3. ASSUME NEW x
        PROVE  Stays(events, x) /\ (x = p => Shows(events, x)) /\ (x # p => Silent(events, x))
    BY <1>2, <2>1, OneShows DEF Shown, Gone
  <2>4. Tells(events, present, present')
    BY <1>1, <1>5, <2>2, <2>3
  <2> QED BY <1>1, <1>4, <2>2, <2>4 DEF WorldTells
<1> QED BY <1>6, <1>7, <1>8

LEMMA UnplugTells ==
    ASSUME machine \in Setups, WorldType, WorldShape, OneMapping(present),
           NEW p \in Devices, Unplug(p)
    PROVE  WorldTells
<1> DEFINE r == Snapshot("remove", p)
           o == Snapshot("change", On(p))
           events == IF Kind(p) = "partition" THEN <<r, o>> ELSE <<r>>
<1>1. /\ p \in Paths /\ p \in present /\ present' = present \ {p} /\ Emit(events)
      /\ present \subseteq Paths /\ Absent \notin Paths /\ On(p) # p
  BY MachineShape DEF Unplug, Emit, WithParent, Snapshot, WorldType
<1>2. r \in Events /\ r.act = "remove" /\ r.path = p /\ r.flag = "none"
  BY <1>1, SnapshotShape
<1> HIDE DEF r
<1>3. OneMapping(present')
  BY <1>1 DEF OneMapping, Mapped
<1>4. ASSUME NEW s \in Seq(Events), Goes(s, p), \A x : x # p => Stays(s, x),
             \A x : x \notin present => Silent(s, x)
      PROVE  Tells(s, present, present')
  BY <1>1, <1>4 DEF Tells
<1>5. CASE Kind(p) = "partition"
  <2>1. On(p) \in present /\ On(p) # p /\ On(p) \in Paths
    BY <1>1, <1>5, MachineShape DEF OrAbsent, WorldShape
  <2>2. o \in Events /\ o.act = "change" /\ o.path = On(p) /\ o.flag = "none"
    BY <2>1, SnapshotShape
  <2> HIDE DEF o
  <2>3. events = <<r, o>>
    BY <1>5
  <2> HIDE DEF events
  <2>4. events \in Seq(Events) /\ MediaOK(events)
    BY <1>2, <2>2, <2>3 DEF MediaOK
  <2>5. ASSUME NEW x
        PROVE  /\ x = p => Goes(events, x)
               /\ x # p => Stays(events, x)
               /\ x # On(p) => Silent(events, x)
    BY <1>2, <2>1, <2>2, <2>3, TwoShow DEF Shown, Gone
  <2>6. Tells(events, present, present')
    BY <1>1, <1>4, <2>1, <2>4, <2>5
  <2> QED BY <1>1, <1>3, <2>4, <2>6 DEF WorldTells
<1>6. CASE Kind(p) # "partition"
  <2>1. events = <<r>>
    BY <1>6
  <2> HIDE DEF events
  <2>2. events \in Seq(Events) /\ MediaOK(events)
    BY <1>2, <2>1 DEF MediaOK
  <2>3. ASSUME NEW x
        PROVE  /\ x = p => Goes(events, x)
               /\ x # p => Stays(events, x)
               /\ Silent(events, x)
    BY <1>2, <2>1, OneShows DEF Shown, Gone
  <2>4. Tells(events, present, present')
    BY <1>1, <1>4, <2>2, <2>3
  <2> QED BY <1>1, <1>3, <2>2, <2>4 DEF WorldTells
<1> QED BY <1>5, <1>6

LEMMA OtherTells ==
    ASSUME machine \in Setups, WorldType, WorldShape, OneMapping(present),
           NEW p \in Devices,
           \/ Identified(p)
           \/ \E lab \in Labels : Relabel(p, lab) \/ MediaChange(p, lab)
           \/ \E u \in Uuids : Assemble(p, u)
           \/ \E u \in OrAbsent(Uuids) \cup {Bogus} : StopArray(p, u)
    PROVE  WorldTells
<1> DEFINE c == Snapshot("change", p)
<1>1. p \in Paths /\ present \subseteq Paths
  BY MachineShape DEF WorldType
<1>2. c \in Events /\ c.act = "change" /\ c.path = p /\ c.flag = "none"
  BY <1>1, SnapshotShape
<1> HIDE DEF c
<1>3. ASSUME p \in present, present' = present, NEW e \in Events, e.act = "change", e.path = p,
             e.flag # "disabled", e.flag = "media" => Kind(p) = "disk", Emit(<<e>>)
      PROVE  WorldTells
  <2> DEFINE s == <<e>>
  <2>1. s \in Seq(Events) /\ MediaOK(s)
    BY <1>3 DEF MediaOK
  <2>2. \A x : Stays(s, x) /\ (x # p => Silent(s, x))
    BY <1>3, OneShows DEF Shown, Gone
  <2>3. Emit(s)
    BY <1>3
  <2> HIDE DEF s
  <2>4. Tells(s, present, present')
    BY <1>1, <1>3, <2>2 DEF Tells
  <2> QED BY <1>3, <2>1, <2>3, <2>4 DEF WorldTells
<1>4. CASE Identified(p)
  BY <1>2, <1>3, <1>4 DEF Identified, c
<1>5. ASSUME NEW lab \in Labels, Relabel(p, lab)
      PROVE  WorldTells
  <2> DEFINE e == [c EXCEPT !.label = lab]
  <2>1. e \in Events /\ e.act = "change" /\ e.path = p /\ e.flag = "none"
    BY <1>2 DEF Events
  <2>2. p \in present /\ present' = present /\ Emit(<<e>>)
    BY <1>5 DEF Relabel, c
  <2> HIDE DEF e
  <2> QED BY <1>3, <2>1, <2>2
<1>6. ASSUME NEW lab \in Labels, MediaChange(p, lab)
      PROVE  WorldTells
  <2> DEFINE e == [c EXCEPT !.label = lab, !.flag = "media"]
  <2>1. e \in Events /\ e.act = "change" /\ e.path = p /\ e.flag = "media"
    BY <1>2 DEF Events
  <2>2. p \in present /\ present' = present /\ Emit(<<e>>) /\ Kind(p) = "disk"
    BY <1>6 DEF MediaChange, c
  <2> HIDE DEF e
  <2> QED BY <1>3, <2>1, <2>2
<1>7. ASSUME NEW u \in Uuids, Assemble(p, u)
      PROVE  WorldTells
  <2> DEFINE e == [c EXCEPT !.array = u]
  <2>1. e \in Events /\ e.act = "change" /\ e.path = p /\ e.flag = "none"
    BY <1>2 DEF Events, OrAbsent
  <2>2. p \in present /\ present' = present /\ Emit(<<e>>)
    BY <1>7 DEF Assemble, c
  <2> HIDE DEF e
  <2> QED BY <1>3, <2>1, <2>2
<1>8. ASSUME NEW u \in OrAbsent(Uuids) \cup {Bogus}, StopArray(p, u)
      PROVE  WorldTells
  <2> DEFINE e == [c EXCEPT !.array = u, !.flag = "bogus"]
  <2>1. e \in Events /\ e.act = "change" /\ e.path = p /\ e.flag = "bogus"
    BY <1>2 DEF Events
  <2>2. p \in present /\ present' = present /\ Emit(<<e>>)
    BY <1>8 DEF StopArray, c
  <2> HIDE DEF e
  <2> QED BY <1>3, <2>1, <2>2
<1> QED BY <1>4, <1>5, <1>6, <1>7, <1>8

LEMMA ChangesTell ==
    ASSUME machine \in Setups, WorldType, WorldShape, OneMapping(present), World
    PROVE  WorldTells
BY PlugTells, UnplugTells, OtherTells DEF World

-----------------------------------------------------------------------------
(* What is to come, as the queues move.                                    *)
LEMMA InOrder ==
    ASSUME NEW S, NEW a \in Seq(S), NEW b \in Seq(S), NEW c \in Seq(S)
    PROVE  (a \o b) \o c = a \o (b \o c) /\ a \o b \in Seq(S) /\ (a \o b) \o c \in Seq(S)
OBVIOUS

LEMMA NoneFirst ==
    ASSUME NEW S, NEW a \in Seq(S)
    PROVE  <<>> \o a = a /\ a \o <<>> = a
OBVIOUS

LEMMA AppendedLast ==
    ASSUME NEW S, NEW a \in Seq(S), NEW e \in S
    PROVE  Append(a, e) = a \o <<e>> /\ <<e>> \in Seq(S)
OBVIOUS

(* The monitor thread drops a uevent of another device.                    *)
LEMMA DroppedSays ==
    ASSUME NEW a \in Seq(Events), NEW e \in Events, NEW d \in Seq(Events),
           NEW x, e.path # x, NEW y, e.path # y
    PROVE  LET C == a \o (<<e>> \o d)
               D == a \o d
           IN /\ Stays(C, x) <=> Stays(D, x)
              /\ Silent(C, x) <=> Silent(D, x)
              /\ Shows(C, x) <=> Shows(D, x)
              /\ Goes(C, x) <=> Goes(D, x)
              /\ Linked(C, x, y) <=> Linked(D, x, y)
              /\ Outlived(C, x, y) <=> Outlived(D, x, y)
<1> DEFINE b == <<e>> \o d
<1>0. b \in Seq(Events)
  BY AppendedLast, InOrder
<1>1. ASSUME NEW z, e.path # z, NEW w, e.path # w
      PROVE  /\ Stays(b, z) <=> Stays(d, z)
             /\ Silent(b, z) <=> Silent(d, z)
             /\ Shows(b, z) <=> Shows(d, z)
             /\ Goes(b, z) <=> Goes(d, z)
             /\ Linked(b, z, w) <=> Linked(d, z, w)
             /\ Outlived(b, z, w) <=> Outlived(d, z, w)
  <2>1. ~Shown(e, z) /\ ~Gone(e, z)
    BY <1>1 DEF Shown, Gone
  <2>2. b = <<e>> \o d
    OBVIOUS
  <2> HIDE DEF b
  <2> QED BY <1>0, <2>1, <2>2, TailSaysMore
<1> HIDE DEF b
<1>2. /\ Stays(b, x) <=> Stays(d, x)
      /\ Silent(b, x) <=> Silent(d, x)
      /\ Shows(b, x) <=> Shows(d, x)
      /\ Goes(b, x) <=> Goes(d, x)
      /\ Linked(b, x, y) <=> Linked(d, x, y)
      /\ Outlived(b, x, y) <=> Outlived(d, x, y)
      /\ Stays(b, y) <=> Stays(d, y)
      /\ Silent(b, y) <=> Silent(d, y)
      /\ Shows(b, y) <=> Shows(d, y)
  BY <1>1
<1>3. /\ Stays(a \o b, x) <=> Stays(a \o d, x)
      /\ Silent(a \o b, x) <=> Silent(a \o d, x)
      /\ Shows(a \o b, x) <=> Shows(a \o d, x)
      /\ Goes(a \o b, x) <=> Goes(a \o d, x)
  BY <1>0, <1>2, ConcatShows
<1>4. /\ Linked(a \o b, x, y) <=> Linked(a \o d, x, y)
      /\ Outlived(a \o b, x, y) <=> Outlived(a \o d, x, y)
  BY <1>0, <1>2, ConcatLinks
<1> QED BY <1>3, <1>4 DEF b

(* What holds of p at each step: before coldplug, and from then on.        *)
StackedIn(C, B, S, c, p) ==
    /\ Outdated(C, B, S, p)
    /\ IF c = "new" THEN ToCome(C, S, p) ELSE Known(C, B, S, p)

Stacks == \A p \in Devices \ slipped :
              IsBlock(p) => StackedIn(Coming, tables.block, present, pc, p)

LInv == IInv /\ OneMapping(present) /\ BackingsOK(tables.block) /\ MediaOK(bus) /\ Stacks

LNext ==
    /\ machine' = machine
    /\ OneMapping(present') /\ BackingsOK(tables'.block) /\ MediaOK(bus')
    /\ \A p \in Devices \ slipped' : IsBlock(p) =>
          StackedIn((todo' \o posted') \o bus', tables'.block, present', pc', p)

LEMMA StacksNext ==
    ASSUME LNext
    PROVE  (OneMapping(present) /\ BackingsOK(tables.block) /\ MediaOK(bus) /\ Stacks)'
<1>1. /\ machine' = machine /\ Devices' = Devices
      /\ \A x : Kind(x)' = Kind(x) /\ On(x)' = On(x) /\ (IsBlock(x)' <=> IsBlock(x))
  BY DEF LNext, Kind, On, IsBlock, Devices
<1>2. OneMapping(present)'
  BY <1>1 DEF LNext, OneMapping, Mapped
<1>3. BackingsOK(tables.block)'
  BY <1>1 DEF LNext, BackingsOK, Mapping
<1>4. MediaOK(bus)'
  BY <1>1 DEF LNext, MediaOK
<1>5. \A x, y : Mapping(x, y)' <=> Mapping(x, y)
  BY <1>1 DEF Mapping
<1>6. ASSUME NEW p \in (Devices \ slipped)', IsBlock(p)'
      PROVE  StackedIn(Coming, tables.block, present, pc, p)'
  <2> DEFINE C == (todo' \o posted') \o bus'
             B == tables'.block
             S == present'
  <2>1. StackedIn(C, B, S, pc', p)
    BY <1>1, <1>6 DEF LNext
  <2>2. Coming' = C
    BY DEF Coming
  <2> HIDE DEF C
  <2>3. Outdated(Coming, tables.block, present, p)'
    BY <1>5, <2>1, <2>2 DEF StackedIn, Outdated
  <2>4. pc' = "new" => ToCome(Coming, present, p)'
    BY <1>5, <2>1, <2>2 DEF StackedIn, ToCome
  <2>5. pc' # "new" => Known(Coming, tables.block, present, p)'
    BY <1>5, <2>1, <2>2 DEF StackedIn, Known
  <2> QED BY <2>3, <2>4, <2>5 DEF StackedIn
<1> QED BY <1>2, <1>3, <1>4, <1>6 DEF Stacks

-----------------------------------------------------------------------------
(* The steps.  First those that leave alone what is to come of p and the   *)
(* mappings on it.                                                         *)
LEMMA Typed ==
    ASSUME IInv
    PROVE  /\ machine \in Setups /\ WorldType /\ WorldShape /\ tables \in Tables /\ TablesOf(tables)
           /\ bus \in Seq(Events) /\ posted \in Seq(Events) /\ todo \in Seq(Events)
           /\ Devices \subseteq Paths /\ present \subseteq Paths /\ present \subseteq Devices
           /\ Absent \notin Paths
           /\ \A p \in Paths, q \in present : Mapping(q, p) => p \in present
<1>1. /\ machine \in Setups /\ WorldType /\ WorldShape /\ tables \in Tables /\ TablesOf(tables)
      /\ bus \in Seq(Events) /\ posted \in Seq(Events) /\ todo \in Seq(Events)
  BY DEF IInv, TypeOK, WorldType, TablesOK, TablesOf
<1>2. /\ Devices \subseteq Paths /\ present \subseteq Paths /\ present \subseteq Devices
      /\ Absent \notin Paths
  BY <1>1, MachineShape DEF WorldType
<1>3. \A p \in Paths, q \in present : Mapping(q, p) => p \in present
  BY <1>1, <1>2 DEF WorldShape, Mapping, OrAbsent
<1> QED BY <1>1, <1>2, <1>3

LEMMA NothingChanges ==
    ASSUME LInv, UNCHANGED <<machine, present, bus, posted, todo, slipped>>,
           tables'.block = tables.block, pc = "new" <=> pc' = "new"
    PROVE  LNext
<1>1. \A p : StackedIn(Coming, tables.block, present, pc, p) =>
             StackedIn((todo' \o posted') \o bus', tables'.block, present', pc', p)
  BY DEF StackedIn, Coming
<1> QED BY <1>1 DEF LNext, LInv, Stacks

LEMMA UeventStacks ==
    ASSUME LInv, OnUevent
    PROVE  LNext
<1> DEFINE e == Head(bus)
           a == todo \o posted
           d == Tail(bus)
<1>1. /\ bus # <<>> /\ bus' = d
      /\ posted' = IF tables.block[e.path] = Absent /\ Spurious(e) THEN posted ELSE Append(posted, e)
      /\ slipped' = IF tables.block[e.path] = Absent /\ e.flag = "media"
                    THEN slipped \cup {e.path} ELSE slipped
      /\ UNCHANGED <<machine, present, pc, todo, tables>>
  BY DEF OnUevent, world, start, keeping
<1>2. /\ bus \in Seq(Events) /\ posted \in Seq(Events) /\ todo \in Seq(Events)
      /\ Devices \subseteq Paths /\ present \subseteq Paths
  BY Typed DEF LInv
<1>3. /\ bus = <<e>> \o d /\ e \in Events /\ d \in Seq(Events) /\ a \in Seq(Events)
      /\ Append(posted, e) = posted \o <<e>> /\ <<e>> \in Seq(Events)
  BY <1>1, <1>2, HeadFirst, InOrder, AppendedLast
<1>4. MediaOK(bus') /\ (e.flag = "media" => Kind(e.path) = "disk")
  <2>1. /\ \A i \in DOMAIN d : \E j \in DOMAIN bus : d[i] = bus[j]
        /\ \E j \in DOMAIN bus : e = bus[j]
    BY <1>1, <1>2, TailKeeps
  <2> QED BY <1>1, <2>1 DEF LInv, MediaOK
<1> HIDE DEF e, d, Events
<1>5. Coming = a \o (<<e>> \o d)
  BY <1>3 DEF Coming
<1>6. CASE posted' = Append(posted, e)
  <2>1. (todo' \o posted') \o bus' = Coming
    <3>1. todo \o (posted \o <<e>>) = a \o <<e>>
      BY <1>2, <1>3, InOrder
    <3>2. (a \o <<e>>) \o d = a \o (<<e>> \o d)
      BY <1>3, InOrder
    <3> QED BY <1>1, <1>3, <1>5, <1>6, <3>1, <3>2
  <2>2. slipped \subseteq slipped'
    BY <1>1
  <2> QED BY <1>1, <1>4, <2>1, <2>2 DEF LNext, LInv, Stacks
<1>7. CASE posted' # Append(posted, e)
  <2>1. /\ posted' = posted /\ slipped' = slipped \cup {e.path} /\ Kind(e.path) = "disk"
    BY <1>1, <1>4, <1>7 DEF Spurious
  <2>2. (todo' \o posted') \o bus' = a \o d
    BY <1>1, <2>1
  <2>3. ASSUME NEW p \in Devices \ slipped', IsBlock(p)
        PROVE  StackedIn(a \o d, tables.block, present, pc, p)
    <3>1. StackedIn(Coming, tables.block, present, pc, p)
      BY <2>1, <2>3 DEF LInv, Stacks
    <3>2. e.path # p /\ \A x : Mapping(x, p) => e.path # x
      BY <2>1, <2>3 DEF Mapping
    <3> DEFINE C == Coming
               D == a \o d
    <3>3. ASSUME NEW x, NEW y, e.path # x, e.path # y
          PROVE  /\ Stays(C, x) <=> Stays(D, x)
                 /\ Silent(C, x) <=> Silent(D, x)
                 /\ Shows(C, x) <=> Shows(D, x)
                 /\ Goes(C, x) <=> Goes(D, x)
                 /\ Linked(C, x, y) <=> Linked(D, x, y)
                 /\ Outlived(C, x, y) <=> Outlived(D, x, y)
      BY <1>3, <1>5, <3>3, DroppedSays
    <3> HIDE DEF D, C
    <3>4. StackedIn(C, tables.block, present, pc, p)
      BY <3>1 DEF C
    <3>5. Outdated(D, tables.block, present, p)
      BY <3>2, <3>3, <3>4 DEF StackedIn, Outdated
    <3>6. ToCome(C, present, p) => ToCome(D, present, p)
      BY <3>2, <3>3 DEF ToCome
    <3>7. Known(C, tables.block, present, p) => Known(D, tables.block, present, p)
      BY <3>2, <3>3 DEF Known
    <3> QED BY <3>4, <3>5, <3>6, <3>7 DEF StackedIn, D
  <2> QED BY <1>1, <1>4, <2>2, <2>3 DEF LNext, LInv
<1> QED BY <1>6, <1>7

(* The world changes.  What the monitor thread hears is known; before      *)
(* coldplug there is nothing to know; later, what it does not hear slips.  *)
LEMMA WorldStacks ==
    ASSUME LInv, World
    PROVE  LNext
<1>1. /\ machine \in Setups /\ WorldType /\ WorldShape
      /\ bus \in Seq(Events) /\ posted \in Seq(Events) /\ todo \in Seq(Events)
      /\ Devices \subseteq Paths /\ present \subseteq Paths /\ Absent \notin Paths
      /\ \A p \in Paths, q \in present : Mapping(q, p) => p \in present
  BY Typed DEF LInv
<1>2. WorldTells
  BY <1>1, ChangesTell DEF LInv
<1>3. PICK s \in Seq(Events) : Emit(s) /\ Tells(s, present, present') /\ MediaOK(s)
  BY <1>2 DEF WorldTells
<1>4. /\ machine' = machine /\ posted' = posted /\ todo' = todo /\ pc' = pc /\ tables' = tables
      /\ bus' = (IF listening THEN bus \o s ELSE bus)
      /\ slipped' = slipped \cup
           (IF listening \/ pc = "new" THEN {}
            ELSE UNION {{s[i].path, On(s[i].path)} \ {Absent} : i \in DOMAIN s})
  BY <1>3 DEF Emit, start
<1>5. OneMapping(present') /\ BackingsOK(tables'.block)
  BY <1>2, <1>4 DEF WorldTells, LInv
<1>6. /\ present' \subseteq Paths
      /\ \A p \in Paths, q \in present' : Mapping(q, p) => p \in present'
  <2>1. (/\ present \subseteq Paths
         /\ \A p \in Paths, q \in present : Mapping(q, p) => p \in present)'
    <3>1. IInv'
      BY WorldStep DEF LInv
    <3>2. (WorldType /\ WorldShape)'
      BY <3>1 DEF IInv, TypeOK, WorldType
    <3>3. Devices' = Devices /\ \A q : On(q)' = On(q)
      BY <1>4 DEF Devices, On
    <3> QED BY <1>1, <3>2, <3>3 DEF WorldType, WorldShape, Mapping, OrAbsent
  <2> QED BY <1>4, <2>1 DEF Mapping, Kind, On
<1>7. CASE listening
  <2>1. MediaOK(bus')
    <3>1. \A i \in DOMAIN bus' : \/ i \in DOMAIN bus /\ bus'[i] = bus[i]
                                 \/ \E j \in DOMAIN s : bus'[i] = s[j]
      <4> HIDE DEF Events
      <4>1. bus' = bus \o s
        BY <1>4, <1>7
      <4> QED BY <1>1, <1>3, <4>1, Concatenated
    <3> QED BY <1>3, <3>1 DEF MediaOK, LInv
  <2>2. (todo' \o posted') \o bus' = Coming \o s /\ Coming \in Seq(Events)
    <3> HIDE DEF Events
    <3>1. bus \in Seq(Events) /\ posted \in Seq(Events) /\ todo \in Seq(Events)
      BY <1>1
    <3>2. /\ todo \o posted \in Seq(Events) /\ (todo \o posted) \o bus \in Seq(Events)
          /\ (todo \o posted) \o bus = todo \o (posted \o bus)
      BY <3>1, InOrder
    <3>3. ((todo \o posted) \o bus) \o s = (todo \o posted) \o (bus \o s)
      <4> DEFINE t == todo \o posted
      <4>1. t \in Seq(Events)
        BY <3>2
      <4> HIDE DEF t
      <4>2. (t \o bus) \o s = t \o (bus \o s)
        BY <3>1, <4>1
      <4> QED BY <4>2 DEF t
    <3>4. bus' = bus \o s /\ todo' = todo /\ posted' = posted
      BY <1>4, <1>7
    <3> QED BY <3>2, <3>3, <3>4 DEF Coming
  <2>3. ASSUME NEW p \in Devices \ slipped', IsBlock(p)
        PROVE  StackedIn(Coming \o s, tables.block, present', pc, p)
    <3>1. StackedIn(Coming, tables.block, present, pc, p)
      BY <1>4, <2>3 DEF LInv, Stacks
    <3>2. p \in Paths /\ OneMapping(present)
      BY <1>1, <2>3 DEF LInv
    <3> HIDE DEF Events
    <3> QED BY <1>1, <1>3, <1>6, <2>2, <3>1, <3>2, KnownMore DEF StackedIn
  <2> QED BY <1>4, <1>5, <2>1, <2>2, <2>3 DEF LNext
<1>8. CASE ~listening /\ pc = "new"
  <2>1. /\ bus' = <<>> /\ posted' = <<>> /\ todo' = <<>> /\ tables' = NoTables /\ pc' = "new"
    BY <1>4, <1>8 DEF LInv, IInv, QueueShape, StartShape
  <2>2. (todo' \o posted') \o bus' = <<>>
    BY <2>1
  <2>3. \A p \in Paths : tables'.block[p] = Absent
    BY <2>1 DEF NoTables
  <2>4. \A p \in Paths : StackedIn(<<>>, tables'.block, present', "new", p)
    BY <2>3, EmptyShows DEF StackedIn, Outdated, ToCome
  <2>5. MediaOK(bus')
    BY <2>1 DEF MediaOK
  <2> QED BY <1>1, <1>4, <1>5, <2>1, <2>2, <2>4, <2>5 DEF LNext
<1>9. CASE ~listening /\ pc # "new"
  <2>1. bus' = bus /\ (todo' \o posted') \o bus' = Coming
    BY <1>4, <1>9 DEF Coming
  <2>2. ASSUME NEW p \in Devices \ slipped', IsBlock(p)
        PROVE  StackedIn(Coming, tables.block, present', pc, p)
    <3>1. StackedIn(Coming, tables.block, present, pc, p) /\ p \in Paths
      BY <1>1, <1>4, <2>2 DEF LInv, Stacks
    <3>2. \A i \in DOMAIN s : s[i].path # p /\ On(s[i].path) # p
      BY <1>1, <1>4, <1>9, <2>2, <3>1
    <3>3. ASSUME NEW x \in Paths, x = p \/ Mapping(x, p)
          PROVE  x \in present' <=> x \in present
      <4>1. \A i \in DOMAIN s : s[i].path # x
        BY <3>2, <3>3 DEF Mapping
      <4>2. ~Shows(s, x) /\ ~Goes(s, x)
        BY <4>1 DEF Shows, Goes, Shown, Gone
      <4> QED BY <1>3, <4>2 DEF Tells
    <3>4. Outdated(Coming, tables.block, present', p)
      BY <1>1, <1>6, <3>1, <3>3 DEF StackedIn, Outdated
    <3>5. Known(Coming, tables.block, present', p)
      BY <1>1, <1>6, <1>9, <3>1, <3>3 DEF StackedIn, Known
    <3> QED BY <1>9, <3>4, <3>5 DEF StackedIn
  <2> QED BY <1>4, <1>5, <2>1, <2>2 DEF LNext, LInv
<1> QED BY <1>7, <1>8, <1>9

(* The main thread handles a uevent, or brings a block object up to date.  *)
LEMMA HandledStacks ==
    ASSUME LInv, UNCHANGED <<machine, present, bus, pc>>, pc # "new",
           NEW e \in Events, Handle(e), e.act = "refresh" => e.flag # "disabled",
           NEW D \in Seq(Events), Coming = <<e>> \o D, (todo' \o posted') \o bus' = D
    PROVE  LNext
<1>1. /\ machine \in Setups /\ tables \in Tables /\ TablesOf(tables)
      /\ bus \in Seq(Events) /\ posted \in Seq(Events) /\ todo \in Seq(Events)
      /\ Devices \subseteq Paths /\ present \subseteq Paths
  BY Typed DEF LInv
<1> HIDE DEF Events
<1>2. LinksAfter(tables.block, tables'.block, e)
  BY <1>1, LinksHandled
<1>3. BackingsOK(tables'.block)
  BY <1>1, <1>2, BackingsKept DEF LInv
<1>4. slipped' = slipped \cup Overlooked(e)
  BY DEF Handle
<1>5. Coming \in Seq(Events)
  BY <1>1, InOrder DEF Coming
<1>6. ASSUME NEW p \in Devices \ slipped', IsBlock(p)
      PROVE  StackedIn(D, tables'.block, present, pc, p)
  <2>1. StackedIn(Coming, tables.block, present, pc, p) /\ p \in Paths /\ p \notin Overlooked(e)
    BY <1>1, <1>4, <1>6 DEF LInv, Stacks
  <2>2. Known(Coming, tables.block, present, p) /\ Outdated(Coming, tables.block, present, p)
    BY <2>1 DEF StackedIn
  <2>3. BackingsOK(tables.block)
    BY DEF LInv
  <2>4. Known(D, tables'.block, present, p)
    BY <1>1, <1>2, <1>5, <1>6, <2>1, <2>2, <2>3, KnownAfter
  <2>5. Outdated(D, tables'.block, present, p)
    BY <1>1, <1>2, <1>5, <1>6, <2>1, <2>2, <2>3, OutdatedAfter
  <2> QED BY <2>4, <2>5 DEF StackedIn
<1> QED BY <1>3, <1>6 DEF LNext, LInv

LEMMA ApplyStacks ==
    ASSUME LInv, Apply
    PROVE  LNext
<1> DEFINE e == Head(posted)
           d == Tail(posted)
<1>1. /\ pc = "running" /\ todo = <<>> /\ todo' = todo /\ posted # <<>> /\ posted' = d
      /\ Handle(e) /\ UNCHANGED <<machine, present, bus, pc>>
  BY DEF Apply, start, world
<1>2. bus \in Seq(Events) /\ posted \in Seq(Events)
  BY Typed DEF LInv
<1>3. posted = <<e>> \o d /\ e \in Events /\ d \in Seq(Events)
  BY <1>1, <1>2, HeadFirst
<1>4. e.act # "refresh"
  <2>1. \E j \in DOMAIN posted : e = posted[j]
    BY <1>1, <1>2, TailKeeps
  <2> QED BY <2>1 DEF LInv, IInv, QueueShape
<1> HIDE DEF e, d, Events
<1>5. <<e>> \in Seq(Events) /\ d \o bus \in Seq(Events)
  BY <1>2, <1>3, AppendedLast, InOrder
<1>6. Coming = <<e>> \o (d \o bus)
  <2>1. todo \o posted = <<e>> \o d
    BY <1>1, <1>2, <1>3, NoneFirst
  <2>2. (<<e>> \o d) \o bus = <<e>> \o (d \o bus)
    BY <1>2, <1>3, <1>5, InOrder
  <2> QED BY <2>1, <2>2 DEF Coming
<1>7. (todo' \o posted') \o bus' = d \o bus
  <2>1. todo' \o posted' = d
    BY <1>1, <1>3, NoneFirst
  <2> QED BY <1>1, <2>1
<1> QED BY <1>1, <1>3, <1>4, <1>5, <1>6, <1>7, HandledStacks

LEMMA TodoStacks ==
    ASSUME LInv, TodoStep
    PROVE  LNext
<1> DEFINE e == Head(todo)
           d == Tail(todo)
<1>1. /\ todo # <<>> /\ todo' = d /\ posted' = posted
      /\ Handle(e) /\ UNCHANGED <<machine, present, bus, pc>>
  BY DEF TodoStep, queues, world
<1>2. bus \in Seq(Events) /\ posted \in Seq(Events) /\ todo \in Seq(Events)
  BY Typed DEF LInv
<1>3. todo = <<e>> \o d /\ e \in Events /\ d \in Seq(Events)
  BY <1>1, <1>2, HeadFirst
<1>4. e.flag = "none" /\ pc # "new"
  <2>1. \E j \in DOMAIN todo : e = todo[j]
    BY <1>1, <1>2, TailKeeps
  <2> QED BY <1>1, <2>1 DEF LInv, IInv, QueueShape, StartShape
<1> HIDE DEF e, d, Events
<1> DEFINE D == (d \o posted) \o bus
<1>5. <<e>> \in Seq(Events) /\ d \o posted \in Seq(Events) /\ D \in Seq(Events)
  BY <1>2, <1>3, AppendedLast, InOrder
<1>6. Coming = <<e>> \o D
  <2>1. todo \o posted = <<e>> \o (d \o posted)
    BY <1>2, <1>3, <1>5, InOrder
  <2>2. (<<e>> \o (d \o posted)) \o bus = <<e>> \o D
    BY <1>2, <1>5, InOrder
  <2> QED BY <2>1, <2>2 DEF Coming
<1>7. (todo' \o posted') \o bus' = D
  BY <1>1
<1> HIDE DEF D
<1> QED BY <1>1, <1>3, <1>4, <1>5, <1>6, <1>7, HandledStacks

(* The main thread is given more to do.                                    *)
LEMMA BehindStacks ==
    ASSUME LInv, UNCHANGED <<machine, present, bus, posted, pc, slipped>>, pc # "new",
           tables'.block = tables.block, todo = <<>>, NEW t \in Seq(Events), todo' = t,
           \A x : Stays(t, x),
           \A q \in Paths \ present : Silent(t, q) \/ tables.block[q] # Absent
    PROVE  LNext
<1>1. /\ bus \in Seq(Events) /\ posted \in Seq(Events)
      /\ Devices \subseteq Paths /\ present \subseteq Paths
  BY Typed DEF LInv
<1> HIDE DEF Events
<1>2. Coming \in Seq(Events) /\ (todo' \o posted') \o bus' = t \o Coming
  <2>1. Coming = posted \o bus
    BY <1>1, NoneFirst DEF Coming
  <2>2. posted \o bus \in Seq(Events) /\ (t \o posted) \o bus = t \o (posted \o bus)
    BY <1>1, InOrder
  <2> QED BY <2>1, <2>2
<1>3. ASSUME NEW p \in Devices \ slipped', IsBlock(p)
      PROVE  StackedIn(t \o Coming, tables.block, present, pc, p)
  <2>1. p \in Paths /\ StackedIn(Coming, tables.block, present, pc, p)
    BY <1>1, <1>3 DEF LInv, Stacks
  <2>2. Known(Coming, tables.block, present, p) /\ Outdated(Coming, tables.block, present, p)
    BY <2>1 DEF StackedIn
  <2>3. Known(t \o Coming, tables.block, present, p)
        /\ Outdated(t \o Coming, tables.block, present, p)
    BY <1>1, <1>2, <2>1, <2>2, KnownBehind
  <2> QED BY <2>3 DEF StackedIn
<1> QED BY <1>2, <1>3 DEF LNext, LInv

LEMMA EnsureModulesStacks ==
    ASSUME LInv, EnsureModules
    PROVE  LNext
<1>1. /\ pc = "running" /\ todo = <<>> /\ todo' \in Enumerations
      /\ tables' = [tables EXCEPT !.loaded = TRUE]
      /\ UNCHANGED <<machine, present, bus, posted, pc, slipped>>
  BY DEF EnsureModules, world, queues
<1>2. machine \in Setups /\ WorldType /\ WorldShape /\ tables \in Tables
  BY Typed DEF LInv
<1>3. Enumerated(todo')
  BY <1>1, <1>2, EnumerationsShape
<1>4. /\ \A x : Stays(todo', x)
      /\ \A x : x \notin present => Silent(todo', x)
  BY <1>2, <1>3, EnumerationShows
<1>5. tables'.block = tables.block
  BY <1>1, <1>2 DEF Tables
<1>6. todo' \in Seq(Events)
  BY <1>3 DEF Enumerated
<1> QED BY <1>1, <1>4, <1>5, <1>6, BehindStacks

LEMMA UpdateStacks ==
    ASSUME LInv, UpdateBlockObjects
    PROVE  LNext
<1>1. /\ pc = "running" /\ todo = <<>>
      /\ UNCHANGED <<machine, present, bus, posted, pc, tables, slipped>>
  BY DEF UpdateBlockObjects, world, queues
<1>2. IInv'
  BY UpdateBlockObjectsStep DEF LInv
<1>3. /\ machine \in Setups /\ todo' \in Seq(Events)
      /\ \A i \in DOMAIN todo' : todo'[i].act = "refresh" /\ tables.block[todo'[i].path] # Absent
  <2> DEFINE S == {p \in Devices : tables.block[p] # Absent}
             refresh(p) == [Snapshot("refresh", p) EXCEPT !.label = tables.block[p].label]
  <2>1. PICK s \in Listings(S) : todo' = [i \in DOMAIN s |-> refresh(s[i])]
    BY DEF UpdateBlockObjects
  <2>2. machine \in Setups /\ todo' \in Seq(Events)
    BY <1>2, Typed DEF LInv, IInv, TypeOK
  <2>3. s \in Seq(S) /\ DOMAIN s = 1..Len(s)
    BY <2>2, ListingsShape
  <2>4. \A p : refresh(p).act = "refresh" /\ refresh(p).path = p
    BY DEF Snapshot
  <2>5. \A i \in DOMAIN s : tables.block[s[i]] # Absent
    BY <2>3
  <2> HIDE DEF refresh, S
  <2> QED BY <2>1, <2>2, <2>4, <2>5
<1>4. \A x : Stays(todo', x)
  BY <1>3 DEF Stays
<1>5. \A q \in Paths \ present : Silent(todo', q) \/ tables.block[q] # Absent
  BY <1>3 DEF Silent, Shown
<1> QED BY <1>1, <1>3, <1>4, <1>5, BehindStacks

(* Coldplug begins at start-up.                                            *)
LEMMA StartStacks ==
    ASSUME LInv, StartEnumerate
    PROVE  LNext
<1>1. PICK u \in Enumerations : todo' = u \o u
  BY DEF StartEnumerate
<1>2. /\ pc = "new" /\ pc' = "coldplug"
      /\ UNCHANGED <<machine, present, bus, posted, tables, slipped>>
  BY DEF StartEnumerate, world, queues
<1>3. /\ machine \in Setups /\ WorldType /\ WorldShape
      /\ bus \in Seq(Events) /\ posted \in Seq(Events)
      /\ Devices \subseteq Paths /\ present \subseteq Paths
      /\ \A p \in Paths, q \in present : Mapping(q, p) => p \in present
  BY Typed DEF LInv
<1>4. Enumerated(u)
  BY <1>3, EnumerationsShape
<1>5. /\ u \in Seq(Events) /\ \A x : Stays(u, x)
      /\ \A x \in present : Shows(u, x)
      /\ \A x : x \notin present => Silent(u, x)
  BY <1>3, <1>4, EnumerationShows DEF Enumerated
<1> HIDE DEF Events
<1>6. Coming \in Seq(Events) /\ (todo' \o posted') \o bus' = (u \o u) \o Coming
  <2>1. todo = <<>>
    BY <1>2 DEF LInv, IInv, StartShape
  <2>2. Coming = posted \o bus
    BY <1>3, <2>1, NoneFirst DEF Coming
  <2>3. u \o u \in Seq(Events)
    BY <1>5, InOrder
  <2>4. posted \o bus \in Seq(Events) /\ ((u \o u) \o posted) \o bus = (u \o u) \o (posted \o bus)
    BY <1>3, <2>3, InOrder
  <2> QED BY <1>1, <1>2, <2>2, <2>4
<1>7. ASSUME NEW p \in Devices \ slipped', IsBlock(p)
      PROVE  StackedIn((u \o u) \o Coming, tables.block, present, "coldplug", p)
  <2>1. p \in Paths /\ StackedIn(Coming, tables.block, present, pc, p)
    BY <1>2, <1>3, <1>7 DEF LInv, Stacks
  <2>2. ToCome(Coming, present, p) /\ Outdated(Coming, tables.block, present, p)
    BY <1>2, <2>1 DEF StackedIn
  <2>3. Known((u \o u) \o Coming, tables.block, present, p)
        /\ Outdated((u \o u) \o Coming, tables.block, present, p)
    BY <1>3, <1>5, <1>6, <2>1, <2>2, KnownFromStart
  <2> QED BY <2>3 DEF StackedIn
<1> QED BY <1>2, <1>6, <1>7 DEF LNext, LInv

-----------------------------------------------------------------------------
LEMMA InitStacks ==
    ASSUME Init
    PROVE  LInv
<1>1. IInv
  BY InitInvariant
<1>2. /\ bus = <<>> /\ posted = <<>> /\ todo = <<>> /\ pc = "new" /\ tables = NoTables
      /\ \A p \in present : \A q, r \in Mapped(p, present) : q = r
      /\ \A p \in present : On(p) \in OrAbsent(present)
  BY DEF Init
<1>3. /\ present \subseteq Paths /\ Devices \subseteq Paths /\ Absent \notin Paths
  BY <1>1, Typed
<1>4. OneMapping(present)
  <2>1. \A p \in Paths : Mapped(p, present) # {} => p \in present
    BY <1>2, <1>3 DEF Mapped, OrAbsent
  <2> QED BY <1>2, <2>1 DEF OneMapping
<1>5. \A p \in Paths : tables.block[p] = Absent
  BY <1>2 DEF NoTables
<1>6. BackingsOK(tables.block) /\ MediaOK(bus)
  BY <1>2, <1>5 DEF BackingsOK, MediaOK
<1>7. Coming = <<>>
  BY <1>2 DEF Coming
<1>8. \A p \in Paths : StackedIn(<<>>, tables.block, present, "new", p)
  BY <1>5, EmptyShows DEF StackedIn, Outdated, ToCome
<1>9. Stacks
  BY <1>2, <1>3, <1>7, <1>8 DEF Stacks
<1> QED BY <1>1, <1>4, <1>6, <1>9 DEF LInv

LEMMA StepStacks ==
    ASSUME LInv, [Next]_vars
    PROVE  LInv'
<1>0. SUFFICES LNext
  BY StepInvariant, StacksNext DEF LInv
<1>1. CASE World
  BY <1>1, WorldStacks
<1>2. CASE OnUevent
  BY <1>2, UeventStacks
<1>3. CASE Apply
  BY <1>3, ApplyStacks
<1>4. CASE TodoStep
  BY <1>4, TodoStacks
<1>5. CASE StartEnumerate
  BY <1>5, StartStacks
<1>6. CASE EnsureModules
  BY <1>6, EnsureModulesStacks
<1>7. CASE UpdateBlockObjects
  BY <1>7, UpdateStacks
<1>8. CASE \/ Listen \/ StartComplete \/ Timeout \/ HoldDrives \/ HousekeepingDone
           \/ \E v \in Vpds : Housekeep(v) \/ InitialHousekeeping(v)
           \/ UNCHANGED vars
  <2> DEFINE Kept == /\ UNCHANGED <<machine, present, bus, posted, todo, tables, slipped>>
                     /\ pc = "new" <=> pc' = "new"
  <2>1. ASSUME Listen PROVE Kept
    BY <2>1 DEF Listen, world, start, keeping
  <2>2. ASSUME StartComplete PROVE Kept
    BY <2>2 DEF StartComplete, world, queues
  <2>3. ASSUME Timeout PROVE Kept
    BY <2>3 DEF Timeout, world, queues, start
  <2>4. ASSUME HoldDrives PROVE Kept
    BY <2>4 DEF HoldDrives, world, queues, start
  <2>5. ASSUME HousekeepingDone PROVE Kept
    BY <2>5 DEF HousekeepingDone, world, queues, start
  <2>6. ASSUME NEW v \in Vpds, Housekeep(v) \/ InitialHousekeeping(v)
        PROVE  Kept
    BY <2>6 DEF Housekeep, InitialHousekeeping, world, queues, start
  <2>7. ASSUME UNCHANGED vars PROVE Kept
    BY <2>7 DEF vars, world, queues, start, keeping
  <2>8. Kept
    BY <1>8, <2>1, <2>2, <2>3, <2>4, <2>5, <2>6, <2>7
  <2> QED BY <2>8, NothingChanges
<1> QED BY <1>1, <1>2, <1>3, <1>4, <1>5, <1>6, <1>7, <1>8 DEF Next, Threads

LEMMA SettledStacks ==
    ASSUME LInv
    PROVE  CleartextFollows
<1> SUFFICES ASSUME Settled, NEW p \in Devices \ slipped, IsEncrypted(tables, p)
             PROVE  LET open == Mapped(p, present) IN
                    IF open = {} THEN tables.block[p].cleartext = Absent
                    ELSE tables.block[p].cleartext \in open
  BY DEF CleartextFollows
<1> DEFINE c == tables.block[p].cleartext
<1>1. /\ machine \in Setups /\ p \in Paths /\ present \subseteq Paths /\ Absent \notin Paths
      /\ tables.block[p] # Absent /\ tables.block[p].label = "crypto"
  BY Typed DEF LInv, IsEncrypted
<1>2. IsBlock(p)
  BY <1>1 DEF LInv, IInv, StartShape
<1>3. Coming = <<>> /\ pc # "new"
  BY DEF Settled, Coming
<1>4. Known(<<>>, tables.block, present, p) /\ Outdated(<<>>, tables.block, present, p)
  BY <1>2, <1>3 DEF LInv, Stacks, StackedIn
<1>5. c # Absent => c \in Mapped(p, present)
  <2> SUFFICES ASSUME c # Absent
               PROVE  c \in Mapped(p, present)
    OBVIOUS
  <2>1. c \in Paths /\ tables.block[c] # Absent /\ tables.block[c].backing = p
    BY <1>1, <1>4 DEF Outdated
  <2>2. Mapping(c, p)
    BY <1>1, <2>1 DEF LInv, BackingsOK
  <2>3. c \in present
    BY <1>4, <2>1, <2>2, EmptyShows DEF Outdated
  <2> QED BY <2>2, <2>3 DEF Mapping, Mapped
<1>6. ASSUME NEW q \in Mapped(p, present)
      PROVE  c # Absent
  <2>1. q \in present /\ Mapping(q, p)
    BY DEF Mapping, Mapped
  <2>2. Joined(tables.block, q, p)
    BY <1>4, <2>1, EmptyShows DEF Known
  <2> QED BY <1>1, <2>2 DEF Joined
<1> QED BY <1>5, <1>6

(* Once the uevents are applied, Encrypted.CleartextDevice of a device     *)
(* names the mapping on it, and nothing once that is closed, in whatever   *)
(* order their uevents, coldplug and refreshes came                        *)
(* (udisks_linux_block_object_uevent, block_pre_remove).                   *)
THEOREM CleartextsSettle == Spec => []CleartextFollows
<1>1. Init => LInv
  BY InitStacks
<1>2. LInv /\ [Next]_vars => LInv'
  BY StepStacks
<1>3. LInv => CleartextFollows
  BY SettledStacks
<1> QED BY <1>1, <1>2, <1>3, PTL DEF Spec

-----------------------------------------------------------------------------
(* Arrays.  What the tables say of them: the members, the device that runs *)
(* one, and whether its attributes are watched.                            *)
MemberOf(T, q, u) == T.mdraid[u] # Absent /\ q \in T.mdraid[u].members
RunBy(T, u)       == IF T.mdraid[u] = Absent THEN Absent ELSE T.mdraid[u].raid
Watched(T, u)     == T.mdraid[u] # Absent /\ T.mdraid[u].watched

(* Each has a device, and that which runs it leads to it, if no other can  *)
(* run it.                                                                 *)
LedTo(T, u, q) == q # Absent /\ Alone(q) => T.arrayPath[q] = u

InUse(T) ==
    \A u \in Uuids : T.mdraid[u] # Absent =>
        /\ HasDevices(T.mdraid[u])
        /\ LedTo(T, u, T.mdraid[u].raid)
        /\ T.mdraid[u].watched => T.mdraid[u].raid # Absent

ArraysFit(T) == PointersOK(T) /\ ArraysOK(T) /\ InUse(T)

(* What becomes of an object, if f[u] = a is all that changes.             *)
LEMMA OneArrayChanged ==
    ASSUME machine \in Setups, NEW T \in Tables, NEW u \in Uuids, NEW a \in ArrayObject,
           NEW V \in Tables, V.mdraid = [T.mdraid EXCEPT ![u] = a], PointersOK(V),
           NEW U, U = MaybeRemove(V, u), a.watched => a.raid # Absent
    PROVE  /\ U.memberPath = V.memberPath
           /\ \A q \in Paths : V.arrayPath[q] # u \/ HasDevices(a) => U.arrayPath[q] = V.arrayPath[q]
           /\ \A w \in Uuids : U.mdraid[w] = IF w # u THEN T.mdraid[w]
                                             ELSE IF HasDevices(a) THEN a ELSE Absent
           /\ \A w \in Uuids :
                /\ RunBy(U, w) = IF w = u THEN a.raid ELSE RunBy(T, w)
                /\ Watched(U, w) <=> IF w = u THEN a.watched ELSE Watched(T, w)
                /\ \A q : MemberOf(U, q, w) <=> IF w = u THEN q \in a.members ELSE MemberOf(T, q, w)
<1>1. /\ V.mdraid[u] = a /\ a # Absent
      /\ \A w \in Uuids : w # u => V.mdraid[w] = T.mdraid[w]
  BY TypesOfArrays
<1>2. /\ U \in Tables /\ U.memberPath = V.memberPath
      /\ \A w \in Uuids : w # u \/ HasDevices(a) => U.mdraid[w] = V.mdraid[w]
      /\ \A q \in Paths : V.arrayPath[q] # u \/ HasDevices(a) => U.arrayPath[q] = V.arrayPath[q]
  <2>1. V.mdraid[u] # Absent
    BY <1>1
  <2> DEFINE W == MaybeRemove(V, u)
  <2>2. /\ W \in Tables /\ W.memberPath = V.memberPath
        /\ \A w \in Uuids : /\ w # u => W.mdraid[w] = V.mdraid[w]
                            /\ HasDevices(V.mdraid[u]) => W.mdraid[w] = V.mdraid[w]
        /\ \A q \in Paths :
             /\ V.arrayPath[q] # u => W.arrayPath[q] = V.arrayPath[q]
             /\ HasDevices(V.mdraid[u]) => W.arrayPath[q] = V.arrayPath[q]
             /\ W.arrayPath[q] \in {V.arrayPath[q], Freed}
    BY <2>1, MaybeRemoved, Zenon
  <2>3. U = W
    OBVIOUS
  <2> HIDE DEF W
  <2> QED BY <1>1, <2>2, <2>3
<1>3. ~HasDevices(a) => U.mdraid[u] = Absent
  <2> SUFFICES ASSUME ~HasDevices(a)
               PROVE  U.mdraid[u] = Absent
    OBVIOUS
  <2> DEFINE Free(table) == [p \in Paths |-> IF table[p] = u THEN Freed ELSE table[p]]
  <2>1. U = [V EXCEPT !.mdraid[u] = Absent, !.arrayPath = Free(@), !.memberPath = Free(@)]
    BY <1>1 DEF MaybeRemove
  <2>2. U.mdraid = [V.mdraid EXCEPT ![u] = Absent]
    BY <2>1 DEF Tables
  <2> QED BY <2>2, TypesOfArrays
<1>4. \A w \in Uuids : U.mdraid[w] = IF w # u THEN T.mdraid[w]
                                     ELSE IF HasDevices(a) THEN a ELSE Absent
  BY <1>1, <1>2, <1>3
<1>5. ~HasDevices(a) => a.members = {} /\ a.raid = Absent /\ ~a.watched
  BY DEF HasDevices
<1>6. ASSUME NEW w \in Uuids
      PROVE  /\ RunBy(U, w) = IF w = u THEN a.raid ELSE RunBy(T, w)
             /\ Watched(U, w) <=> IF w = u THEN a.watched ELSE Watched(T, w)
             /\ \A q : MemberOf(U, q, w) <=> IF w = u THEN q \in a.members ELSE MemberOf(T, q, w)
  BY <1>1, <1>4, <1>5 DEF RunBy, Watched, MemberOf
<1> QED BY <1>2, <1>4, <1>6

LEMMA WatchesUpdated ==
    ASSUME NEW a \in ArrayObject, NEW e \in Events
    PROVE  /\ MemberUevent(a, e).watched = a.watched
           /\ Kind(e.path) # "partition" =>
                RaidUevent(a, e).watched = IF e.act # "remove" THEN e.path \in present
                                           ELSE IF a.raid = e.path THEN FALSE ELSE a.watched
<1>1. MemberUevent(a, e).watched = a.watched
  BY DEF MemberUevent, ArrayObject
<1>2. CASE e.act = "remove" /\ a.raid # e.path
  BY <1>1, <1>2 DEF RaidUevent
<1>3. CASE e.act = "remove" /\ a.raid = e.path /\ Kind(e.path) # "partition"
  <2>1. RaidUevent(a, e) = [a EXCEPT !.raid = Absent, !.watched = FALSE]
    BY <1>3 DEF RaidUevent
  <2> QED BY <1>1, <1>3, <2>1 DEF ArrayObject
<1>4. CASE e.act # "remove" /\ Kind(e.path) # "partition"
  <2> DEFINE w == e.path \in present
  <2>1. RaidUevent(a, e) = [a EXCEPT !.raid = e.path, !.watched = w]
    BY <1>4 DEF RaidUevent
  <2> HIDE DEF w
  <2>2. RaidUevent(a, e).watched = w
    BY <2>1 DEF ArrayObject
  <2> QED BY <1>1, <1>4, <2>2 DEF w
<1> QED BY <1>1, <1>2, <1>3, <1>4

(* A device leaves the array it is a member of.                            *)
LEMMA MemberLeaves ==
    ASSUME machine \in Setups, NEW T \in Tables, ArraysFit(T), NEW e \in Events,
           NEW U, U = LeaveAsMember(T, e)
    PROVE  /\ U \in Tables /\ ArraysFit(U)
           /\ \A q \in Paths :
                /\ Alone(q) => U.arrayPath[q] = T.arrayPath[q]
                /\ U.memberPath[q] = IF q = e.path THEN Absent ELSE T.memberPath[q]
           /\ \A w \in Uuids :
                /\ RunBy(U, w) = RunBy(T, w) /\ (Watched(U, w) <=> Watched(T, w))
                /\ \A q : MemberOf(U, q, w) <=> MemberOf(T, q, w) /\ ~(q = e.path /\ w = T.memberPath[q])
<1> DEFINE p == e.path
           u == T.memberPath[p]
           r == [e EXCEPT !.act = "remove"]
           b == T.mdraid[u]
           a == MemberUevent(b, r)
           f == [T.mdraid EXCEPT ![u] = a]
           g == T.arrayPath
           h == [T.memberPath EXCEPT ![p] = Absent]
           V == WithArrays(T, f, g, h)
<1>1. /\ T.mdraid \in [Uuids -> OrAbsent(ArrayObject)]
      /\ T.arrayPath \in [Paths -> Uuids \cup {Absent, Freed}]
      /\ T.memberPath \in [Paths -> Uuids \cup {Absent, Freed}]
      /\ Absent \notin Uuids /\ Absent \notin ArrayObject /\ Absent \notin Paths
      /\ p \in Paths /\ r \in Events /\ r.act = "remove" /\ r.path = p
  BY TypesOfArrays DEF Events
<1>2. PointersOK(T) /\ ArraysOK(T) /\ InUse(T)
  BY DEF ArraysFit
<1>3. U \in Tables /\ PointersOK(U) /\ ArraysOK(U)
  BY <1>2, LeftAsMember
<1>4. CASE u \notin Uuids
  <2>1. U = T
    BY <1>4 DEF LeaveAsMember
  <2>2. u = Absent
    BY <1>1, <1>2, <1>4 DEF PointersOK
  <2> QED BY <1>1, <2>1, <2>2
<1>5. CASE u \in Uuids
  <2>1. b \in ArrayObject
    BY <1>1, <1>2, <1>5 DEF PointersOK, OrAbsent
  <2>2. /\ a \in ArrayObject /\ a.members = b.members \ {p} /\ a.raid = b.raid
        /\ a.watched = b.watched
    <3> DEFINE c == MemberUevent(b, r)
    <3> HIDE DEF b, r
    <3>1. /\ c \in ArrayObject /\ c.members = b.members \ {r.path} /\ c.raid = b.raid
      BY <1>1, <2>1, ArraysUpdated
    <3>2. c.watched = b.watched
      BY <1>1, <2>1, WatchesUpdated
    <3> QED BY <1>1, <3>1, <3>2
  <2>3. U = MaybeRemove(V, u)
    <3>1. [T EXCEPT !.mdraid[u] = MemberUevent(@, r), !.memberPath[p] = Absent] = V
      BY DEF WithArrays, Tables
    <3> QED BY <1>5, <3>1 DEF LeaveAsMember
  <2>4. b # Absent /\ (a.watched => a.raid # Absent)
    BY <1>1, <1>2, <1>5, <2>1, <2>2 DEF InUse
  <2> HIDE DEF a, r
  <2>5. f \in [Uuids -> OrAbsent(ArrayObject)] /\ h \in [Paths -> Uuids \cup {Absent, Freed}]
    BY <1>1, <1>5, <2>2 DEF OrAbsent
  <2>6. /\ \A w \in Uuids : f[w] = IF w = u THEN a ELSE T.mdraid[w]
        /\ \A q \in Paths : h[q] = IF q = p THEN Absent ELSE T.memberPath[q]
    BY <1>1
  <2>7. V \in Tables /\ V.mdraid = f /\ V.arrayPath = g /\ V.memberPath = h
    BY <1>1, <2>5, ArraysReplaced
  <2>8. V.mdraid = [T.mdraid EXCEPT ![u] = a]
    BY <2>7
  <2> HIDE DEF V, f, h
  <2>9. PointersOK(V)
    <3>1. ASSUME NEW q \in Paths, V.arrayPath[q] \in Uuids
          PROVE  V.mdraid[V.arrayPath[q]] # Absent
      <4>1. V.arrayPath[q] = T.arrayPath[q]
        BY <2>7
      <4> HIDE DEF b, u, g
      <4>2. T.mdraid[V.arrayPath[q]] # Absent
        BY <1>2, <3>1, <4>1 DEF PointersOK
      <4> QED BY <1>1, <2>2, <2>6, <2>7, <3>1, <4>2
    <3>2. ASSUME NEW q \in Paths
          PROVE  /\ V.memberPath[q] # Freed
                 /\ V.memberPath[q] \in Uuids =>
                       /\ V.mdraid[V.memberPath[q]] # Absent
                       /\ q \in V.mdraid[V.memberPath[q]].members
      <4>1. CASE q = p
        BY <1>1, <2>6, <2>7, <4>1, TypesOfArrays
      <4>2. CASE q # p
        <5>1. V.memberPath[q] = T.memberPath[q]
          BY <2>6, <2>7, <4>2
        <5>2. /\ V.memberPath[q] # Freed
              /\ V.memberPath[q] \in Uuids =>
                    /\ T.mdraid[V.memberPath[q]] # Absent
                    /\ q \in T.mdraid[V.memberPath[q]].members
          BY <1>2, <5>1 DEF PointersOK
        <5>3. V.memberPath[q] = u => a # Absent /\ q \in a.members
          BY <1>1, <1>5, <2>2, <4>2, <5>2
        <5> HIDE DEF b, u, g
        <5> QED BY <2>6, <2>7, <5>2, <5>3
      <4> QED BY <4>1, <4>2
    <3> QED BY <3>1, <3>2 DEF PointersOK
  <2>10. /\ U.memberPath = V.memberPath
         /\ \A q \in Paths : V.arrayPath[q] # u \/ HasDevices(a) => U.arrayPath[q] = V.arrayPath[q]
         /\ \A w \in Uuids : U.mdraid[w] = IF w # u THEN T.mdraid[w]
                                           ELSE IF HasDevices(a) THEN a ELSE Absent
         /\ \A w \in Uuids :
              /\ RunBy(U, w) = IF w = u THEN a.raid ELSE RunBy(T, w)
              /\ Watched(U, w) <=> IF w = u THEN a.watched ELSE Watched(T, w)
              /\ \A q : MemberOf(U, q, w) <=> IF w = u THEN q \in a.members ELSE MemberOf(T, q, w)
    <3> HIDE DEF b, u, g
    <3> QED BY <1>5, <2>2, <2>3, <2>4, <2>7, <2>8, <2>9, OneArrayChanged
  <2>11. ASSUME NEW q \in Paths, Alone(q)
         PROVE  U.arrayPath[q] = T.arrayPath[q]
    <3>1. V.arrayPath[q] = u => HasDevices(a)
      <4> SUFFICES ASSUME T.arrayPath[q] = u
                   PROVE  HasDevices(a)
        BY <2>7
      <4>1. b.raid = q /\ q # Absent
        BY <1>1, <1>2, <1>5, <2>11 DEF ArraysOK
      <4> QED BY <2>2, <4>1 DEF HasDevices
    <3> QED BY <2>7, <2>10, <3>1
  <2>12. ASSUME NEW w \in Uuids
         PROVE  /\ RunBy(U, w) = RunBy(T, w) /\ (Watched(U, w) <=> Watched(T, w))
                /\ \A q : MemberOf(U, q, w) <=> MemberOf(T, q, w) /\ ~(q = p /\ w = T.memberPath[q])
    <3>1. CASE w = u
      <4>1. b = T.mdraid[w] /\ u = T.memberPath[p]
        BY <3>1
      <4> HIDE DEF b, u, g
      <4>2. /\ RunBy(U, w) = a.raid /\ (Watched(U, w) <=> a.watched)
            /\ \A q : MemberOf(U, q, w) <=> q \in a.members
        BY <2>10, <3>1
      <4>3. /\ RunBy(T, w) = b.raid /\ (Watched(T, w) <=> b.watched)
            /\ \A q : MemberOf(T, q, w) <=> q \in b.members
        BY <2>4, <4>1 DEF RunBy, Watched, MemberOf
      <4>4. \A q : q \in b.members \ {p} <=> q \in b.members /\ ~(q = p /\ w = T.memberPath[q])
        BY <3>1, <4>1
      <4> QED BY <2>2, <4>2, <4>3, <4>4
    <3>2. CASE w # u
      <4>1. u = T.memberPath[p]
        OBVIOUS
      <4> HIDE DEF b, u, g
      <4> QED BY <2>10, <3>2, <4>1
    <3> QED BY <3>1, <3>2
  <2>13. InUse(U)
    <3> SUFFICES ASSUME NEW w \in Uuids, U.mdraid[w] # Absent
                 PROVE  /\ HasDevices(U.mdraid[w])
                        /\ LedTo(U, w, U.mdraid[w].raid)
                        /\ U.mdraid[w].watched => U.mdraid[w].raid # Absent
      BY DEF InUse
    <3>1. U.mdraid[w].raid # Absent => U.mdraid[w].raid \in Paths
      BY <1>3, TypesOfArrays DEF OrAbsent, ArrayObject
    <3>2. CASE w = u
      <4>1. b = T.mdraid[w]
        BY <3>2
      <4> HIDE DEF b, u, g
      <4>2. HasDevices(a) /\ U.mdraid[w] = a
        BY <2>10, <3>2
      <4>3. LedTo(T, w, b.raid)
        BY <1>2, <2>4, <4>1 DEF InUse
      <4> QED BY <2>2, <2>4, <2>11, <3>1, <4>2, <4>3 DEF LedTo
    <3>3. CASE w # u
      <4> HIDE DEF b, u, g
      <4>1. U.mdraid[w] = T.mdraid[w]
        BY <2>10, <3>3
      <4> QED BY <1>2, <2>11, <3>1, <4>1 DEF InUse, LedTo
    <3> QED BY <3>2, <3>3
  <2>14. \A q \in Paths : U.memberPath[q] = IF q = p THEN Absent ELSE T.memberPath[q]
    BY <2>6, <2>7, <2>10
  <2> QED BY <1>3, <2>11, <2>12, <2>13, <2>14 DEF ArraysFit
<1> QED BY <1>4, <1>5

(* An array is no longer run by its device.                                *)
LEMMA ArrayLeaves ==
    ASSUME machine \in Setups, NEW T \in Tables, ArraysFit(T), NEW e \in Events,
           NEW U, U = LeaveAsArray(T, e)
    PROVE  /\ U \in Tables /\ ArraysFit(U)
           /\ \A q \in Paths :
                /\ U.memberPath[q] = T.memberPath[q]
                /\ Alone(q) => U.arrayPath[q] = IF q = e.path THEN Absent ELSE T.arrayPath[q]
           /\ \A w \in Uuids :
                /\ \/ RunBy(U, w) = RunBy(T, w) /\ (Watched(U, w) <=> Watched(T, w))
                   \/ RunBy(T, w) = e.path /\ RunBy(U, w) = Absent
                /\ \A q : MemberOf(U, q, w) <=> MemberOf(T, q, w)
<1> DEFINE p == e.path
           u == T.arrayPath[p]
           r == [e EXCEPT !.act = "remove"]
           b == T.mdraid[u]
           a == RaidUevent(b, r)
           f == [T.mdraid EXCEPT ![u] = a]
           g == [T.arrayPath EXCEPT ![p] = Absent]
           h == T.memberPath
           V == WithArrays(T, f, g, h)
<1>1. /\ T.mdraid \in [Uuids -> OrAbsent(ArrayObject)]
      /\ T.arrayPath \in [Paths -> Uuids \cup {Absent, Freed}]
      /\ T.memberPath \in [Paths -> Uuids \cup {Absent, Freed}]
      /\ Absent \notin Uuids /\ Absent \notin ArrayObject /\ Absent \notin Paths
      /\ p \in Paths /\ r \in Events /\ r.act = "remove" /\ r.path = p
  BY TypesOfArrays DEF Events
<1>2. PointersOK(T) /\ ArraysOK(T) /\ InUse(T)
  BY DEF ArraysFit
<1>3. U \in Tables /\ PointersOK(U) /\ ArraysOK(U)
  BY <1>2, LeftAsArray
<1>4. CASE u \notin Uuids
  <2>1. U = T
    BY <1>4 DEF LeaveAsArray
  <2>2. Alone(p) => u = Absent
    BY <1>1, <1>2, <1>4 DEF ArraysOK
  <2> QED BY <1>1, <1>2, <2>1, <2>2 DEF ArraysFit
<1>5. CASE u \in Uuids
  <2>1. b \in ArrayObject /\ b # Absent /\ Kind(p) = "md"
    BY <1>1, <1>2, <1>5 DEF ArraysOK, PointersOK, OrAbsent
  <2>2. /\ a \in ArrayObject /\ a.members = b.members
        /\ a.raid = IF b.raid = p THEN Absent ELSE b.raid
        /\ a.watched = IF b.raid = p THEN FALSE ELSE b.watched
    <3> DEFINE c == RaidUevent(b, r)
    <3> HIDE DEF b, r
    <3>1. /\ c \in ArrayObject /\ c.members = b.members
          /\ c.raid = IF b.raid = r.path THEN Absent ELSE b.raid
      BY <1>1, <2>1, ArraysUpdated
    <3>2. c.watched = IF b.raid = r.path THEN FALSE ELSE b.watched
      BY <1>1, <2>1, WatchesUpdated
    <3> QED BY <1>1, <2>1, <3>1, <3>2
  <2>3. U = MaybeRemove(V, u)
    <3>1. [T EXCEPT !.mdraid[u] = RaidUevent(@, r), !.arrayPath[p] = Absent] = V
      BY DEF WithArrays, Tables
    <3> QED BY <1>5, <3>1 DEF LeaveAsArray
  <2>4. HasDevices(b) /\ LedTo(T, u, b.raid)
    BY <1>2, <1>5, <2>1 DEF InUse
  <2>a. a \in ArrayObject /\ (a.watched => a.raid # Absent)
    BY <1>2, <1>5, <2>1, <2>2 DEF InUse
  <2> HIDE DEF a, r
  <2>5. f \in [Uuids -> OrAbsent(ArrayObject)] /\ g \in [Paths -> Uuids \cup {Absent, Freed}]
    BY <1>1, <1>5, <2>2 DEF OrAbsent
  <2>6. /\ \A w \in Uuids : f[w] = IF w = u THEN a ELSE T.mdraid[w]
        /\ \A q \in Paths : g[q] = IF q = p THEN Absent ELSE T.arrayPath[q]
    BY <1>1
  <2>7. V \in Tables /\ V.mdraid = f /\ V.arrayPath = g /\ V.memberPath = h
    <3>1. h \in [Paths -> Uuids \cup {Absent, Freed}]
      BY <1>1
    <3> HIDE DEF f, g, h
    <3> QED BY <2>5, <3>1, ArraysReplaced
  <2>8. V.mdraid = [T.mdraid EXCEPT ![u] = a]
    BY <2>7
  <2> HIDE DEF V, f, g
  <2>9. PointersOK(V)
    <3>1. ASSUME NEW q \in Paths, V.arrayPath[q] \in Uuids
          PROVE  V.mdraid[V.arrayPath[q]] # Absent
      BY <1>1, <1>2, <2>2, <2>6, <2>7, <3>1 DEF PointersOK
    <3>2. ASSUME NEW q \in Paths
          PROVE  /\ V.memberPath[q] # Freed
                 /\ V.memberPath[q] \in Uuids =>
                       /\ V.mdraid[V.memberPath[q]] # Absent
                       /\ q \in V.mdraid[V.memberPath[q]].members
      BY <1>1, <1>2, <2>2, <2>6, <2>7 DEF PointersOK
    <3> QED BY <3>1, <3>2 DEF PointersOK
  <2>10. /\ U.memberPath = V.memberPath
         /\ \A q \in Paths : V.arrayPath[q] # u \/ HasDevices(a) => U.arrayPath[q] = V.arrayPath[q]
         /\ \A w \in Uuids : U.mdraid[w] = IF w # u THEN T.mdraid[w]
                                           ELSE IF HasDevices(a) THEN a ELSE Absent
         /\ \A w \in Uuids :
              /\ RunBy(U, w) = IF w = u THEN a.raid ELSE RunBy(T, w)
              /\ Watched(U, w) <=> IF w = u THEN a.watched ELSE Watched(T, w)
              /\ \A q : MemberOf(U, q, w) <=> IF w = u THEN q \in a.members ELSE MemberOf(T, q, w)
    <3> HIDE DEF b, u, h
    <3> QED BY <1>5, <2>a, <2>3, <2>7, <2>8, <2>9, OneArrayChanged
  <2>11. ASSUME NEW q \in Paths, Alone(q)
         PROVE  U.arrayPath[q] = IF q = p THEN Absent ELSE T.arrayPath[q]
    <3>1. CASE q = p
      BY <1>1, <1>5, <2>6, <2>7, <2>10, <3>1
    <3>2. CASE q # p
      <4>1. V.arrayPath[q] = T.arrayPath[q]
        BY <2>6, <2>7, <3>2
      <4>2. T.arrayPath[q] = u => b.raid = q
        BY <1>1, <1>2, <1>5, <2>11 DEF ArraysOK
      <4>3. T.arrayPath[q] = u => HasDevices(a)
        BY <1>1, <2>2, <3>2, <4>2 DEF HasDevices
      <4> QED BY <2>10, <3>2, <4>1, <4>3
    <3> QED BY <3>1, <3>2
  <2>12. ASSUME NEW w \in Uuids
         PROVE  /\ \/ RunBy(U, w) = RunBy(T, w) /\ (Watched(U, w) <=> Watched(T, w))
                   \/ RunBy(T, w) = p /\ RunBy(U, w) = Absent
                /\ \A q : MemberOf(U, q, w) <=> MemberOf(T, q, w)
    <3>1. CASE w = u
      <4>1. RunBy(U, w) = a.raid /\ (Watched(U, w) <=> a.watched)
        BY <2>10, <3>1
      <4>2. RunBy(T, w) = b.raid /\ (Watched(T, w) <=> b.watched)
        BY <2>1, <3>1 DEF RunBy, Watched
      <4>3. \A q : MemberOf(U, q, w) <=> MemberOf(T, q, w)
        BY <2>1, <2>2, <2>10, <3>1 DEF MemberOf
      <4> QED BY <2>2, <4>1, <4>2, <4>3
    <3>2. CASE w # u
      BY <2>10, <3>2
    <3> QED BY <3>1, <3>2
  <2>13. InUse(U)
    <3> SUFFICES ASSUME NEW w \in Uuids, U.mdraid[w] # Absent
                 PROVE  /\ HasDevices(U.mdraid[w])
                        /\ LedTo(U, w, U.mdraid[w].raid)
                        /\ U.mdraid[w].watched => U.mdraid[w].raid # Absent
      BY DEF InUse
    <3>1. U.mdraid[w].raid # Absent => U.mdraid[w].raid \in Paths
      BY <1>3, TypesOfArrays DEF OrAbsent, ArrayObject
    <3>2. CASE w = u
      <4>1. U.mdraid[w] = a /\ HasDevices(a)
        BY <2>10, <3>2
      <4>2. a.raid # Absent => a.raid = b.raid /\ b.raid # p
        BY <2>2
      <4>3. LedTo(U, w, a.raid)
        BY <2>4, <2>11, <3>1, <3>2, <4>1, <4>2 DEF LedTo
      <4>4. a.watched => a.raid # Absent
        BY <2>a
      <4> QED BY <4>1, <4>3, <4>4
    <3>3. CASE w # u
      <4>1. U.mdraid[w] = T.mdraid[w] /\ LedTo(T, w, T.mdraid[w].raid)
        BY <1>2, <2>10, <3>3 DEF InUse
      <4>2. Alone(p) => U.mdraid[w].raid # p
        BY <1>1, <3>3, <4>1 DEF LedTo
      <4> QED BY <1>2, <2>11, <3>1, <4>1, <4>2 DEF InUse, LedTo
    <3> QED BY <3>2, <3>3
  <2>14. \A q \in Paths : U.memberPath[q] = T.memberPath[q]
    BY <2>7, <2>10
  <2> QED BY <1>3, <2>11, <2>12, <2>13, <2>14 DEF ArraysFit
<1> QED BY <1>4, <1>5

(* The object of u is a, and nothing else has changed.                     *)
IsSet(T, U, u, a) ==
    \A w \in Uuids :
        /\ U.mdraid[w] = IF w # u THEN T.mdraid[w] ELSE a
        /\ RunBy(U, w) = IF w = u THEN a.raid ELSE RunBy(T, w)
        /\ Watched(U, w) <=> IF w = u THEN a.watched ELSE Watched(T, w)
        /\ \A q : MemberOf(U, q, w) <=> IF w = u THEN q \in a.members ELSE MemberOf(T, q, w)

LEMMA OneArraySet ==
    ASSUME machine \in Setups, NEW T \in Tables, NEW u \in Uuids, NEW a \in ArrayObject,
           NEW U \in Tables, U.mdraid = [T.mdraid EXCEPT ![u] = a]
    PROVE  IsSet(T, U, u, a)
<1>1. U.mdraid[u] = a /\ a # Absent /\ \A w \in Uuids : w # u => U.mdraid[w] = T.mdraid[w]
  BY TypesOfArrays
<1> QED BY <1>1 DEF IsSet, RunBy, Watched, MemberOf

(* A device becomes a member of an array.                                  *)
Joins(T, e, u) == Enter(T, e, u, TRUE)

LEMMA MemberEnters ==
    ASSUME machine \in Setups, NEW T \in Tables, ArraysFit(T), NEW e \in Events,
           e.act # "remove", NEW u \in Uuids, NEW U, U = Joins(T, e, u)
    PROVE  /\ U \in Tables /\ ArraysFit(U)
           /\ \A q \in Paths :
                /\ U.arrayPath[q] = T.arrayPath[q]
                /\ q # e.path => U.memberPath[q] = T.memberPath[q]
           /\ T.memberPath[e.path] \in {Absent, u} => U.memberPath[e.path] = u
           /\ \A w \in Uuids :
                /\ RunBy(U, w) = RunBy(T, w) /\ (Watched(U, w) <=> Watched(T, w))
                /\ \A q : MemberOf(U, q, w) <=> MemberOf(T, q, w) \/ (q = e.path /\ w = u)
<1> DEFINE p == e.path
           old == IF T.mdraid[u] = Absent THEN NewArray ELSE T.mdraid[u]
           entry(x) == IF T.mdraid[u] = Absent \/ x = Absent THEN u ELSE x
           a == MemberUevent(old, e)
           x == entry(T.memberPath[p])
           f == [T.mdraid EXCEPT ![u] = a]
           g == T.arrayPath
           h == [T.memberPath EXCEPT ![p] = x]
           V == WithArrays(T, f, g, h)
<1>1. /\ T.mdraid \in [Uuids -> OrAbsent(ArrayObject)]
      /\ T.arrayPath \in [Paths -> Uuids \cup {Absent, Freed}]
      /\ T.memberPath \in [Paths -> Uuids \cup {Absent, Freed}]
      /\ Absent \notin Uuids /\ Absent \notin ArrayObject /\ Absent \notin Paths
      /\ Freed \notin Uuids /\ Freed # Absent /\ p \in Paths
  BY TypesOfArrays DEF Events
<1>2. PointersOK(T) /\ ArraysOK(T) /\ InUse(T)
  BY DEF ArraysFit
<1>4. /\ old \in ArrayObject /\ (T.mdraid[u] # Absent => old = T.mdraid[u])
      /\ T.mdraid[u] = Absent => old.members = {} /\ old.raid = Absent /\ ~old.watched
  <2>1. NewArray \in ArrayObject /\ NewArray.members = {} /\ NewArray.raid = Absent /\ ~NewArray.watched
    BY DEF NewArray, ArrayObject, OrAbsent
  <2> QED BY <1>1, <2>1 DEF OrAbsent
<1>3. U = V
  BY DEF Joins, Enter, WithArrays, Tables
<1>5. V \in Tables /\ PointersOK(V) /\ ArraysOK(V)
  <2> DEFINE b == TRUE
  <2>1. V = Enter(T, e, u, b) /\ b \in BOOLEAN /\ (b <=> TRUE)
    BY <1>3 DEF Joins
  <2> HIDE DEF p, V, b
  <2> QED BY <1>2, <2>1, Entered
<1> HIDE DEF old
<1>6. /\ a \in ArrayObject /\ a.members = old.members \cup {p} /\ a.raid = old.raid
      /\ a.watched = old.watched
  BY <1>4, ArraysUpdated, WatchesUpdated
<1>7. x \in Uuids \cup {Freed} /\ (T.memberPath[p] \in {Absent, u} => x = u)
  BY <1>1
<1> HIDE DEF a, x
<1>8. f \in [Uuids -> OrAbsent(ArrayObject)] /\ h \in [Paths -> Uuids \cup {Absent, Freed}]
  BY <1>1, <1>6, <1>7 DEF OrAbsent
<1>9. \A q \in Paths : h[q] = IF q = p THEN x ELSE T.memberPath[q]
  BY <1>1
<1>10. V.mdraid = f /\ V.arrayPath = g /\ V.memberPath = h
  <2>1. g \in [Paths -> Uuids \cup {Absent, Freed}]
    BY <1>1
  <2> HIDE DEF f, g, h
  <2> QED BY <1>8, <2>1, ArraysReplaced
<1> HIDE DEF V
<1>11. V.mdraid = [T.mdraid EXCEPT ![u] = a]
  BY <1>10
<1>12. HasDevices(a) /\ (a.watched => a.raid # Absent)
  <2>1. a.members # {}
    BY <1>6
  <2>2. old.watched => old.raid # Absent
    BY <1>2, <1>4 DEF InUse
  <2> QED BY <1>6, <2>1, <2>2 DEF HasDevices
<1> HIDE DEF f, g, h
<1>14. \A w \in Uuids :
         /\ V.mdraid[w] = IF w # u THEN T.mdraid[w] ELSE a
         /\ RunBy(V, w) = IF w = u THEN a.raid ELSE RunBy(T, w)
         /\ Watched(V, w) <=> IF w = u THEN a.watched ELSE Watched(T, w)
         /\ \A q : MemberOf(V, q, w) <=> IF w = u THEN q \in a.members ELSE MemberOf(T, q, w)
  <2> HIDE DEF p
  <2>1. V \in Tables /\ a \in ArrayObject
    BY <1>5, <1>6
  <2>2. IsSet(T, V, u, a)
    BY <1>11, <2>1, OneArraySet
  <2> QED BY <2>2 DEF IsSet
<1>15. ASSUME NEW w \in Uuids
       PROVE  /\ RunBy(V, w) = RunBy(T, w) /\ (Watched(V, w) <=> Watched(T, w))
              /\ \A q : MemberOf(V, q, w) <=> MemberOf(T, q, w) \/ (q = p /\ w = u)
  <2>1. CASE w = u /\ T.mdraid[u] = Absent
    BY <1>4, <1>6, <1>14, <2>1 DEF RunBy, Watched, MemberOf
  <2>2. CASE w = u /\ T.mdraid[u] # Absent
    BY <1>4, <1>6, <1>14, <2>2 DEF RunBy, Watched, MemberOf
  <2>3. CASE w # u
    BY <1>14, <2>3
  <2> QED BY <2>1, <2>2, <2>3
<1>16. InUse(V)
  <2> SUFFICES ASSUME NEW w \in Uuids, V.mdraid[w] # Absent
               PROVE  /\ HasDevices(V.mdraid[w])
                      /\ LedTo(V, w, V.mdraid[w].raid)
                      /\ V.mdraid[w].watched => V.mdraid[w].raid # Absent
    BY DEF InUse
  <2>1. CASE w = u /\ T.mdraid[u] = Absent
    BY <1>4, <1>6, <1>12, <1>14, <2>1 DEF LedTo
  <2>2. CASE w = u /\ T.mdraid[u] # Absent
    <3>1. V.mdraid[u] = a /\ a.raid = T.mdraid[u].raid /\ V.arrayPath = T.arrayPath
      BY <1>4, <1>6, <1>10, <1>14, <2>2 DEF g
    <3>2. LedTo(T, u, T.mdraid[u].raid)
      BY <1>2, <2>2 DEF InUse
    <3> QED BY <1>12, <2>2, <3>1, <3>2 DEF LedTo
  <2>3. CASE w # u
    BY <1>2, <1>10, <1>14, <2>3 DEF InUse, LedTo, g
  <2> QED BY <2>1, <2>2, <2>3
<1>17. /\ \A q \in Paths : V.arrayPath[q] = T.arrayPath[q] /\ (q # p => V.memberPath[q] = T.memberPath[q])
       /\ T.memberPath[p] \in {Absent, u} => V.memberPath[p] = u
  BY <1>1, <1>7, <1>9, <1>10 DEF g
<1> QED BY <1>3, <1>5, <1>15, <1>16, <1>17 DEF ArraysFit

(* An array is run by its device.                                          *)
LEMMA ArrayEnters ==
    ASSUME machine \in Setups, NEW T \in Tables, ArraysFit(T), NEW e \in Events,
           e.act # "remove", NEW u \in machine.arrays[e.path], u \in Uuids, Kind(e.path) = "md",
           T.arrayPath[e.path] \in {Absent, u},
           NEW is_member \in BOOLEAN, ~is_member, NEW U, U = Enter(T, e, u, is_member)
    PROVE  /\ U \in Tables /\ ArraysFit(U)
           /\ \A q \in Paths :
                /\ U.memberPath[q] = T.memberPath[q]
                /\ U.arrayPath[q] = IF q = e.path THEN u ELSE T.arrayPath[q]
           /\ \A w \in Uuids :
                /\ w = u => RunBy(U, w) = e.path /\ (Watched(U, w) <=> e.path \in present)
                /\ w # u => RunBy(U, w) = RunBy(T, w) /\ (Watched(U, w) <=> Watched(T, w))
                /\ \A q : MemberOf(U, q, w) <=> MemberOf(T, q, w)
<1> DEFINE p == e.path
           old == IF T.mdraid[u] = Absent THEN NewArray ELSE T.mdraid[u]
           entry(x) == IF T.mdraid[u] = Absent \/ x = Absent THEN u ELSE x
           a == RaidUevent(old, e)
           x == entry(T.arrayPath[p])
           f == [T.mdraid EXCEPT ![u] = a]
           g == [T.arrayPath EXCEPT ![p] = x]
           h == T.memberPath
           V == WithArrays(T, f, g, h)
<1>1. /\ T.mdraid \in [Uuids -> OrAbsent(ArrayObject)]
      /\ T.arrayPath \in [Paths -> Uuids \cup {Absent, Freed}]
      /\ T.memberPath \in [Paths -> Uuids \cup {Absent, Freed}]
      /\ Absent \notin Uuids /\ Absent \notin ArrayObject /\ Absent \notin Paths
      /\ Freed \notin Uuids /\ Freed # Absent /\ p \in Paths
  BY TypesOfArrays DEF Events
<1>2. PointersOK(T) /\ ArraysOK(T) /\ InUse(T)
  BY DEF ArraysFit
<1>4. /\ old \in ArrayObject /\ (T.mdraid[u] # Absent => old = T.mdraid[u])
      /\ T.mdraid[u] = Absent => old.members = {} /\ old.raid = Absent
  <2>1. NewArray \in ArrayObject /\ NewArray.members = {} /\ NewArray.raid = Absent
    BY DEF NewArray, ArrayObject, OrAbsent
  <2> QED BY <1>1, <2>1 DEF OrAbsent
<1>3. U = V
  BY DEF Enter, WithArrays, Tables
<1>5. V \in Tables /\ PointersOK(V) /\ ArraysOK(V)
  <2> HIDE DEF p, V
  <2> QED BY <1>2, <1>3, Entered
<1> HIDE DEF old
<1>6. a \in ArrayObject /\ a.members = old.members /\ a.raid = p /\ (a.watched <=> p \in present)
  BY <1>4, ArraysUpdated, WatchesUpdated
<1>7. x = u
  BY <1>1
<1> HIDE DEF a, x
<1>8. f \in [Uuids -> OrAbsent(ArrayObject)] /\ g \in [Paths -> Uuids \cup {Absent, Freed}]
  BY <1>1, <1>6, <1>7 DEF OrAbsent
<1>9. \A q \in Paths : g[q] = IF q = p THEN u ELSE T.arrayPath[q]
  BY <1>1, <1>7
<1>10. V.mdraid = f /\ V.arrayPath = g /\ V.memberPath = h
  <2>1. h \in [Paths -> Uuids \cup {Absent, Freed}]
    BY <1>1
  <2> HIDE DEF f, g, h
  <2> QED BY <1>8, <2>1, ArraysReplaced
<1> HIDE DEF V
<1>11. V.mdraid = [T.mdraid EXCEPT ![u] = a]
  BY <1>10
<1>12. HasDevices(a) /\ a.raid # Absent
  BY <1>1, <1>6 DEF HasDevices
<1> HIDE DEF f, g, h
<1>14. \A w \in Uuids :
         /\ V.mdraid[w] = IF w # u THEN T.mdraid[w] ELSE a
         /\ RunBy(V, w) = IF w = u THEN a.raid ELSE RunBy(T, w)
         /\ Watched(V, w) <=> IF w = u THEN a.watched ELSE Watched(T, w)
         /\ \A q : MemberOf(V, q, w) <=> IF w = u THEN q \in a.members ELSE MemberOf(T, q, w)
  <2> HIDE DEF p
  <2>1. V \in Tables /\ a \in ArrayObject
    BY <1>5, <1>6
  <2>2. IsSet(T, V, u, a)
    BY <1>11, <2>1, OneArraySet
  <2> QED BY <2>2 DEF IsSet
<1>15. ASSUME NEW w \in Uuids, NEW q
       PROVE  MemberOf(V, q, w) <=> MemberOf(T, q, w)
  BY <1>4, <1>6, <1>14 DEF MemberOf
<1>16. InUse(V)
  <2> SUFFICES ASSUME NEW w \in Uuids, V.mdraid[w] # Absent
               PROVE  /\ HasDevices(V.mdraid[w])
                      /\ LedTo(V, w, V.mdraid[w].raid)
                      /\ V.mdraid[w].watched => V.mdraid[w].raid # Absent
    BY DEF InUse
  <2>1. CASE w = u
    BY <1>1, <1>6, <1>9, <1>10, <1>12, <1>14, <2>1 DEF LedTo
  <2>2. CASE w # u
    <3>1. V.mdraid[w] = T.mdraid[w] /\ LedTo(T, w, T.mdraid[w].raid)
      BY <1>2, <1>14, <2>2 DEF InUse
    <3>2. V.mdraid[w].raid # Absent /\ Alone(V.mdraid[w].raid) => V.mdraid[w].raid # p
      BY <1>1, <2>2, <3>1 DEF LedTo
    <3>3. V.mdraid[w].raid # Absent => V.mdraid[w].raid \in Paths
      BY <1>5, TypesOfArrays DEF OrAbsent, ArrayObject
    <3> QED BY <1>2, <1>9, <1>10, <3>1, <3>2, <3>3 DEF InUse, LedTo
  <2> QED BY <2>1, <2>2
<1>17. /\ \A q \in Paths : V.memberPath[q] = T.memberPath[q]
       /\ \A q \in Paths : V.arrayPath[q] = IF q = p THEN u ELSE T.arrayPath[q]
  BY <1>9, <1>10 DEF h
<1> HIDE DEF p
<1> QED BY <1>3, <1>5, <1>6, <1>14, <1>15, <1>16, <1>17 DEF ArraysFit, p

-----------------------------------------------------------------------------
(* handle_block_uevent_for_mdraid as a whole: nothing changes for other    *)
(* devices, and that of the uevent becomes what it says, if nothing goes   *)
(* past the handlers.  Of the arrays a device runs, that is so of devices  *)
(* that share none.                                                        *)
RunsAsBefore(T, U, q) ==
    /\ U.arrayPath[q] = T.arrayPath[q]
    /\ \A w \in Uuids : /\ RunBy(U, w) = q <=> RunBy(T, w) = q
                        /\ RunBy(T, w) = q => (Watched(U, w) <=> Watched(T, w))

Apart(T, U, p) ==
    \A q \in Paths \ {p} :
        /\ U.memberPath[q] = T.memberPath[q]
        /\ \A w \in Uuids : MemberOf(U, q, w) <=> MemberOf(T, q, w)
        /\ Alone(q) => RunsAsBefore(T, U, q)

(* News of p, and where they make its path lead: Freed stands for a device *)
(* that has slipped.                                                       *)
News(e, p) == e.path = p /\ e.act # "refresh"

LeadsTo(p, e, z) ==
    IF ~News(e, p) \/ z = Freed THEN z
    ELSE IF e.act = "remove" \/ e.array \notin Uuids THEN Absent
    ELSE IF z = Absent THEN IF e.flag = "bogus" THEN Freed ELSE e.array
    ELSE IF z = e.array THEN z ELSE Absent

AsSeen(T, e) ==
    LET p == e.path IN
    /\ e.act # "remove" =>
         /\ e.label \in Uuids \/ e.array \in Uuids => T.memberPath[p] \in {Absent, e.label}
         /\ e.array = Absent /\ e.label \in Uuids => T.arrayPath[p] = Absent
    /\ e.flag = "bogus" /\ e.array \in Uuids => T.arrayPath[p] # Absent

MembershipKnown(T, p) == \A w \in Uuids : MemberOf(T, p, w) => T.memberPath[p] = w

ArraysTold(T, U, e) ==
    LET p == e.path IN
    /\ U.memberPath[p] = IF e.act # "remove" THEN MemberUuid(e) ELSE Absent
    /\ MembershipKnown(T, p) => MembershipKnown(U, p)
    /\ Alone(p) => /\ U.arrayPath[p] = LeadsTo(p, e, T.arrayPath[p])
                   /\ \A w \in Uuids : RunBy(U, w) = p => (Watched(U, w) <=> p \in present)

LEMMA ApartInTurn ==
    ASSUME NEW T, NEW U, NEW V, NEW p, Apart(T, U, p), Apart(U, V, p)
    PROVE  Apart(T, V, p)
<1> SUFFICES ASSUME NEW q \in Paths \ {p}
             PROVE  /\ V.memberPath[q] = T.memberPath[q]
                    /\ \A w \in Uuids : MemberOf(V, q, w) <=> MemberOf(T, q, w)
                    /\ Alone(q) => RunsAsBefore(T, V, q)
  BY DEF Apart
<1>1. /\ V.memberPath[q] = T.memberPath[q]
      /\ \A w \in Uuids : MemberOf(V, q, w) <=> MemberOf(T, q, w)
      /\ Alone(q) => RunsAsBefore(T, U, q) /\ RunsAsBefore(U, V, q)
  BY DEF Apart
<1>2. RunsAsBefore(T, U, q) /\ RunsAsBefore(U, V, q) => RunsAsBefore(T, V, q)
  BY DEF RunsAsBefore
<1> QED BY <1>1, <1>2

(* A device that runs an array leads to it.                                *)
LEMMA RunningLeads ==
    ASSUME machine \in Setups, NEW T \in Tables, ArraysFit(T), NEW q \in Paths, Alone(q),
           NEW w \in Uuids
    PROVE  RunBy(T, w) = q <=> T.arrayPath[q] = w
<1>1. Absent \notin Paths /\ Absent \notin Uuids
  BY TypesOfArrays
<1>2. RunBy(T, w) = q => T.arrayPath[q] = w
  BY <1>1 DEF RunBy, ArraysFit, InUse, LedTo
<1>3. T.arrayPath[q] = w => RunBy(T, w) = q
  BY <1>1 DEF RunBy, ArraysFit, ArraysOK
<1> QED BY <1>2, <1>3

LEMMA BothLeave ==
    ASSUME machine \in Setups, NEW T \in Tables, ArraysFit(T), NEW e \in Events,
           NEW U, U = Leave(T, e)
    PROVE  /\ U \in Tables /\ ArraysFit(U) /\ Apart(T, U, e.path)
           /\ U.memberPath[e.path] = Absent /\ (Alone(e.path) => U.arrayPath[e.path] = Absent)
           /\ \A w \in Uuids : MemberOf(U, e.path, w) =>
                MemberOf(T, e.path, w) /\ w # T.memberPath[e.path]
<1> DEFINE p == e.path
           V == LeaveAsMember(T, e)
<1>0. p \in Paths
  BY DEF Events
<1>1. /\ V \in Tables /\ ArraysFit(V)
      /\ \A q \in Paths :
           /\ Alone(q) => V.arrayPath[q] = T.arrayPath[q]
           /\ V.memberPath[q] = IF q = p THEN Absent ELSE T.memberPath[q]
      /\ \A w \in Uuids :
           /\ RunBy(V, w) = RunBy(T, w) /\ (Watched(V, w) <=> Watched(T, w))
           /\ \A q : MemberOf(V, q, w) <=> MemberOf(T, q, w) /\ ~(q = p /\ w = T.memberPath[q])
  BY MemberLeaves
<1>2. U = LeaveAsArray(V, e)
  BY DEF Leave
<1> HIDE DEF V
<1>3. /\ U \in Tables /\ ArraysFit(U)
      /\ \A q \in Paths :
           /\ U.memberPath[q] = V.memberPath[q]
           /\ Alone(q) => U.arrayPath[q] = IF q = p THEN Absent ELSE V.arrayPath[q]
      /\ \A w \in Uuids :
           /\ \/ RunBy(U, w) = RunBy(V, w) /\ (Watched(U, w) <=> Watched(V, w))
              \/ RunBy(V, w) = p /\ RunBy(U, w) = Absent
           /\ \A q : MemberOf(U, q, w) <=> MemberOf(V, q, w)
  BY <1>1, <1>2, ArrayLeaves
<1>4. Absent \notin Paths
  BY TypesOfArrays
<1>5. Apart(T, U, p)
  <2> SUFFICES ASSUME NEW q \in Paths \ {p}
               PROVE  /\ U.memberPath[q] = T.memberPath[q]
                      /\ \A w \in Uuids : MemberOf(U, q, w) <=> MemberOf(T, q, w)
                      /\ Alone(q) => RunsAsBefore(T, U, q)
    BY DEF Apart
  <2>1. U.memberPath[q] = T.memberPath[q] /\ (Alone(q) => U.arrayPath[q] = T.arrayPath[q])
    BY <1>1, <1>3
  <2>2. ASSUME NEW w \in Uuids
        PROVE  /\ MemberOf(U, q, w) <=> MemberOf(T, q, w)
               /\ RunBy(U, w) = q <=> RunBy(T, w) = q
               /\ RunBy(T, w) = q => (Watched(U, w) <=> Watched(T, w))
    BY <1>1, <1>3, <1>4
  <2> QED BY <2>1, <2>2 DEF RunsAsBefore
<1> QED BY <1>0, <1>1, <1>3, <1>5

LEMMA OwnArrayHandled ==
    ASSUME machine \in Setups, NEW T \in Tables, ArraysFit(T), NEW e \in Events,
           EventShape(e), e.array # Absent,
           NEW is_member \in BOOLEAN, ~is_member, NEW U, U = WithUuid(T, e, e.array, is_member)
    PROVE  /\ U \in Tables /\ ArraysFit(U) /\ Apart(T, U, e.path)
           /\ \/ /\ e.act = "remove" \/ e.array \notin Uuids \/ T.arrayPath[e.path] \notin {Absent, e.array}
                 /\ U.memberPath[e.path] = Absent /\ (Alone(e.path) => U.arrayPath[e.path] = Absent)
                 /\ \A w \in Uuids : MemberOf(U, e.path, w) =>
                      MemberOf(T, e.path, w) /\ w # T.memberPath[e.path]
              \/ /\ e.act # "remove" /\ e.array \in Uuids /\ T.arrayPath[e.path] \in {Absent, e.array}
                 /\ U.memberPath[e.path] = T.memberPath[e.path] /\ U.arrayPath[e.path] = e.array
                 /\ Watched(U, e.array) <=> e.path \in present
                 /\ \A w \in Uuids : MemberOf(U, e.path, w) <=> MemberOf(T, e.path, w)
<1> DEFINE p == e.path
           u == e.array
           left == e.act = "remove" \/ u \notin Uuids \/ T.arrayPath[p] \notin {Absent, u}
<1>0. /\ p \in Paths /\ Kind(p) = "md" /\ Absent \notin Paths
      /\ u \in Uuids => u \in machine.arrays[p]
  BY TypesOfArrays DEF EventShape, Events
<1>1. CASE left
  <2> DEFINE V == Leave(T, e)
  <2>1. U = V
    BY <1>1 DEF WithUuid
  <2>2. /\ V \in Tables /\ ArraysFit(V) /\ Apart(T, V, e.path)
        /\ V.memberPath[e.path] = Absent /\ (Alone(e.path) => V.arrayPath[e.path] = Absent)
        /\ \A w \in Uuids : MemberOf(V, e.path, w) =>
             MemberOf(T, e.path, w) /\ w # T.memberPath[e.path]
    BY BothLeave
  <2> HIDE DEF V
  <2> QED BY <1>1, <2>1, <2>2
<1>2. CASE ~left
  <2> DEFINE V == Enter(T, e, u, is_member)
  <2>1. U = V
    BY <1>2 DEF WithUuid
  <2>2. /\ e.act # "remove" /\ u \in Uuids /\ T.arrayPath[e.path] \in {Absent, u}
        /\ Kind(e.path) = "md" /\ u \in machine.arrays[e.path]
    BY <1>0, <1>2
  <2> HIDE DEF u
  <2>3. /\ V \in Tables /\ ArraysFit(V)
        /\ \A q \in Paths :
             /\ V.memberPath[q] = T.memberPath[q]
             /\ V.arrayPath[q] = IF q = e.path THEN u ELSE T.arrayPath[q]
        /\ \A w \in Uuids :
             /\ w = u => RunBy(V, w) = e.path /\ (Watched(V, w) <=> e.path \in present)
             /\ w # u => RunBy(V, w) = RunBy(T, w) /\ (Watched(V, w) <=> Watched(T, w))
             /\ \A q : MemberOf(V, q, w) <=> MemberOf(T, q, w)
    BY <2>2, ArrayEnters
  <2> HIDE DEF V
  <2>4. ASSUME NEW q \in Paths \ {p}, Alone(q), NEW w \in Uuids
        PROVE  /\ RunBy(V, w) = q <=> RunBy(T, w) = q
               /\ RunBy(T, w) = q => (Watched(V, w) <=> Watched(T, w))
    <3>1. w = u => RunBy(T, w) # q
      <4>1. SUFFICES ASSUME w = u, T.arrayPath[q] = w
                     PROVE  FALSE
        BY <2>4, RunningLeads
      <4>2. Kind(q) = "md" /\ w \in machine.arrays[q]
        BY <4>1, TypesOfArrays DEF ArraysFit, ArraysOK
      <4>3. w \in machine.arrays[p]
        BY <2>2, <4>1
      <4> QED BY <1>0, <2>4, <4>2, <4>3 DEF Alone
    <3>2. w = u => RunBy(V, w) # q
      BY <2>3
    <3> QED BY <2>3, <3>1, <3>2
  <2>5. Apart(T, V, p)
    BY <2>3, <2>4 DEF Apart, RunsAsBefore
  <2> QED BY <1>0, <2>1, <2>2, <2>3, <2>5 DEF u
<1> QED BY <1>1, <1>2

LEMMA ArrayUeventHandled ==
    ASSUME machine \in Setups, NEW T \in Tables, ArraysFit(T), NEW e \in Events,
           EventShape(e), e.act # "refresh", NEW U, U = ForMDRaid(T, e)
    PROVE  /\ U \in Tables /\ ArraysFit(U) /\ Apart(T, U, e.path)
           /\ AsSeen(T, e) => ArraysTold(T, U, e)
<1> DEFINE p == e.path
           m == MemberUuid(e)
           own == IF e.array # Absent THEN WithUuid(T, e, e.array, FALSE) ELSE T
           left == e.act = "remove" \/ e.array \notin Uuids \/ T.arrayPath[p] \notin {Absent, e.array}
           Left(V) == /\ V.memberPath[p] = Absent /\ (Alone(p) => V.arrayPath[p] = Absent)
                      /\ \A w \in Uuids : MemberOf(V, p, w) =>
                           MemberOf(T, p, w) /\ w # T.memberPath[p]
           Entered1(V) == /\ V.memberPath[p] = T.memberPath[p] /\ V.arrayPath[p] = e.array
                          /\ Watched(V, e.array) <=> p \in present
                          /\ \A w \in Uuids : MemberOf(V, p, w) <=> MemberOf(T, p, w)
<1>1. /\ p \in Paths /\ Absent \notin Uuids /\ Absent \notin Paths /\ Freed \notin Uuids \cup {Absent}
      /\ m = IF e.label \in Uuids THEN e.label ELSE Absent
      /\ T.memberPath[p] \in OrAbsent(Uuids) /\ (Alone(p) => T.arrayPath[p] \in OrAbsent(Uuids))
  BY TypesOfArrays DEF Events, MemberUuid, ArraysFit, PointersOK, ArraysOK, OrAbsent
<1>2. Apart(T, T, p)
  BY DEF Apart, RunsAsBefore
<1>3. CASE e.array = Absent /\ m = Absent
  <2> DEFINE V == Leave(T, e)
  <2>1. U = V
    BY <1>1, <1>3 DEF ForMDRaid, WithUuid
  <2>2. V \in Tables /\ ArraysFit(V) /\ Apart(T, V, p) /\ Left(V)
    BY BothLeave
  <2> HIDE DEF V
  <2>3. Alone(p) => LeadsTo(p, e, T.arrayPath[p]) = Absent
    BY <1>1, <1>3 DEF LeadsTo, News, OrAbsent
  <2>4. Alone(p) => ~\E w \in Uuids : RunBy(V, w) = p
    BY <1>1, <2>2, RunningLeads
  <2>5. MembershipKnown(T, p) => MembershipKnown(V, p)
    BY <2>2 DEF MembershipKnown
  <2> QED BY <1>3, <2>1, <2>2, <2>3, <2>4, <2>5 DEF ArraysTold
<1>4. CASE ~(e.array = Absent /\ m = Absent)
  <2>1. U = IF m # Absent THEN WithUuid(own, e, m, TRUE) ELSE own
    BY <1>4 DEF ForMDRaid
  <2>2. /\ own \in Tables /\ ArraysFit(own) /\ Apart(T, own, p)
        /\ e.array = Absent => own = T
        /\ e.array # Absent => (left /\ Left(own)) \/ (~left /\ Entered1(own))
    <3>1. CASE e.array = Absent
      BY <1>2, <3>1
    <3>2. CASE e.array # Absent
      <4> DEFINE b == FALSE
                 V == WithUuid(T, e, e.array, b)
      <4>1. own = V /\ b \in BOOLEAN /\ ~b
        BY <3>2
      <4> HIDE DEF b, own
      <4>2. /\ V \in Tables /\ ArraysFit(V) /\ Apart(T, V, p)
            /\ (left /\ Left(V)) \/ (~left /\ Entered1(V))
        BY <3>2, <4>1, OwnArrayHandled
      <4> QED BY <3>2, <4>1, <4>2
    <3> QED BY <3>1, <3>2
  <2> HIDE DEF own, m
  <2>3. CASE m = Absent
    <3>1. U = own /\ e.array # Absent /\ e.label \notin Uuids
      BY <1>1, <1>4, <2>1, <2>3
    <3>2. CASE left
      <4>1. Left(own)
        BY <2>2, <3>1, <3>2
      <4>2. Alone(p) => LeadsTo(p, e, T.arrayPath[p]) = Absent
        BY <1>1, <3>2 DEF LeadsTo, News, OrAbsent
      <4>3. Alone(p) => ~\E w \in Uuids : RunBy(own, w) = p
        BY <1>1, <2>2, <4>1, RunningLeads
      <4>4. MembershipKnown(T, p) => MembershipKnown(own, p)
        BY <4>1 DEF MembershipKnown
      <4> QED BY <2>2, <2>3, <3>1, <4>1, <4>2, <4>3, <4>4 DEF ArraysTold, m
    <3>3. CASE ~left
      <4>1. Entered1(own)
        BY <2>2, <3>1, <3>3
      <4>2. AsSeen(T, e) /\ Alone(p) => LeadsTo(p, e, T.arrayPath[p]) = e.array
        BY <1>1, <3>3 DEF LeadsTo, News, AsSeen
      <4>3. AsSeen(T, e) => T.memberPath[p] = Absent
        BY <1>1, <3>1, <3>3 DEF AsSeen, OrAbsent
      <4>4. ASSUME Alone(p)
            PROVE  \A w \in Uuids : RunBy(own, w) = p => (Watched(own, w) <=> p \in present)
        <5>1. \A w \in Uuids : RunBy(own, w) = p => w = e.array
          BY <1>1, <2>2, <4>1, <4>4, RunningLeads
        <5> QED BY <4>1, <5>1
      <4>5. MembershipKnown(T, p) => MembershipKnown(own, p)
        BY <4>1 DEF MembershipKnown
      <4> QED BY <2>2, <2>3, <3>1, <3>3, <4>1, <4>2, <4>3, <4>4, <4>5 DEF ArraysTold, m
    <3> QED BY <3>2, <3>3
  <2>4. CASE m # Absent /\ e.act = "remove"
    <3> DEFINE V == Leave(own, e)
    <3>1. U = V
      BY <2>1, <2>4 DEF WithUuid
    <3>2. /\ V \in Tables /\ ArraysFit(V) /\ Apart(own, V, p)
          /\ V.memberPath[p] = Absent /\ (Alone(p) => V.arrayPath[p] = Absent)
          /\ \A w \in Uuids : MemberOf(V, p, w) => MemberOf(own, p, w) /\ w # own.memberPath[p]
      BY <2>2, BothLeave
    <3> HIDE DEF V
    <3>3. Apart(T, V, p)
      BY <2>2, <3>2, ApartInTurn
    <3>4. Alone(p) => LeadsTo(p, e, T.arrayPath[p]) = Absent
      BY <1>1, <2>4 DEF LeadsTo, News, OrAbsent
    <3>5. Alone(p) => ~\E w \in Uuids : RunBy(V, w) = p
      BY <1>1, <3>2, RunningLeads
    <3>6. \A w \in Uuids : MemberOf(V, p, w) => MemberOf(T, p, w) /\ w # T.memberPath[p]
      BY <2>2, <2>4, <3>2
    <3>7. MembershipKnown(T, p) => MembershipKnown(V, p)
      BY <3>6 DEF MembershipKnown
    <3> QED BY <2>4, <3>1, <3>2, <3>3, <3>4, <3>5, <3>7 DEF ArraysTold
  <2>5. CASE m # Absent /\ e.act # "remove"
    <3> DEFINE V == Joins(own, e, m)
    <3>1. m \in Uuids /\ m = e.label
      BY <1>1, <2>5
    <3>2. U = V
      BY <2>1, <2>5, <3>1 DEF WithUuid, Joins
    <3> HIDE DEF V
    <3>3. /\ V \in Tables /\ ArraysFit(V)
          /\ \A q \in Paths :
               /\ Alone(q) => V.arrayPath[q] = own.arrayPath[q]
               /\ q # p => V.memberPath[q] = own.memberPath[q]
          /\ own.memberPath[p] \in {Absent, m} => V.memberPath[p] = m
          /\ \A w \in Uuids :
               /\ RunBy(V, w) = RunBy(own, w) /\ (Watched(V, w) <=> Watched(own, w))
               /\ \A q : MemberOf(V, q, w) <=> MemberOf(own, q, w) \/ (q = p /\ w = m)
      BY <2>2, <2>5, <3>1, MemberEnters DEF V
    <3>4. Apart(T, V, p)
      <4>1. Apart(own, V, p)
        BY <3>3 DEF Apart, RunsAsBefore
      <4> QED BY <2>2, <4>1, ApartInTurn
    <3>5. ASSUME AsSeen(T, e)
          PROVE  ArraysTold(T, V, e)
      <4>1. T.memberPath[p] \in {Absent, m} /\ (e.array = Absent => T.arrayPath[p] = Absent)
        BY <2>5, <3>1, <3>5 DEF AsSeen
      <4>2. own.memberPath[p] \in {Absent, m} /\ V.memberPath[p] = m
        BY <2>2, <3>3, <4>1
      <4>3. ASSUME Alone(p)
            PROVE  own.arrayPath[p] = LeadsTo(p, e, T.arrayPath[p])
        <5>1. CASE e.array = Absent
          BY <1>1, <2>2, <4>1, <5>1 DEF LeadsTo, News
        <5>2. CASE e.array # Absent /\ left
          BY <1>1, <2>2, <4>3, <5>2 DEF LeadsTo, News, OrAbsent
        <5>3. CASE e.array # Absent /\ ~left
          BY <1>1, <2>2, <3>5, <5>3 DEF LeadsTo, News, AsSeen
        <5> QED BY <5>1, <5>2, <5>3
      <4>4. ASSUME Alone(p), NEW w \in Uuids, RunBy(V, w) = p
            PROVE  Watched(V, w) <=> p \in present
        <5>1. own.arrayPath[p] = w
          BY <1>1, <2>2, <3>3, <4>4, RunningLeads
        <5>2. e.array # Absent /\ ~left /\ w = e.array
          BY <1>1, <2>2, <4>1, <4>4, <5>1
        <5> QED BY <2>2, <3>3, <5>2
      <4>5. ASSUME MembershipKnown(T, p), NEW w \in Uuids, MemberOf(V, p, w)
            PROVE  w = m
        <5>1. MemberOf(own, p, w) \/ w = m
          BY <3>3, <4>5
        <5>2. MemberOf(own, p, w) => T.memberPath[p] = w
          BY <2>2, <4>5 DEF MembershipKnown
        <5> QED BY <1>1, <4>1, <5>1, <5>2
      <4>6. MembershipKnown(T, p) => MembershipKnown(V, p)
        BY <4>2, <4>5 DEF MembershipKnown
      <4>7. /\ V.memberPath[p] = MemberUuid(e)
            /\ Alone(p) => V.arrayPath[p] = LeadsTo(p, e, T.arrayPath[p])
        BY <1>1, <3>3, <4>2, <4>3 DEF m
      <4> QED BY <2>5, <4>4, <4>6, <4>7 DEF ArraysTold
    <3> QED BY <3>2, <3>3, <3>4, <3>5
  <2> QED BY <2>3, <2>4, <2>5
<1> QED BY <1>3, <1>4

(* What other handlers do between leaves all of that alone.                *)
LEMMA ArraysAsBefore ==
    ASSUME NEW T, NEW U, ArraysAlone(T, U)
    PROVE  /\ ArraysFit(T) => ArraysFit(U)
           /\ \A q, w : MemberOf(U, q, w) <=> MemberOf(T, q, w)
           /\ \A w : RunBy(U, w) = RunBy(T, w) /\ (Watched(U, w) <=> Watched(T, w))
           /\ \A q : MembershipKnown(U, q) <=> MembershipKnown(T, q)
<1>1. U.mdraid = T.mdraid /\ U.arrayPath = T.arrayPath /\ U.memberPath = T.memberPath
  BY DEF ArraysAlone
<1>2. ArraysFit(T) => ArraysFit(U)
  BY <1>1 DEF ArraysFit, PointersOK, ArraysOK, InUse, LedTo
<1>3. \A q, w : MemberOf(U, q, w) <=> MemberOf(T, q, w)
  BY <1>1 DEF MemberOf
<1>4. \A w : RunBy(U, w) = RunBy(T, w) /\ (Watched(U, w) <=> Watched(T, w))
  BY <1>1 DEF RunBy, Watched
<1>5. \A q : MembershipKnown(U, q) <=> MembershipKnown(T, q)
  BY <1>1, <1>3 DEF MembershipKnown
<1> QED BY <1>2, <1>3, <1>4, <1>5

LEMMA ArraysBetween ==
    ASSUME NEW T, NEW F, NEW G, NEW U, NEW e, ArraysAlone(T, F), ArraysAlone(G, U),
           ArraysFit(G), Apart(F, G, e.path), AsSeen(F, e) => ArraysTold(F, G, e)
    PROVE  /\ ArraysFit(U) /\ Apart(T, U, e.path)
           /\ AsSeen(T, e) => ArraysTold(T, U, e)
<1>1. /\ F.arrayPath = T.arrayPath /\ F.memberPath = T.memberPath
      /\ U.arrayPath = G.arrayPath /\ U.memberPath = G.memberPath
  BY DEF ArraysAlone
<1>2. /\ \A q, w : MemberOf(F, q, w) <=> MemberOf(T, q, w)
      /\ \A w : RunBy(F, w) = RunBy(T, w) /\ (Watched(F, w) <=> Watched(T, w))
      /\ \A q : MembershipKnown(F, q) <=> MembershipKnown(T, q)
  BY ArraysAsBefore
<1>3. /\ ArraysFit(U)
      /\ \A q, w : MemberOf(U, q, w) <=> MemberOf(G, q, w)
      /\ \A w : RunBy(U, w) = RunBy(G, w) /\ (Watched(U, w) <=> Watched(G, w))
      /\ \A q : MembershipKnown(U, q) <=> MembershipKnown(G, q)
  BY ArraysAsBefore
<1>4. Apart(T, U, e.path)
  BY <1>1, <1>2, <1>3 DEF Apart, RunsAsBefore
<1>5. AsSeen(T, e) => AsSeen(F, e)
  BY <1>1 DEF AsSeen
<1>6. ArraysTold(F, G, e) => ArraysTold(T, U, e)
  BY <1>1, <1>2, <1>3 DEF ArraysTold
<1> QED BY <1>3, <1>4, <1>5, <1>6

(* What becomes of the arrays as the main thread handles a uevent.         *)
Unheeded(e) == e.act = "refresh" \/ (e.act # "remove" /\ e.flag = "disabled")

ArraysAfter(T, U, e) ==
    /\ Unheeded(e) => ArraysAlone(T, U)
    /\ ~Unheeded(e) => /\ ArraysFit(U) /\ Apart(T, U, e.path)
                       /\ AsSeen(T, e) => ArraysTold(T, U, e)

LEMMA ArraysOfUevent ==
    ASSUME machine \in Setups, NEW T \in Tables, TablesOf(T), ArraysFit(T),
           NEW e \in Events, EventShape(e), e.act # "refresh", NEW U, U = HandleUevent(T, e)
    PROVE  ArraysAfter(T, U, e)
<1> DEFINE V == HandleBlockUevent(T, e)
           After(X) == ArraysFit(X) /\ Apart(T, X, e.path) /\ (AsSeen(T, e) => ArraysTold(T, X, e))
<1>1. /\ V \in Tables /\ SubsystemsOK(V)
      /\ Unheeded(e) => ArraysAlone(T, V)
      /\ ~Unheeded(e) => After(V)
  <2>1. CASE e.act = "remove"
    <3> DEFINE A == ForBlock(T, e)
               F == ForDrive(A, e)
               G == ForMDRaid(F, e)
    <3>1. V = ForModules(G, e)
      BY <2>1 DEF HandleBlockUevent
    <3>2. A \in Tables /\ BlockBecomes(T, A)
      BY <2>1, BlocksHandled
    <3> HIDE DEF A
    <3>3. TablesOf(A) /\ ArraysAlone(T, A)
      BY <3>2, TablesKept DEF BlockBecomes, TablesOf
    <3>4. F \in Tables /\ DrivesBecome(A, F, F.drive, F.drivePath)
      BY <3>2, <3>3, DrivesHandled DEF TablesOf
    <3> HIDE DEF F
    <3>5. PointersOK(F) /\ SubsystemsOK(F) /\ ArraysAlone(T, F)
      BY <3>3, <3>4, TablesKept DEF DrivesBecome, TablesOf, ArraysAlone
    <3>6. G \in Tables /\ ArraysBecome(F, G)
      BY <3>4, <3>5, ArraysHandled
    <3>7. ArraysFit(F)
      BY <3>5, ArraysAsBefore
    <3>8. ArraysFit(G) /\ Apart(F, G, e.path) /\ (AsSeen(F, e) => ArraysTold(F, G, e))
      BY <3>4, <3>7, ArrayUeventHandled
    <3> HIDE DEF G
    <3>9. V \in Tables /\ SubsystemsAlone(G, V) /\ ArraysAlone(G, V)
      BY <3>1, <3>6, ModulesHandled
    <3> HIDE DEF V
    <3>10. SubsystemsOK(V)
      BY <3>5, <3>6, <3>9, TablesKept DEF ArraysBecome
    <3>11. After(V)
      BY <3>5, <3>8, <3>9, ArraysBetween
    <3> QED BY <2>1, <3>9, <3>10, <3>11 DEF Unheeded
  <2>2. CASE e.act # "remove" /\ e.flag = "disabled"
    <3>1. V = T
      BY <2>2 DEF HandleBlockUevent
    <3> QED BY <2>2, <3>1 DEF TablesOf, Unheeded, ArraysAlone
  <2>3. CASE e.act # "remove" /\ e.flag # "disabled"
    <3> DEFINE A == ForModules(T, e)
               F == ForMDRaid(A, e)
               G == ForDrive(F, e)
    <3>1. V = ForBlock(G, e)
      BY <2>3 DEF HandleBlockUevent
    <3>2. A \in Tables /\ ArraysAlone(T, A) /\ DrivesAlone(T, A) /\ SubsystemsAlone(T, A)
      BY ModulesHandled
    <3> HIDE DEF A
    <3>3. TablesOf(A) /\ ArraysFit(A)
      BY <3>2, TablesKept, ArraysAsBefore DEF TablesOf
    <3>4. F \in Tables /\ ArraysBecome(A, F)
      BY <3>2, <3>3, ArraysHandled DEF TablesOf
    <3>5. ArraysFit(F) /\ Apart(A, F, e.path) /\ (AsSeen(A, e) => ArraysTold(A, F, e))
      BY <3>2, <3>3, ArrayUeventHandled
    <3> HIDE DEF F
    <3>6. DrivesOK(F) /\ SubsystemsOK(F)
      BY <3>3, <3>4, TablesKept DEF ArraysBecome, TablesOf
    <3>7. G \in Tables /\ DrivesBecome(F, G, G.drive, G.drivePath)
      BY <3>4, <3>6, DrivesHandled
    <3> HIDE DEF G
    <3>8. V \in Tables /\ BlockBecomes(G, V)
      BY <3>1, <3>7, BlocksHandled
    <3> HIDE DEF V
    <3>9. SubsystemsOK(V)
      BY <3>6, <3>7, <3>8, TablesKept DEF DrivesBecome, BlockBecomes
    <3>10. ArraysAlone(F, V)
      BY <3>7, <3>8 DEF DrivesBecome, BlockBecomes, ArraysAlone
    <3>11. After(V)
      BY <3>2, <3>5, <3>10, ArraysBetween
    <3> QED BY <2>3, <3>8, <3>9, <3>11 DEF Unheeded
  <2> QED BY <2>1, <2>2, <2>3
<1>2. U = ForSubsystem(V, e)
  BY DEF HandleUevent
<1> HIDE DEF V
<1>3. ArraysAlone(V, U)
  BY <1>1, <1>2, SubsystemsHandled
<1>4. Unheeded(e) => ArraysAlone(T, U)
  BY <1>1, <1>3 DEF ArraysAlone
<1>5. ASSUME ~Unheeded(e)
      PROVE  After(U)
  <2>1. ArraysAlone(T, T)
    BY DEF ArraysAlone
  <2> QED BY <1>1, <1>3, <1>5, <2>1, ArraysBetween
<1> QED BY <1>4, <1>5 DEF ArraysAfter

(* What is not overlooked is handled as it was seen.                       *)
LEMMA NotOverlooked ==
    ASSUME machine \in Setups, tables \in Tables, ArraysFit(tables), NEW e \in Events,
           EventShape(e), e.path \in Devices, e.path \notin Overlooked(e), ~Unheeded(e)
    PROVE  AsSeen(tables, e)
<1> DEFINE p == e.path
<1>1. /\ p \in Paths /\ Absent \notin Uuids /\ Freed \notin Uuids \cup {Absent}
      /\ tables.memberPath[p] \in OrAbsent(Uuids)
  BY TypesOfArrays DEF Events, ArraysFit, PointersOK, OrAbsent
<1>2. e.act # "remove" => e.act # "remove" /\ e.flag # "disabled"
  BY DEF Unheeded
<1> QED BY <1>1, <1>2 DEF Overlooked, AsSeen

LEMMA ArraysOfHandled ==
    ASSUME machine \in Setups, tables \in Tables, TablesOf(tables),
           ArraysFit(tables), NEW e \in Events, EventShape(e), Handle(e)
    PROVE  ArraysAfter(tables, tables', e)
<1>1. tables' = IF e.act = "refresh" THEN ForBlock(tables, e) ELSE HandleUevent(tables, e)
  BY DEF Handle, TablesBecome
<1>2. CASE e.act = "refresh"
  <2>1. BlockBecomes(tables, tables')
    BY <1>1, <1>2, BlocksHandled
  <2> QED BY <1>2, <2>1 DEF BlockBecomes, ArraysAfter, Unheeded
<1>3. CASE e.act # "refresh"
  BY <1>1, <1>3, ArraysOfUevent
<1> QED BY <1>2, <1>3

-----------------------------------------------------------------------------
(* What a uevent says of the array of p, which was v before and is w then: *)
(* of a stopped array it has no UUID, or one that is not the array's.      *)
Turn(e, p, v, w) ==
    IF ~News(e, p) THEN w = v
    ELSE IF e.act = "remove" THEN w = Absent
    ELSE IF e.flag = "bogus" THEN w = Absent /\ v # Absent /\ e.array # v
    ELSE w = e.array /\ v \in {w, Absent}

(* The arrays of p, h[i] after the first i uevents of s.                   *)
History(s, p, h) ==
    /\ h \in [0..Len(s) -> OrAbsent(Uuids)]
    /\ \A i \in 1..Len(s) : Turn(s[i], p, h[i - 1], h[i])
    /\ \A i, j \in 0..Len(s) : i < j /\ h[i] # h[j] => \E k \in DOMAIN s : k > i /\ News(s[k], p)

LEMMA HistoryOfNone ==
    ASSUME NEW p, NEW v \in OrAbsent(Uuids), NEW h, h = [i \in 0..0 |-> v]
    PROVE  History(<<>>, p, h) /\ h[0] = v
<1>1. Len(<<>>) = 0
  OBVIOUS
<1>2. h \in [0..0 -> OrAbsent(Uuids)] /\ h[0] = v
  OBVIOUS
<1>3. \A i, j \in 0..0 : ~(i < j)
  OBVIOUS
<1>4. 1..0 = {}
  OBVIOUS
<1> QED BY <1>1, <1>2, <1>3, <1>4 DEF History

LEMMA HistoryAppended ==
    ASSUME NEW s \in Seq(Events), NEW e \in Events, NEW p, NEW h, History(s, p, h),
           NEW w \in OrAbsent(Uuids), Turn(e, p, h[Len(s)], w),
           NEW g, g = [i \in 0..(Len(s) + 1) |-> IF i \in 0..Len(s) THEN h[i] ELSE w]
    PROVE  /\ History(Append(s, e), p, g)
           /\ \A i \in 0..Len(s) : g[i] = h[i]
           /\ g[Len(Append(s, e))] = w
<1> DEFINE n == Len(s)
           t == Append(s, e)
<1>1. /\ n \in Nat /\ Len(t) = n + 1 /\ DOMAIN s = 1..n /\ DOMAIN t = 1..(n + 1)
      /\ t[n + 1] = e /\ \A i \in 1..n : t[i] = s[i]
  OBVIOUS
<1>2. /\ h \in [0..n -> OrAbsent(Uuids)]
      /\ \A i \in 1..n : Turn(s[i], p, h[i - 1], h[i])
      /\ \A i, j \in 0..n : i < j /\ h[i] # h[j] => \E k \in 1..n : k > i /\ News(s[k], p)
  BY <1>1 DEF History
<1> HIDE DEF n, t
<1>3. /\ g \in [0..(n + 1) -> OrAbsent(Uuids)] /\ g[n + 1] = w
      /\ \A i \in 0..n : g[i] = h[i] /\ i \in 0..(n + 1)
  BY <1>1, <1>2 DEF n
<1>4. ASSUME NEW i \in 1..(n + 1)
      PROVE  Turn(t[i], p, g[i - 1], g[i])
  <2>1. CASE i \in 1..n
    <3>1. i - 1 \in 0..n /\ i \in 0..n
      BY <1>1, <2>1
    <3> QED BY <1>1, <1>2, <1>3, <2>1, <3>1
  <2>2. CASE i = n + 1
    <3>1. i - 1 = n /\ n \in 0..n
      BY <1>1, <2>2
    <3> QED BY <1>1, <1>3, <2>2, <3>1 DEF n
  <2> QED BY <1>1, <2>1, <2>2
<1>5. ASSUME NEW i \in 0..(n + 1), NEW j \in 0..(n + 1), i < j, g[i] # g[j]
      PROVE  \E k \in 1..(n + 1) : k > i /\ News(t[k], p)
  <2>1. i \in 0..n /\ g[i] = h[i]
    BY <1>1, <1>3, <1>5
  <2>2. CASE j \in 0..n
    <3>1. PICK k \in 1..n : k > i /\ News(s[k], p)
      BY <1>2, <1>3, <1>5, <2>1, <2>2
    <3> QED BY <1>1, <3>1
  <2>3. CASE j = n + 1 /\ News(e, p)
    BY <1>1, <2>1, <2>3
  <2>4. CASE j = n + 1 /\ ~News(e, p)
    <3>1. h[i] # h[n]
      BY <1>3, <1>5, <2>1, <2>4 DEF Turn, n
    <3>2. PICK k \in 1..n : k > i /\ News(s[k], p)
      <4>1. n \in 0..n /\ i < n
        BY <1>1, <2>1, <3>1
      <4> QED BY <1>2, <2>1, <3>1, <4>1
    <3> QED BY <1>1, <3>2
  <2> QED BY <1>1, <2>2, <2>3, <2>4
<1>6. History(t, p, g)
  BY <1>1, <1>3, <1>4, <1>5 DEF History
<1> QED BY <1>1, <1>3, <1>6 DEF n, t

LEMMA HistoryBehind ==
    ASSUME NEW s \in Seq(Events), s # <<>>, NEW p, NEW h, History(s, p, h),
           NEW g, g = [i \in 0..(Len(s) - 1) |-> h[i + 1]]
    PROVE  /\ History(Tail(s), p, g)
           /\ \A j \in 1..Len(s) : j - 1 \in 0..Len(Tail(s)) /\ g[j - 1] = h[j]
           /\ g[Len(Tail(s))] = h[Len(s)] /\ g[0] = h[1]
<1> DEFINE n == Len(s)
           t == Tail(s)
<1>1. /\ n \in Nat /\ n >= 1 /\ Len(t) = n - 1 /\ DOMAIN s = 1..n /\ DOMAIN t = 1..(n - 1)
      /\ \A i \in 1..(n - 1) : t[i] = s[i + 1] /\ i + 1 \in 1..n
  OBVIOUS
<1>2. /\ h \in [0..n -> OrAbsent(Uuids)]
      /\ \A i \in 1..n : Turn(s[i], p, h[i - 1], h[i])
      /\ \A i, j \in 0..n : i < j /\ h[i] # h[j] => \E k \in 1..n : k > i /\ News(s[k], p)
  BY <1>1 DEF History
<1> HIDE DEF n, t
<1>3. /\ g \in [0..(n - 1) -> OrAbsent(Uuids)]
      /\ \A i \in 0..(n - 1) : g[i] = h[i + 1] /\ i + 1 \in 0..n
  BY <1>1, <1>2 DEF n
<1>4. ASSUME NEW i \in 1..(n - 1)
      PROVE  Turn(t[i], p, g[i - 1], g[i])
  <2>1. i - 1 \in 0..(n - 1) /\ i \in 0..(n - 1) /\ (i - 1) + 1 = i /\ (i + 1) - 1 = i
    BY <1>1
  <2>2. t[i] = s[i + 1] /\ i + 1 \in 1..n /\ g[i - 1] = h[i] /\ g[i] = h[i + 1]
    BY <1>1, <1>3, <2>1
  <2> QED BY <1>2, <2>1, <2>2
<1>5. ASSUME NEW i \in 0..(n - 1), NEW j \in 0..(n - 1), i < j, g[i] # g[j]
      PROVE  \E k \in 1..(n - 1) : k > i /\ News(t[k], p)
  <2>1. h[i + 1] # h[j + 1] /\ i + 1 \in 0..n /\ j + 1 \in 0..n /\ i + 1 < j + 1
    BY <1>1, <1>3, <1>5
  <2>2. PICK k \in 1..n : k > i + 1 /\ News(s[k], p)
    BY <1>2, <2>1
  <2>3. k - 1 \in 1..(n - 1) /\ k - 1 > i /\ (k - 1) + 1 = k
    BY <1>1, <2>2
  <2>4. t[k - 1] = s[k]
    BY <1>1, <2>3
  <2> QED BY <2>2, <2>3, <2>4
<1>6. History(t, p, g)
  BY <1>1, <1>3, <1>4, <1>5 DEF History
<1>7. \A j \in 1..n : j - 1 \in 0..(n - 1) /\ (j - 1) + 1 = j
  BY <1>1
<1>8. n - 1 \in 0..(n - 1) /\ (n - 1) + 1 = n /\ 0 \in 0..(n - 1)
  BY <1>1
<1>9. g[n - 1] = h[n] /\ g[0] = h[1]
  BY <1>3, <1>8
<1> QED BY <1>1, <1>3, <1>6, <1>7, <1>9 DEF n, t

(* A uevent of another device makes no difference, wherever it is.         *)
Without(s, t, m, n, e) ==
    /\ Len(s) = m + n + 1 /\ DOMAIN s = 1..(m + n + 1) /\ s[m + 1] = e
    /\ Len(t) = m + n /\ DOMAIN t = 1..(m + n)
    /\ \A i \in 1..m : t[i] = s[i]
    /\ \A i \in (m + 1)..(m + n) : t[i] = s[i + 1]

Spliced(h, m, n) == [i \in 0..(m + n) |-> IF i \in 0..m THEN h[i] ELSE h[i + 1]]

SameHistory(s, t, p, h, g) ==
    /\ History(t, p, g) /\ g[Len(t)] = h[Len(s)]
    /\ \A j \in 0..Len(s) : \E k \in 0..Len(t) : g[k] = h[j]
    /\ Quiet(t, p) <=> Quiet(s, p)

LEMMA HistoryWithout ==
    ASSUME NEW m \in Nat, NEW n \in Nat, NEW e, NEW p, ~News(e, p),
           NEW s, NEW t, Without(s, t, m, n, e), NEW h, History(s, p, h)
    PROVE  SameHistory(s, t, p, h, Spliced(h, m, n))
<1>g. PICK g : g = Spliced(h, m, n)
  OBVIOUS
<1>0. SUFFICES SameHistory(s, t, p, h, g)
  BY <1>g
<1>1. /\ m \in Nat /\ n \in Nat /\ Len(s) = m + n + 1 /\ Len(t) = m + n
      /\ DOMAIN s = 1..(m + n + 1) /\ DOMAIN t = 1..(m + n)
      /\ \A i \in 1..m : t[i] = s[i]
      /\ \A i \in (m + 1)..(m + n) : t[i] = s[i + 1]
      /\ s[m + 1] = e
  BY DEF Without
<1>2. /\ h \in [0..(m + n + 1) -> OrAbsent(Uuids)]
      /\ \A i \in 1..(m + n + 1) : Turn(s[i], p, h[i - 1], h[i])
      /\ \A i, j \in 0..(m + n + 1) :
            i < j /\ h[i] # h[j] => \E k \in 1..(m + n + 1) : k > i /\ News(s[k], p)
  BY <1>1 DEF History
<1>3. /\ g \in [0..(m + n) -> OrAbsent(Uuids)]
      /\ \A i \in 0..m : g[i] = h[i] /\ i \in 0..(m + n) /\ i \in 0..(m + n + 1)
      /\ \A i \in (m + 1)..(m + n) : g[i] = h[i + 1] /\ i + 1 \in 0..(m + n + 1)
  <2>1. g = [i \in 0..(m + n) |-> IF i \in 0..m THEN h[i] ELSE h[i + 1]]
    BY <1>g DEF Spliced
  <2>2. \A i \in 0..(m + n) : i \in 0..(m + n + 1) /\ i + 1 \in 0..(m + n + 1)
    BY <1>1
  <2>3. \A i \in 0..m : i \in 0..(m + n)
    BY <1>1
  <2>4. \A i \in (m + 1)..(m + n) : i \in 0..(m + n) /\ i \notin 0..m
    BY <1>1
  <2>5. g \in [0..(m + n) -> OrAbsent(Uuids)]
    BY <1>2, <2>1, <2>2
  <2> QED BY <2>1, <2>2, <2>3, <2>4, <2>5
<1>4. h[m + 1] = h[m] /\ m \in 0..m
  <2>1. m + 1 \in 1..(m + n + 1) /\ (m + 1) - 1 = m
    BY <1>1
  <2> QED BY <1>1, <1>2, <2>1 DEF Turn
<1>5. ASSUME NEW i \in 1..(m + n)
      PROVE  Turn(t[i], p, g[i - 1], g[i])
  <2>1. CASE i \in 1..m
    <3>1. i \in 0..m /\ i - 1 \in 0..m /\ i \in 1..(m + n + 1)
      BY <1>1, <2>1
    <3> QED BY <1>1, <1>2, <1>3, <2>1, <3>1
  <2>2. CASE i \in (m + 1)..(m + n)
    <3>1. Turn(s[i + 1], p, h[i], h[i + 1])
      <4>1. i + 1 \in 1..(m + n + 1) /\ (i + 1) - 1 = i
        BY <1>1, <2>2
      <4> QED BY <1>2, <4>1
    <3>2. g[i - 1] = h[i]
      <4>1. CASE i = m + 1
        <5>1. i - 1 = m
          BY <1>1, <4>1
        <5> QED BY <1>3, <1>4, <4>1, <5>1
      <4>2. CASE i # m + 1
        <5>1. i - 1 \in (m + 1)..(m + n) /\ (i - 1) + 1 = i
          BY <1>1, <2>2, <4>2
        <5> QED BY <1>3, <5>1
      <4> QED BY <4>1, <4>2
    <3> QED BY <1>1, <1>3, <2>2, <3>1, <3>2
  <2> QED BY <1>1, <2>1, <2>2
<1>6. ASSUME NEW k \in 1..(m + n + 1), News(s[k], p)
      PROVE  \E l \in 1..(m + n) : News(t[l], p) /\ (IF k \in 1..m THEN l = k ELSE l + 1 = k)
  <2>1. CASE k \in 1..m
    BY <1>1, <1>6, <2>1
  <2>2. CASE k \notin 1..m
    <3>1. k # m + 1
      BY <1>1, <1>6
    <3>2. k - 1 \in (m + 1)..(m + n) /\ k - 1 \in 1..(m + n) /\ (k - 1) + 1 = k
      BY <1>1, <2>2, <3>1
    <3> QED BY <1>1, <1>6, <2>2, <3>2
  <2> QED BY <2>1, <2>2
<1>7. ASSUME NEW i \in 0..(m + n), NEW j \in 0..(m + n), i < j, g[i] # g[j]
      PROVE  \E l \in 1..(m + n) : l > i /\ News(t[l], p)
  <2> DEFINE x == IF i \in 0..m THEN i ELSE i + 1
             y == IF j \in 0..m THEN j ELSE j + 1
  <2>1. /\ x \in 0..(m + n + 1) /\ y \in 0..(m + n + 1) /\ x < y
        /\ x >= i /\ (x > m => x = i + 1) /\ (x <= m => x = i)
    BY <1>1, <1>7
  <2>2. g[i] = h[x] /\ g[j] = h[y]
    <3>1. /\ i \notin 0..m => i \in (m + 1)..(m + n)
          /\ j \notin 0..m => j \in (m + 1)..(m + n)
      BY <1>1
    <3> QED BY <1>3, <3>1
  <2> HIDE DEF x, y
  <2>3. PICK k \in 1..(m + n + 1) : k > x /\ News(s[k], p)
    BY <1>2, <1>7, <2>1, <2>2
  <2>4. PICK l \in 1..(m + n) : News(t[l], p) /\ (IF k \in 1..m THEN l = k ELSE l + 1 = k)
    BY <1>6, <2>3
  <2>5. l > i
    <3>1. CASE k \in 1..m
      BY <1>1, <2>1, <2>3, <2>4, <3>1
    <3>2. CASE k \notin 1..m
      <4>1. l + 1 = k /\ k > m /\ k # m + 1
        BY <1>1, <2>3, <2>4, <3>2
      <4> QED BY <1>1, <2>1, <2>3, <4>1
    <3> QED BY <3>1, <3>2
  <2> QED BY <2>4, <2>5
<1>8. History(t, p, g)
  BY <1>1, <1>3, <1>5, <1>7 DEF History
<1>9. g[m + n] = h[m + n + 1]
  <2>1. CASE n = 0
    BY <1>1, <1>3, <1>4, <2>1
  <2>2. CASE n # 0
    <3>1. m + n \in (m + 1)..(m + n)
      BY <1>1, <2>2
    <3> QED BY <1>3, <3>1
  <2> QED BY <2>1, <2>2
<1>10. ASSUME NEW j \in 0..(m + n + 1)
       PROVE  \E k \in 0..(m + n) : g[k] = h[j]
  <2>1. CASE j \in 0..m
    BY <1>3, <2>1
  <2>2. CASE j = m + 1
    BY <1>3, <1>4, <2>2
  <2>3. CASE j \notin 0..m /\ j # m + 1
    <3>1. j - 1 \in (m + 1)..(m + n) /\ j - 1 \in 0..(m + n) /\ (j - 1) + 1 = j
      BY <1>1, <2>3
    <3> QED BY <1>3, <3>1
  <2> QED BY <2>1, <2>2, <2>3
<1>11. Quiet(t, p) <=> Quiet(s, p)
  <2>1. ASSUME NEW l \in 1..(m + n)
        PROVE  \E k \in 1..(m + n + 1) : t[l] = s[k]
    <3>1. CASE l \in 1..m
      <4>1. l \in 1..(m + n + 1)
        BY <1>1, <3>1
      <4> QED BY <1>1, <3>1, <4>1
    <3>2. CASE l \in (m + 1)..(m + n)
      <4>1. l + 1 \in 1..(m + n + 1)
        BY <1>1, <3>2
      <4> QED BY <1>1, <3>2, <4>1
    <3> QED BY <1>1, <3>1, <3>2
  <2>2. \A k \in 1..(m + n + 1) : News(s[k], p) => \E l \in 1..(m + n) : News(t[l], p)
    BY <1>6
  <2>3. /\ Quiet(s, p) <=> \A k \in 1..(m + n + 1) : ~News(s[k], p)
        /\ Quiet(t, p) <=> \A l \in 1..(m + n) : ~News(t[l], p)
    BY <1>1 DEF Quiet, News
  <2> HIDE DEF News
  <2> QED BY <2>1, <2>2, <2>3
<1> QED BY <1>1, <1>8, <1>9, <1>10, <1>11 DEF SameHistory

-----------------------------------------------------------------------------
(* Where the path of p leads, z, once the uevents s are applied: to where  *)
(* they say.  It is enough that z is, or was, or will be the array, or     *)
(* that it is nothing and there is news to come.                           *)
Leads(z, s, p, h) == (\E j \in 0..Len(s) : h[j] = z) \/ (z = Absent /\ ~Quiet(s, p))

LEMMA LeadsInTheEnd ==
    ASSUME NEW p, NEW z, NEW h, Leads(z, <<>>, p, h)
    PROVE  z = h[0]
<1>1. Quiet(<<>>, p) /\ Len(<<>>) = 0
  BY DEF Quiet
<1> QED BY <1>1 DEF Leads

LEMMA LeadsWhenQuiet ==
    ASSUME NEW s \in Seq(Events), NEW p, NEW h, History(s, p, h), NEW z, Leads(z, s, p, h)
    PROVE  z = h[Len(s)] \/ ~Quiet(s, p)
<1> SUFFICES ASSUME NEW j \in 0..Len(s), h[j] = z, h[j] # h[Len(s)]
             PROVE  ~Quiet(s, p)
  BY DEF Leads
<1>1. Len(s) \in 0..Len(s) /\ j < Len(s)
  OBVIOUS
<1>2. \E k \in DOMAIN s : k > j /\ News(s[k], p)
  BY <1>1 DEF History
<1> QED BY <1>2 DEF Quiet, News

LEMMA LeadsMore ==
    ASSUME NEW s \in Seq(Events), NEW e \in Events, NEW p, NEW z, NEW h, NEW g,
           Leads(z, s, p, h), \A i \in 0..Len(s) : g[i] = h[i]
    PROVE  Leads(z, Append(s, e), p, g)
<1>1. /\ \A i \in 0..Len(s) : i \in 0..Len(Append(s, e))
      /\ \A i \in DOMAIN s : i \in DOMAIN Append(s, e) /\ Append(s, e)[i] = s[i]
  OBVIOUS
<1>2. Quiet(Append(s, e), p) => Quiet(s, p)
  BY <1>1 DEF Quiet
<1> QED BY <1>1, <1>2 DEF Leads

(* One more is applied.                                                    *)
LEMMA LeadsOn ==
    ASSUME machine \in Setups, NEW s \in Seq(Events), s # <<>>, NEW p, NEW h, History(s, p, h),
           NEW z, Leads(z, s, p, h),
           NEW e, e = Head(s), NEW y, y = LeadsTo(p, e, z), z # Freed, y # Freed,
           NEW g, g = [i \in 0..(Len(s) - 1) |-> h[i + 1]]
    PROVE  Leads(y, Tail(s), p, g)
<1> DEFINE t == Tail(s)
           n == Len(s)
<1>0. SUFFICES Leads(y, t, p, g)
  OBVIOUS
<1>1. /\ n \in Nat /\ n >= 1 /\ e = s[1] /\ DOMAIN s = 1..n /\ DOMAIN t = 1..(n - 1)
      /\ Len(t) = n - 1 /\ \A i \in 1..(n - 1) : t[i] = s[i + 1]
  OBVIOUS
<1>2. /\ \A j \in 1..n : j - 1 \in 0..Len(t) /\ g[j - 1] = h[j]
      /\ g[0] = h[1]
  BY HistoryBehind
<1> HIDE DEF t, n
<1>3. Turn(e, p, h[0], h[1])
  <2>1. 1 \in 1..n /\ 1 - 1 = 0
    BY <1>1
  <2> QED BY <1>1, <2>1 DEF History, n
<1>4. \A k \in 2..n : News(s[k], p) => ~Quiet(t, p)
  <2> SUFFICES ASSUME NEW k \in 2..n, News(s[k], p)
               PROVE  ~Quiet(t, p)
    OBVIOUS
  <2>1. k - 1 \in 1..(n - 1) /\ t[k - 1] = s[k]
    BY <1>1
  <2> QED BY <1>1, <2>1 DEF Quiet, News
<1>5. ASSUME NEW j \in 0..n, h[j] = z, j # 0
      PROVE  Leads(z, t, p, g)
  <2>1. j \in 1..n
    BY <1>1, <1>5
  <2> QED BY <1>2, <1>5, <2>1 DEF Leads
<1>6. 0 \in 0..Len(t) /\ g[0] = h[1] /\ 1 \in 0..n
  BY <1>1, <1>2
<1>7. CASE ~News(e, p)
  <2>1. y = z /\ h[1] = h[0]
    BY <1>3, <1>7 DEF LeadsTo, Turn
  <2>2. CASE z = Absent /\ ~Quiet(s, p)
    <3>1. PICK k \in 1..n : News(s[k], p)
      BY <1>1, <2>2 DEF Quiet, News
    <3>2. k \in 2..n
      BY <1>1, <1>7, <3>1
    <3> QED BY <1>4, <2>1, <2>2, <3>1, <3>2 DEF Leads
  <2>3. CASE h[0] = z
    BY <1>6, <2>1, <2>3 DEF Leads
  <2> QED BY <1>5, <2>1, <2>2, <2>3 DEF Leads, n, t
<1>8. CASE News(e, p)
  <2>1. y = h[1] => Leads(y, t, p, g)
    BY <1>6 DEF Leads
  <2>2. Absent \notin Uuids
    BY MachineShape
  <2>3. CASE z = h[0] /\ e.act # "remove" /\ e.array \in Uuids
    <3>1. y = h[1]
      BY <1>3, <1>8, <2>2, <2>3 DEF LeadsTo, Turn
    <3> QED BY <2>1, <3>1
  <2>4. CASE e.act = "remove" \/ e.array \notin Uuids
    <3>1. y = Absent
      BY <1>8, <2>4 DEF LeadsTo
    <3>2. h[1] = Absent
      <4>1. h[1] \in OrAbsent(Uuids)
        BY <1>6 DEF History, n
      <4> QED BY <1>3, <1>8, <2>4, <4>1 DEF Turn, OrAbsent
    <3> QED BY <2>1, <3>1, <3>2
  <2>5. CASE z # h[0] /\ e.act # "remove" /\ e.array \in Uuids /\ e.flag = "bogus"
    <3>1. h[1] = Absent
      BY <1>3, <1>8, <2>5 DEF Turn
    <3>2. z # Absent
      BY <1>8, <2>5 DEF LeadsTo
    <3>3. y = z \/ y = Absent
      BY <1>8, <2>5, <3>2 DEF LeadsTo
    <3>4. \E j \in 0..n : j # 0 /\ h[j] = z
      BY <2>5, <3>2 DEF Leads, n
    <3> QED BY <1>5, <2>1, <3>1, <3>3, <3>4
  <2>6. CASE z # h[0] /\ e.act # "remove" /\ e.array \in Uuids /\ e.flag # "bogus"
    <3>1. h[1] = e.array
      BY <1>3, <1>8, <2>6 DEF Turn
    <3>2. CASE z = Absent \/ z = e.array
      <4>1. y = e.array
        BY <1>8, <2>6, <3>2 DEF LeadsTo
      <4> QED BY <2>1, <3>1, <4>1
    <3>3. CASE z # Absent /\ z # e.array
      <4>1. y = Absent
        BY <1>8, <2>6, <3>3 DEF LeadsTo
      <4>2. PICK j \in 0..n : h[j] = z
        BY <3>3 DEF Leads, n
      <4>3. 1 < j /\ h[1] # h[j]
        BY <1>1, <2>6, <3>1, <3>3, <4>2
      <4>4. PICK k \in 1..n : k > 1 /\ News(s[k], p)
        BY <1>1, <1>6, <4>3 DEF History, n
      <4>5. k \in 2..n
        BY <1>1, <4>4
      <4> QED BY <1>4, <4>1, <4>4, <4>5 DEF Leads
    <3> QED BY <3>2, <3>3
  <2> QED BY <2>3, <2>4, <2>5, <2>6
<1> QED BY <1>7, <1>8 DEF t

(* ... and once what the main thread has at hand, t, is applied before     *)
(* that: a coldplug tells of the array as it was at one time.              *)
Coldplugged(t, p, a) ==
    \A i \in DOMAIN t :
        News(t[i], p) => t[i].act = "add" /\ t[i].flag = "none" /\ t[i].array = a

Ahead(t, p, z, s, h) ==
    IF Quiet(t, p) THEN Leads(z, s, p, h)
    ELSE \E j \in 0..Len(s) : /\ Coldplugged(t, p, h[j])
                              /\ z \in {h[j], Absent} \/ ~Quiet(s, p)

(* The array of p is x, its path leads to z, and c is how far start-up is. *)
ArrayIn(s, t, z, x, c, p) ==
    \E h : History(s, p, h) /\ h[Len(s)] = x /\ (c # "new" => Ahead(t, p, z, s, h))

LEMMA ArrayInNone ==
    ASSUME NEW p, NEW x \in OrAbsent(Uuids), NEW t, NEW z
    PROVE  ArrayIn(<<>>, t, z, x, "new", p)
<1> DEFINE h == [i \in 0..0 |-> x]
<1>1. History(<<>>, p, h) /\ h[0] = x
  BY HistoryOfNone
<1>2. Len(<<>>) = 0
  OBVIOUS
<1> HIDE DEF h
<1> QED BY <1>1, <1>2 DEF ArrayIn

LEMMA AheadMore ==
    ASSUME NEW s \in Seq(Events), NEW e \in Events, NEW p, NEW z, NEW t, NEW h, NEW g,
           Ahead(t, p, z, s, h), \A i \in 0..Len(s) : g[i] = h[i]
    PROVE  Ahead(t, p, z, Append(s, e), g)
<1>1. /\ \A i \in 0..Len(s) : i \in 0..Len(Append(s, e))
      /\ \A i \in DOMAIN s : i \in DOMAIN Append(s, e) /\ Append(s, e)[i] = s[i]
  OBVIOUS
<1>2. Quiet(Append(s, e), p) => Quiet(s, p)
  BY <1>1 DEF Quiet
<1>3. CASE Quiet(t, p)
  BY <1>3, LeadsMore DEF Ahead
<1>4. CASE ~Quiet(t, p)
  <2>1. PICK j \in 0..Len(s) : /\ Coldplugged(t, p, h[j])
                               /\ z \in {h[j], Absent} \/ ~Quiet(s, p)
    BY <1>4 DEF Ahead
  <2>2. g[j] = h[j] /\ j \in 0..Len(Append(s, e))
    BY <1>1
  <2> QED BY <1>2, <1>4, <2>1, <2>2 DEF Ahead
<1> QED BY <1>3, <1>4

LEMMA ArrayInMore ==
    ASSUME NEW s \in Seq(Events), NEW e \in Events, NEW p, NEW z, NEW t, NEW x, NEW c,
           ArrayIn(s, t, z, x, c, p), NEW w \in OrAbsent(Uuids), Turn(e, p, x, w)
    PROVE  ArrayIn(Append(s, e), t, z, w, c, p)
<1>1. PICK h : History(s, p, h) /\ h[Len(s)] = x /\ (c # "new" => Ahead(t, p, z, s, h))
  BY DEF ArrayIn
<1> DEFINE g == [i \in 0..(Len(s) + 1) |-> IF i \in 0..Len(s) THEN h[i] ELSE w]
<1>2. /\ History(Append(s, e), p, g)
      /\ \A i \in 0..Len(s) : g[i] = h[i]
      /\ g[Len(Append(s, e))] = w
  BY <1>1, HistoryAppended
<1> HIDE DEF g
<1>3. c # "new" => Ahead(t, p, z, Append(s, e), g)
  BY <1>1, <1>2, AheadMore
<1> QED BY <1>2, <1>3 DEF ArrayIn

LEMMA ArrayInLess ==
    ASSUME NEW m \in Nat, NEW n \in Nat, NEW e, NEW p, ~News(e, p),
           NEW s, NEW r, Without(s, r, m, n, e),
           NEW z, NEW t, NEW x, NEW c, ArrayIn(s, t, z, x, c, p)
    PROVE  ArrayIn(r, t, z, x, c, p)
<1>1. PICK h : History(s, p, h) /\ h[Len(s)] = x /\ (c # "new" => Ahead(t, p, z, s, h))
  BY DEF ArrayIn
<1>g. PICK g : g = Spliced(h, m, n)
  OBVIOUS
<1>2. /\ History(r, p, g) /\ g[Len(r)] = h[Len(s)]
      /\ \A j \in 0..Len(s) : \E k \in 0..Len(r) : g[k] = h[j]
      /\ Quiet(r, p) <=> Quiet(s, p)
  BY <1>1, <1>g, HistoryWithout DEF SameHistory
<1>3. Ahead(t, p, z, s, h) => Ahead(t, p, z, r, g)
  <2> SUFFICES ASSUME Ahead(t, p, z, s, h)
               PROVE  Ahead(t, p, z, r, g)
    OBVIOUS
  <2>1. CASE Quiet(t, p)
    BY <1>2, <2>1 DEF Ahead, Leads
  <2>2. CASE ~Quiet(t, p)
    <3>1. PICK j \in 0..Len(s) : Coldplugged(t, p, h[j]) /\ (z \in {h[j], Absent} \/ ~Quiet(s, p))
      BY <2>2 DEF Ahead
    <3>2. PICK k \in 0..Len(r) : g[k] = h[j]
      BY <1>2
    <3> QED BY <1>2, <2>2, <3>1, <3>2 DEF Ahead
  <2> QED BY <2>1, <2>2
<1> QED BY <1>1, <1>2, <1>3 DEF ArrayIn

LEMMA ArrayInWithout ==
    ASSUME NEW a \in Seq(Events), NEW e \in Events, NEW d \in Seq(Events), NEW p, ~News(e, p),
           NEW z, NEW t, NEW x, NEW c, ArrayIn(a \o (<<e>> \o d), t, z, x, c, p)
    PROVE  ArrayIn(a \o d, t, z, x, c, p)
<1> DEFINE s == a \o (<<e>> \o d)
           r == a \o d
           m == Len(a)
           n == Len(d)
<1>1. m \in Nat /\ n \in Nat
  OBVIOUS
<1>2. Without(s, r, m, n, e)
  BY DEF Without
<1>3. ArrayIn(s, t, z, x, c, p)
  OBVIOUS
<1>4. SUFFICES ArrayIn(r, t, z, x, c, p)
  OBVIOUS
<1> HIDE DEF s, r, m, n
<1> QED BY <1>1, <1>2, <1>3, ArrayInLess

LEMMA ArrayInApplied ==
    ASSUME machine \in Setups, NEW s \in Seq(Events), s # <<>>, NEW p, NEW z, NEW x, NEW c,
           c # "new", ArrayIn(s, <<>>, z, x, c, p), NEW e, e = Head(s),
           NEW y, y = LeadsTo(p, e, z), z # Freed, y # Freed
    PROVE  ArrayIn(Tail(s), <<>>, y, x, c, p)
<1>1. PICK h : History(s, p, h) /\ h[Len(s)] = x /\ Ahead(<<>>, p, z, s, h)
  BY DEF ArrayIn
<1>2. Quiet(<<>>, p)
  BY DEF Quiet
<1> DEFINE g == [i \in 0..(Len(s) - 1) |-> h[i + 1]]
<1>3. History(Tail(s), p, g) /\ g[Len(Tail(s))] = h[Len(s)]
  BY <1>1, HistoryBehind
<1>4. Leads(z, s, p, h)
  BY <1>1, <1>2 DEF Ahead
<1>5. Leads(y, Tail(s), p, g)
  BY <1>1, <1>4, LeadsOn
<1> HIDE DEF g
<1> QED BY <1>1, <1>2, <1>3, <1>5 DEF ArrayIn, Ahead

LEMMA ArrayInDone ==
    ASSUME NEW s \in Seq(Events), NEW t \in Seq(Events), t # <<>>, NEW p, NEW z, NEW x, NEW c,
           c # "new", ArrayIn(s, t, z, x, c, p), NEW e, e = Head(t),
           NEW y, y = LeadsTo(p, e, z), z # Freed, Absent \notin Uuids
    PROVE  ArrayIn(s, Tail(t), y, x, c, p)
<1> DEFINE r == Tail(t)
<1>0. SUFFICES ArrayIn(s, r, y, x, c, p)
  OBVIOUS
<1>1. PICK h : History(s, p, h) /\ h[Len(s)] = x /\ Ahead(t, p, z, s, h)
  BY DEF ArrayIn
<1>2. /\ \A i \in DOMAIN r : i + 1 \in DOMAIN t /\ r[i] = t[i + 1]
      /\ \A i \in DOMAIN t : i # 1 => i - 1 \in DOMAIN r /\ r[i - 1] = t[i]
      /\ 1 \in DOMAIN t /\ t[1] = e
  OBVIOUS
<1> HIDE DEF r
<1>3. Quiet(t, p) <=> ~News(e, p) /\ Quiet(r, p)
  BY <1>2 DEF Quiet, News
<1>4. \A a : Coldplugged(t, p, a) => Coldplugged(r, p, a)
  BY <1>2 DEF Coldplugged
<1>5. CASE ~News(e, p)
  <2>1. y = z
    BY <1>5 DEF LeadsTo
  <2>2. Ahead(r, p, y, s, h)
    BY <1>1, <1>3, <1>4, <1>5, <2>1 DEF Ahead
  <2> QED BY <1>1, <2>2 DEF ArrayIn
<1>6. CASE News(e, p)
  <2>1. PICK j \in 0..Len(s) : Coldplugged(t, p, h[j]) /\ (z \in {h[j], Absent} \/ ~Quiet(s, p))
    BY <1>1, <1>3, <1>6 DEF Ahead
  <2>2. e.act = "add" /\ e.flag = "none" /\ e.array = h[j]
    BY <1>2, <1>6, <2>1 DEF Coldplugged
  <2>3. h[j] \in OrAbsent(Uuids)
    BY <1>1 DEF History
  <2>4. y = h[j] \/ (y = Absent /\ ~Quiet(s, p))
    <3>1. CASE h[j] \notin Uuids
      BY <1>6, <2>2, <2>3, <3>1 DEF LeadsTo, OrAbsent
    <3>2. CASE h[j] \in Uuids
      BY <1>6, <2>1, <2>2, <3>2 DEF LeadsTo
    <3> QED BY <3>1, <3>2
  <2>5. CASE Quiet(r, p)
    <3>1. Leads(y, s, p, h)
      BY <2>4 DEF Leads
    <3> QED BY <1>1, <2>5, <3>1 DEF ArrayIn, Ahead
  <2>6. CASE ~Quiet(r, p)
    <3>1. Ahead(r, p, y, s, h)
      BY <1>4, <2>1, <2>4, <2>6 DEF Ahead
    <3> QED BY <1>1, <3>1 DEF ArrayIn
  <2> QED BY <2>5, <2>6
<1> QED BY <1>5, <1>6

(* The main thread is given more to do.                                    *)
LEMMA ArrayInBegun ==
    ASSUME NEW s \in Seq(Events), NEW t, NEW p, NEW z, NEW x, NEW c, NEW d,
           ArrayIn(s, <<>>, z, x, c, p), Coldplugged(t, p, x),
           c = "new" => z = Absent /\ (Quiet(t, p) => x = Absent)
    PROVE  ArrayIn(s, t, z, x, d, p)
<1>1. PICK h : /\ History(s, p, h) /\ h[Len(s)] = x
               /\ c # "new" => Ahead(<<>>, p, z, s, h)
  BY DEF ArrayIn
<1>2. Quiet(<<>>, p) /\ Len(s) \in 0..Len(s)
  BY DEF Quiet
<1>3. c # "new" => Leads(z, s, p, h) /\ (z = x \/ ~Quiet(s, p))
  BY <1>1, <1>2, LeadsWhenQuiet DEF Ahead
<1>4. CASE Quiet(t, p)
  <2>1. Leads(z, s, p, h)
    BY <1>1, <1>2, <1>3, <1>4 DEF Leads
  <2> QED BY <1>1, <1>4, <2>1 DEF ArrayIn, Ahead
<1>5. CASE ~Quiet(t, p)
  <2>1. Coldplugged(t, p, h[Len(s)]) /\ (z \in {h[Len(s)], Absent} \/ ~Quiet(s, p))
    BY <1>1, <1>3
  <2> QED BY <1>1, <1>2, <1>5, <2>1 DEF ArrayIn, Ahead
<1> QED BY <1>4, <1>5

-----------------------------------------------------------------------------
(* The world: what runs an array is there, and each change of an array is  *)
(* reported, by one uevent or two.                                         *)
Assembled == \A p \in Paths : array[p] # Absent => p \in present

SameDevice(p) == (p \in present' <=> p \in present) /\ label'[p] = label[p]

OneTold(e) ==
    /\ e \in Events /\ e.act # "refresh" /\ e.path \in Devices /\ Emit(<<e>>)
    /\ \A p \in Paths : Turn(e, p, array[p], array'[p])
    /\ \A p \in Paths \ {e.path} : SameDevice(p)

TwoTold(e, f) ==
    /\ e \in Events /\ e.act # "refresh" /\ e.path \in Devices
    /\ f \in Events /\ f.act # "refresh" /\ f.path \in Devices /\ Emit(<<e, f>>)
    /\ \A p \in Paths : \E v \in OrAbsent(Uuids) :
          Turn(e, p, array[p], v) /\ Turn(f, p, v, array'[p])
    /\ \A p \in Paths \ {e.path, f.path} : SameDevice(p)

ArraysReported == Assembled' /\ ((\E e : OneTold(e)) \/ (\E e, f : TwoTold(e, f)))

LEMMA PlugTold ==
    ASSUME machine \in Setups, WorldType, WorldShape, Assembled, NEW p \in Devices, Plug(p)
    PROVE  ArraysReported
<1> DEFINE a == Snapshot("add", p)
           d == [a EXCEPT !.flag = "disabled"]
           c == Snapshot("change", p)
           o == Snapshot("change", On(p))
<1>1. /\ p \in Paths /\ p \notin present /\ present' = present \cup {p}
      /\ On(p) \in OrAbsent(present) /\ label' = label /\ array' = array
      /\ present \subseteq Paths /\ present \subseteq Devices
      /\ array \in [Paths -> OrAbsent(Uuids)] /\ Absent \in OrAbsent(Uuids)
  BY MachineShape DEF Plug, WorldType, OrAbsent
<1>2. /\ Kind(p) = "dm" => Emit(<<d, c>>)
      /\ Kind(p) = "partition" => Emit(<<a, o>>)
      /\ Kind(p) # "dm" /\ Kind(p) # "partition" => Emit(<<a>>)
  BY DEF Plug, WithParent, Snapshot
<1>3. array[p] = Absent
  BY <1>1 DEF Assembled
<1>4. /\ a \in Events /\ a.act = "add" /\ a.path = p /\ a.flag = "none" /\ a.array = Absent
      /\ c \in Events /\ c.act = "change" /\ c.path = p /\ c.flag = "none" /\ c.array = Absent
  BY <1>1, <1>3, SnapshotShape
<1>5. /\ d \in Events /\ d.act = "add" /\ d.path = p /\ d.flag = "disabled" /\ d.array = Absent
  BY <1>4 DEF Events
<1> HIDE DEF a, d, c
<1>6. Assembled'
  BY <1>1 DEF Assembled
<1>7. /\ \A q \in Paths : array'[q] = array[q] /\ array[q] \in OrAbsent(Uuids)
      /\ \A q \in Paths \ {p} : SameDevice(q)
  BY <1>1 DEF SameDevice
<1>8. \A e, q : e.path # q => \A v : Turn(e, q, v, v)
  BY DEF Turn, News
<1>9. CASE Kind(p) = "dm"
  <2>1. \A q \in Paths : Turn(d, q, array[q], array[q]) /\ Turn(c, q, array[q], array[q])
    BY <1>3, <1>4, <1>5, <1>8 DEF Turn
  <2>2. \A q \in Paths \ {d.path, c.path} : SameDevice(q)
    BY <1>4, <1>5, <1>7
  <2>3. TwoTold(d, c)
    BY <1>2, <1>4, <1>5, <1>7, <1>9, <2>1, <2>2 DEF TwoTold
  <2> QED BY <1>6, <2>3 DEF ArraysReported
<1>10. CASE Kind(p) = "partition"
  <2>1. On(p) \in present /\ On(p) \in Paths /\ On(p) \in Devices
    BY <1>1, <1>10, MachineShape DEF OrAbsent
  <2>2. o \in Events /\ o.act = "change" /\ o.path = On(p) /\ o.flag = "none" /\ o.array = array[On(p)]
    BY <2>1, SnapshotShape
  <2> HIDE DEF o
  <2>3. \A q \in Paths : Turn(a, q, array[q], array[q]) /\ Turn(o, q, array[q], array[q])
    BY <1>3, <1>4, <1>8, <2>2 DEF Turn
  <2>4. \A q \in Paths \ {a.path, o.path} : SameDevice(q)
    BY <1>4, <1>7
  <2>5. TwoTold(a, o)
    BY <1>2, <1>4, <1>7, <1>10, <2>1, <2>2, <2>3, <2>4 DEF TwoTold
  <2> QED BY <1>6, <2>5 DEF ArraysReported
<1>11. CASE Kind(p) # "dm" /\ Kind(p) # "partition"
  <2>1. \A q \in Paths : Turn(a, q, array[q], array[q])
    BY <1>3, <1>4, <1>8 DEF Turn
  <2>2. OneTold(a)
    BY <1>2, <1>4, <1>7, <1>11, <2>1 DEF OneTold
  <2> QED BY <1>6, <2>2 DEF ArraysReported
<1> QED BY <1>9, <1>10, <1>11

LEMMA UnplugTold ==
    ASSUME machine \in Setups, WorldType, WorldShape, Assembled, NEW p \in Devices, Unplug(p)
    PROVE  ArraysReported
<1> DEFINE r == Snapshot("remove", p)
           o == Snapshot("change", On(p))
<1>1. /\ p \in Paths /\ p \in present /\ present' = present \ {p} /\ label' = label /\ On(p) # p
      /\ array' = [array EXCEPT ![p] = Absent]
      /\ present \subseteq Paths /\ present \subseteq Devices
      /\ array \in [Paths -> OrAbsent(Uuids)] /\ Absent \in OrAbsent(Uuids)
  BY MachineShape DEF Unplug, WorldType, OrAbsent
<1>2. /\ Kind(p) = "partition" => Emit(<<r, o>>)
      /\ Kind(p) # "partition" => Emit(<<r>>)
  BY DEF Unplug, WithParent, Snapshot
<1>3. r \in Events /\ r.act = "remove" /\ r.path = p
  BY <1>1, SnapshotShape
<1> HIDE DEF r
<1>4. /\ array'[p] = Absent /\ \A q \in Paths \ {p} : array'[q] = array[q]
      /\ \A q \in Paths : array'[q] \in OrAbsent(Uuids)
      /\ \A q \in Paths \ {p} : SameDevice(q)
  BY <1>1 DEF SameDevice
<1>5. Assembled'
  BY <1>1, <1>4 DEF Assembled
<1>6. \A e, q : e.path # q => \A v : Turn(e, q, v, v)
  BY DEF Turn, News
<1>7. \A q \in Paths : Turn(r, q, array[q], array'[q])
  BY <1>3, <1>4, <1>6 DEF Turn, News
<1>8. CASE Kind(p) = "partition"
  <2>1. On(p) \in present /\ On(p) \in Paths /\ On(p) \in Devices /\ On(p) # p
    BY <1>1, <1>8, MachineShape DEF OrAbsent, WorldShape
  <2>2. o \in Events /\ o.act = "change" /\ o.path = On(p) /\ o.flag = "none" /\ o.array = array[On(p)]
    BY <2>1, SnapshotShape
  <2> HIDE DEF o
  <2>3. \A q \in Paths : Turn(o, q, array'[q], array'[q])
    <3>1. array'[On(p)] = array[On(p)]
      BY <1>4, <2>1
    <3>2. Turn(o, On(p), array'[On(p)], array'[On(p)])
      BY <2>2, <3>1 DEF Turn
    <3> QED BY <1>6, <2>2, <3>2
  <2>4. \A q \in Paths \ {r.path, o.path} : SameDevice(q)
    BY <1>3, <1>4
  <2>5. TwoTold(r, o)
    BY <1>2, <1>3, <1>4, <1>7, <1>8, <2>1, <2>2, <2>3, <2>4 DEF TwoTold
  <2> QED BY <1>5, <2>5 DEF ArraysReported
<1>9. CASE Kind(p) # "partition"
  <2>1. OneTold(r)
    BY <1>2, <1>3, <1>4, <1>7, <1>9 DEF OneTold
  <2> QED BY <1>5, <2>1 DEF ArraysReported
<1> QED BY <1>8, <1>9

LEMMA OtherTold ==
    ASSUME machine \in Setups, WorldType, WorldShape, Assembled, NEW p \in Devices,
           \/ Identified(p)
           \/ \E lab \in Labels : Relabel(p, lab) \/ MediaChange(p, lab)
           \/ \E u \in Uuids : Assemble(p, u)
           \/ \E u \in OrAbsent(Uuids) \cup {Bogus} : StopArray(p, u)
    PROVE  ArraysReported
<1> DEFINE c == Snapshot("change", p)
<1>1. /\ p \in Paths /\ array \in [Paths -> OrAbsent(Uuids)] /\ Absent \in OrAbsent(Uuids)
      /\ label \in [Paths -> Labels] /\ Absent \notin Uuids
  BY MachineShape, TypesOfArrays DEF WorldType, OrAbsent
<1>2. c \in Events /\ c.act = "change" /\ c.path = p /\ c.flag = "none" /\ c.array = array[p]
  BY <1>1, SnapshotShape
<1> HIDE DEF c
<1>3. ASSUME NEW e \in Events, e.act = "change", e.path = p, Emit(<<e>>), p \in present,
             present' = present, array' \in [Paths -> OrAbsent(Uuids)],
             Turn(e, p, array[p], array'[p]),
             \A q \in Paths \ {p} : array'[q] = array[q] /\ label'[q] = label[q]
      PROVE  ArraysReported
  <2>1. \A q \in Paths \ {p} : Turn(e, q, array[q], array'[q]) /\ SameDevice(q)
    BY <1>3 DEF Turn, News, SameDevice
  <2>2. OneTold(e)
    BY <1>3, <2>1 DEF OneTold
  <2>3. Assembled'
    BY <1>3 DEF Assembled
  <2> QED BY <2>2, <2>3 DEF ArraysReported
<1>4. CASE Identified(p)
  <2>1. /\ Emit(<<c>>) /\ p \in present /\ present' = present /\ array' = array /\ label' = label
    BY <1>4 DEF Identified, c
  <2>2. Turn(c, p, array[p], array'[p])
    BY <1>2, <2>1 DEF Turn
  <2> QED BY <1>1, <1>2, <1>3, <2>1, <2>2
<1>5. ASSUME NEW lab \in Labels, NEW flag \in {"none", "media"},
             p \in present, present' = present, label' = [label EXCEPT ![p] = lab], array' = array,
             NEW e, e = [c EXCEPT !.label = lab, !.flag = flag], Emit(<<e>>)
      PROVE  ArraysReported
  <2>1. e \in Events /\ e.act = "change" /\ e.path = p /\ e.flag = flag /\ e.array = array[p]
    BY <1>2, <1>5 DEF Events
  <2>2. Turn(e, p, array[p], array'[p])
    BY <1>5, <2>1 DEF Turn
  <2>3. \A q \in Paths \ {p} : array'[q] = array[q] /\ label'[q] = label[q]
    BY <1>1, <1>5
  <2> QED BY <1>1, <1>3, <1>5, <2>1, <2>2, <2>3
<1>6. ASSUME NEW u \in OrAbsent(Uuids) \cup {Bogus}, NEW x \in OrAbsent(Uuids),
             NEW flag \in {"none", "bogus"},
             p \in present, present' = present, label' = label,
             array' = [array EXCEPT ![p] = x],
             IF flag = "bogus" THEN x = Absent /\ array[p] # Absent /\ u # array[p]
             ELSE x = u /\ array[p] = Absent,
             NEW e, e = [c EXCEPT !.array = u, !.flag = flag], Emit(<<e>>)
      PROVE  ArraysReported
  <2>1. e \in Events /\ e.act = "change" /\ e.path = p /\ e.flag = flag /\ e.array = u
    BY <1>2, <1>6 DEF Events
  <2>2. array'[p] = x /\ \A q \in Paths \ {p} : array'[q] = array[q] /\ label'[q] = label[q]
    BY <1>1, <1>6
  <2>3. Turn(e, p, array[p], array'[p])
    BY <1>6, <2>1, <2>2 DEF Turn, News
  <2>4. array' \in [Paths -> OrAbsent(Uuids)]
    BY <1>1, <1>6
  <2> QED BY <1>3, <1>6, <2>1, <2>2, <2>3, <2>4
<1>7. ASSUME NEW lab \in Labels, Relabel(p, lab)
      PROVE  ArraysReported
  <2>1. [c EXCEPT !.label = lab, !.flag = "none"] = [c EXCEPT !.label = lab]
    BY <1>2 DEF Events
  <2>2. /\ p \in present /\ present' = present /\ label' = [label EXCEPT ![p] = lab]
        /\ array' = array /\ Emit(<<[c EXCEPT !.label = lab]>>)
    BY <1>7 DEF Relabel, c
  <2> QED BY <1>5, <1>7, <2>1, <2>2
<1>8. ASSUME NEW lab \in Labels, MediaChange(p, lab)
      PROVE  ArraysReported
  <2>1. /\ p \in present /\ present' = present /\ label' = [label EXCEPT ![p] = lab]
        /\ array' = array /\ Emit(<<[c EXCEPT !.label = lab, !.flag = "media"]>>)
    BY <1>8 DEF MediaChange, c
  <2> QED BY <1>5, <1>8, <2>1
<1>9. ASSUME NEW u \in Uuids, Assemble(p, u)
      PROVE  ArraysReported
  <2>1. [c EXCEPT !.array = u, !.flag = "none"] = [c EXCEPT !.array = u]
    BY <1>2 DEF Events
  <2>2. /\ p \in present /\ present' = present /\ label' = label /\ array[p] = Absent
        /\ array' = [array EXCEPT ![p] = u] /\ Emit(<<[c EXCEPT !.array = u]>>)
    BY <1>9 DEF Assemble, c
  <2>3. u \in OrAbsent(Uuids)
    BY DEF OrAbsent
  <2> QED BY <1>6, <1>9, <2>1, <2>2, <2>3
<1>10. ASSUME NEW u \in OrAbsent(Uuids) \cup {Bogus}, StopArray(p, u)
       PROVE  ArraysReported
  <2>1. /\ p \in present /\ present' = present /\ label' = label
        /\ array[p] # Absent /\ u # array[p]
        /\ array' = [array EXCEPT ![p] = Absent]
        /\ Emit(<<[c EXCEPT !.array = u, !.flag = "bogus"]>>)
    BY <1>10 DEF StopArray, c
  <2> QED BY <1>1, <1>6, <1>10, <2>1
<1> QED BY <1>4, <1>7, <1>8, <1>9, <1>10

LEMMA WorldTold ==
    ASSUME machine \in Setups, WorldType, WorldShape, Assembled, World
    PROVE  ArraysReported
BY PlugTold, UnplugTold, OtherTold DEF World

-----------------------------------------------------------------------------
(* What holds of each device: if it shares no array, the news on their way *)
(* lead its path to the array it runs; no other array than that of its     *)
(* path has it as a member; and when there is no news, its membership is   *)
(* as its label says.                                                      *)
WatchedBy(p) == \A w \in Uuids : RunBy(tables, w) = p => (Watched(tables, w) <=> p \in present)

Carried(p) ==
    /\ tables.memberPath[p] = IF p \in present /\ label[p] \in Uuids THEN label[p] ELSE Absent
    /\ Alone(p) => WatchedBy(p)

PathLeads(p) == ArrayIn(posted \o bus, todo, tables.arrayPath[p], array[p], pc, p)

DeviceArrays(p) ==
    /\ Alone(p) => PathLeads(p)
    /\ MembershipKnown(tables, p)
    /\ pc # "new" /\ QuietAll(p) => Carried(p)

PathsKnown(s) == \A i \in DOMAIN s : s[i].path \in Devices

RInv == /\ IInv /\ ArraysFit(tables) /\ Assembled
        /\ PathsKnown(bus) /\ PathsKnown(posted) /\ PathsKnown(todo)
        /\ \A p \in Paths \ slipped : DeviceArrays(p)

RNext == /\ machine' = machine /\ ArraysFit(tables') /\ Assembled'
         /\ PathsKnown(bus') /\ PathsKnown(posted') /\ PathsKnown(todo')
         /\ \A p \in Paths \ slipped' : DeviceArrays(p)'

LEMMA AloneSame ==
    ASSUME machine' = machine
    PROVE  \A p : Alone(p)' <=> Alone(p)
BY DEF Alone, Kind

LEMMA ArraysNext ==
    ASSUME RNext, IInv'
    PROVE  RInv'
<1>1. Devices' = Devices /\ \A q : Kind(q)' = Kind(q) /\ (Alone(q)' <=> Alone(q))
  BY AloneSame DEF RNext, Devices, Kind
<1>2. ArraysFit(tables)'
  BY <1>1 DEF RNext, ArraysFit, ArraysOK, PointersOK, InUse, LedTo
<1>3. (PathsKnown(bus) /\ PathsKnown(posted) /\ PathsKnown(todo))'
  BY <1>1 DEF RNext, PathsKnown
<1>4. (\A p \in Paths \ slipped : DeviceArrays(p))'
  BY DEF RNext
<1> QED BY <1>2, <1>3, <1>4 DEF RInv, RNext

LEMMA Queued ==
    ASSUME RInv
    PROVE  /\ machine \in Setups /\ WorldType /\ WorldShape /\ tables \in Tables /\ TablesOf(tables)
           /\ bus \in Seq(Events) /\ posted \in Seq(Events) /\ todo \in Seq(Events)
           /\ posted \o bus \in Seq(Events)
           /\ Devices \subseteq Paths /\ present \subseteq Paths /\ Absent \notin Paths
           /\ Absent \notin Uuids /\ Freed \notin Uuids \cup {Absent}
           /\ \A p \in Paths : /\ Alone(p) => tables.arrayPath[p] # Freed
                             /\ array[p] \in OrAbsent(Uuids)
<1>1. /\ machine \in Setups /\ WorldType /\ WorldShape /\ tables \in Tables /\ TablesOf(tables)
      /\ bus \in Seq(Events) /\ posted \in Seq(Events) /\ todo \in Seq(Events)
      /\ Devices \subseteq Paths /\ present \subseteq Paths /\ Absent \notin Paths
  BY Typed DEF RInv
<1>2. posted \o bus \in Seq(Events)
  BY <1>1
<1>3. Absent \notin Uuids /\ Freed \notin Uuids \cup {Absent}
  BY <1>1, MachineShape
<1>4. \A p \in Paths : Alone(p) => tables.arrayPath[p] # Freed
  BY <1>3 DEF RInv, ArraysFit, ArraysOK
<1>5. \A p \in Paths : array[p] \in OrAbsent(Uuids)
  BY <1>1 DEF WorldType
<1> QED BY <1>1, <1>2, <1>3, <1>4, <1>5

(* Nothing changes but what the tables say of other things.                *)
LEMMA ArraysKept ==
    ASSUME RInv, UNCHANGED <<machine, present, label, array, bus, posted, todo, slipped>>,
           ArraysAlone(tables, tables'), pc' = "new" <=> pc = "new"
    PROVE  RNext
<1>1. /\ ArraysFit(tables') /\ \A w : RunBy(tables', w) = RunBy(tables, w)
      /\ \A w : Watched(tables', w) <=> Watched(tables, w)
      /\ \A q : MembershipKnown(tables', q) <=> MembershipKnown(tables, q)
  BY ArraysAsBefore DEF RInv
<1>2. tables'.arrayPath = tables.arrayPath /\ tables'.memberPath = tables.memberPath
  BY DEF ArraysAlone
<1>3. \A p : QuietAll(p)' <=> QuietAll(p)
  BY DEF QuietAll, QuietQueue
<1>a. \A p : Alone(p)' <=> Alone(p)
  BY AloneSame
<1>4. \A p : Carried(p)' <=> Carried(p)
  BY <1>1, <1>2, <1>a DEF Carried, WatchedBy
<1>5. \A s, t, z, x, p : ArrayIn(s, t, z, x, pc', p) <=> ArrayIn(s, t, z, x, pc, p)
  BY DEF ArrayIn
<1>6. ASSUME NEW p, DeviceArrays(p)
      PROVE  DeviceArrays(p)'
  <2>1. Alone(p) => PathLeads(p)'
    BY <1>2, <1>5, <1>6 DEF DeviceArrays, PathLeads
  <2>2. MembershipKnown(tables', p)
    BY <1>1, <1>6 DEF DeviceArrays
  <2>3. pc' # "new" /\ QuietAll(p)' => Carried(p)'
    BY <1>3, <1>4, <1>6 DEF DeviceArrays
  <2> QED BY <1>a, <2>1, <2>2, <2>3 DEF DeviceArrays
<1>7. Assembled'
  BY DEF RInv, Assembled
<1> QED BY <1>1, <1>6, <1>7 DEF RNext, RInv

(* The world changes.  What the monitor thread hears goes into the queue;  *)
(* before coldplug there is nothing in the tables; later, what it does not *)
(* hear slips.                                                             *)
LEMMA QueuedLast ==
    ASSUME NEW S, NEW a \in Seq(S), NEW b \in Seq(S), NEW e \in S
    PROVE  a \o (b \o <<e>>) = Append(a \o b, e) /\ b \o <<e>> = Append(b, e)
<1> DEFINE c == a \o b
<1>1. c \in Seq(S) /\ b \o <<e>> = Append(b, e)
  OBVIOUS
<1>2. a \o (b \o <<e>>) = c \o <<e>>
  BY InOrder
<1> HIDE DEF c
<1>3. c \o <<e>> = Append(c, e)
  BY <1>1
<1> QED BY <1>1, <1>2, <1>3 DEF c

Longer(b, e, f, s) == s = b \o <<e, f>>

LEMMA QueuedTwice ==
    ASSUME NEW b \in Seq(Events), NEW e \in Events, NEW f \in Events,
           NEW s, Longer(b, e, f, s), NEW p, e.act # "refresh", f.act # "refresh"
    PROVE  Quiet(s, p) => Quiet(b, p) /\ e.path # p /\ f.path # p
<1> HIDE DEF Events
<1> DEFINE c == Append(b, e)
<1>1. c \in Seq(Events) /\ s = Append(c, f)
  BY DEF Longer
<1>2. Quiet(c, p) <=> Quiet(b, p) /\ (e.path = p => e.act = "refresh")
  BY AppendSays
<1> HIDE DEF c
<1>3. Quiet(Append(c, f), p) <=> Quiet(c, p) /\ (f.path = p => f.act = "refresh")
  BY <1>1, AppendSays
<1> QED BY <1>1, <1>2, <1>3

LEMMA CarriedOn ==
    ASSUME RInv, NEW p \in Paths, DeviceArrays(p), SameDevice(p), QuietAll(p)' => QuietAll(p),
           UNCHANGED <<machine, tables, pc>>
    PROVE  pc' # "new" /\ QuietAll(p)' => Carried(p)'
<1>1. pc' # "new" /\ QuietAll(p)' => Carried(p)
  BY DEF DeviceArrays
<1>2. Carried(p) => Carried(p)'
  BY AloneSame DEF Carried, WatchedBy, SameDevice
<1> QED BY <1>1, <1>2

LEMMA HeardOfOne ==
    ASSUME RInv, NEW e, OneTold(e), bus' = bus \o <<e>>, UNCHANGED <<posted, todo, tables, pc>>,
           NEW p \in Paths, DeviceArrays(p), array'[p] \in OrAbsent(Uuids)
    PROVE  DeviceArrays(p)'
<1>1. /\ bus \in Seq(Events) /\ posted \in Seq(Events) /\ posted \o bus \in Seq(Events)
      /\ e \in Events /\ e.act # "refresh" /\ Turn(e, p, array[p], array'[p])
  BY Queued DEF OneTold
<1> HIDE DEF Events
<1>2. posted \o (bus \o <<e>>) = Append(posted \o bus, e) /\ bus \o <<e>> = Append(bus, e)
  BY <1>1, QueuedLast
<1>3. machine' = machine /\ (Alone(p)' <=> Alone(p))
  <2>1. machine' = machine
    BY DEF OneTold, Emit
  <2> QED BY <2>1, AloneSame
<1>4. ASSUME Alone(p)
      PROVE  PathLeads(p)'
  <2>1. ArrayIn(posted \o bus, todo, tables.arrayPath[p], array[p], pc, p)
    BY <1>4 DEF DeviceArrays, PathLeads
  <2>2. ArrayIn(Append(posted \o bus, e), todo, tables.arrayPath[p], array'[p], pc, p)
    BY <1>1, <2>1, ArrayInMore
  <2> QED BY <1>2, <2>2 DEF PathLeads
<1>6. Quiet(bus', p) => Quiet(bus, p) /\ e.path # p
  <2>1. Quiet(Append(bus, e), p) <=> Quiet(bus, p) /\ (e.path = p => e.act = "refresh")
    BY <1>1, AppendSays
  <2>2. bus' = Append(bus, e)
    BY <1>2
  <2> QED BY <1>1, <2>1, <2>2
<1>7. (QuietAll(p)' => QuietAll(p)) /\ (QuietAll(p)' => SameDevice(p))
  BY <1>6 DEF QuietAll, QuietQueue, OneTold
<1>8. pc' # "new" /\ QuietAll(p)' => Carried(p)'
  BY <1>3, <1>7, CarriedOn
<1>9. MembershipKnown(tables', p)
  BY DEF DeviceArrays
<1> QED BY <1>3, <1>4, <1>8, <1>9 DEF DeviceArrays

LEMMA ArrayInTwice ==
    ASSUME NEW a \in Seq(Events), NEW b \in Seq(Events), NEW e \in Events, NEW f \in Events,
           NEW s, Longer(b, e, f, s), e.act # "refresh", f.act # "refresh",
           NEW p, NEW z, NEW t, NEW x, NEW c, ArrayIn(a \o b, t, z, x, c, p),
           NEW v \in OrAbsent(Uuids), Turn(e, p, x, v), NEW w \in OrAbsent(Uuids), Turn(f, p, v, w)
    PROVE  ArrayIn(a \o s, t, z, w, c, p)
<1> HIDE DEF Events
<1> DEFINE l == a \o b
           m == Append(l, e)
<1>1. l \in Seq(Events) /\ m \in Seq(Events) /\ a \o s = Append(m, f)
  <2> DEFINE y == <<e, f>>
  <2>1. l \in Seq(Events) /\ y \in Seq(Events) /\ s = b \o y
    BY DEF Longer
  <2> HIDE DEF y
  <2>2. a \o s = l \o y
    BY <2>1, InOrder
  <2> HIDE DEF l
  <2>3. l \o y = Append(m, f) /\ m \in Seq(Events)
    BY <2>1 DEF y
  <2> QED BY <2>1, <2>2, <2>3
<1>2. ArrayIn(l, t, z, x, c, p)
  OBVIOUS
<1> HIDE DEF l
<1>3. ArrayIn(m, t, z, v, c, p)
  BY <1>1, <1>2, ArrayInMore
<1> HIDE DEF m
<1>4. ArrayIn(Append(m, f), t, z, w, c, p)
  BY <1>1, <1>3, ArrayInMore
<1> QED BY <1>1, <1>4

LEMMA HeardOfTwo ==
    ASSUME RInv, NEW e, NEW f, TwoTold(e, f), Longer(bus, e, f, bus'),
           UNCHANGED <<posted, todo, tables, pc>>,
           NEW p \in Paths, DeviceArrays(p), array'[p] \in OrAbsent(Uuids)
    PROVE  DeviceArrays(p)'
<1>1. /\ bus \in Seq(Events) /\ posted \in Seq(Events)
      /\ e \in Events /\ e.act # "refresh" /\ f \in Events /\ f.act # "refresh"
  BY Queued DEF TwoTold
<1>2. PICK v \in OrAbsent(Uuids) : Turn(e, p, array[p], v) /\ Turn(f, p, v, array'[p])
  BY DEF TwoTold
<1> HIDE DEF Events
<1>3. machine' = machine /\ (Alone(p)' <=> Alone(p))
  <2>1. machine' = machine
    BY DEF TwoTold, Emit
  <2> QED BY <2>1, AloneSame
<1>4. ASSUME Alone(p)
      PROVE  PathLeads(p)'
  <2>1. ArrayIn(posted \o bus, todo, tables.arrayPath[p], array[p], pc, p)
    BY <1>4 DEF DeviceArrays, PathLeads
  <2>2. ArrayIn(posted \o bus', todo, tables.arrayPath[p], array'[p], pc, p)
    BY <1>1, <1>2, <2>1, ArrayInTwice
  <2> QED BY <2>2 DEF PathLeads
<1>6. Quiet(bus', p) => Quiet(bus, p) /\ e.path # p /\ f.path # p
  BY <1>1, QueuedTwice
<1>7. (QuietAll(p)' => QuietAll(p)) /\ (QuietAll(p)' => SameDevice(p))
  BY <1>6 DEF QuietAll, QuietQueue, TwoTold
<1>8. pc' # "new" /\ QuietAll(p)' => Carried(p)'
  BY <1>3, <1>7, CarriedOn
<1>9. MembershipKnown(tables', p)
  BY DEF DeviceArrays
<1> QED BY <1>3, <1>4, <1>8, <1>9 DEF DeviceArrays

LEMMA NotListening ==
    ASSUME RInv, Assembled', ~listening, NEW s \in Seq(Events), Emit(s), IInv',
           \A p \in Paths : (\A i \in DOMAIN s : s[i].path # p) => SameDevice(p) /\ array'[p] = array[p]
    PROVE  RNext
<1>1. /\ UNCHANGED <<machine, bus, posted, todo, pc, tables>>
      /\ slipped' = slipped \cup
           (IF pc = "new" THEN {}
            ELSE UNION {{s[i].path, On(s[i].path)} \ {Absent} : i \in DOMAIN s})
  BY DEF Emit, start
<1>2. posted = <<>> /\ bus = <<>> /\ posted \o bus = <<>>
  BY DEF RInv, IInv, QueueShape
<1>3. array' \in [Paths -> OrAbsent(Uuids)]
  BY DEF IInv, TypeOK
<1>a. \A p : Alone(p)' <=> Alone(p)
  BY <1>1, AloneSame
<1>4. ASSUME NEW p \in Paths \ slipped'
      PROVE  DeviceArrays(p)'
  <2>1. DeviceArrays(p) /\ array'[p] \in OrAbsent(Uuids)
    BY <1>1, <1>3 DEF RInv
  <2>2. CASE pc = "new"
    <3>1. ArrayIn(<<>>, todo, tables.arrayPath[p], array'[p], "new", p)
      BY <2>1, ArrayInNone
    <3> QED BY <1>1, <1>2, <2>1, <2>2, <3>1 DEF DeviceArrays, PathLeads
  <2>3. CASE pc # "new"
    <3>1. Absent \notin Paths
      BY Queued
    <3>2. \A i \in DOMAIN s : s[i].path # p
      BY <1>1, <1>4, <2>3, <3>1
    <3>3. SameDevice(p) /\ array'[p] = array[p]
      BY <3>2
    <3>4. QuietAll(p)' => QuietAll(p)
      BY <1>1 DEF QuietAll, QuietQueue
    <3>5. pc' # "new" /\ QuietAll(p)' => Carried(p)'
      BY <1>1, <2>1, <3>3, <3>4, CarriedOn
    <3> QED BY <1>1, <1>a, <2>1, <3>3, <3>5 DEF DeviceArrays, PathLeads
  <2> QED BY <2>2, <2>3
<1> QED BY <1>1, <1>4 DEF RNext, RInv

LEMMA WorldArrays ==
    ASSUME RInv, World
    PROVE  RNext
<1>1. /\ machine \in Setups /\ WorldType /\ WorldShape
      /\ bus \in Seq(Events) /\ posted \in Seq(Events) /\ Devices \subseteq Paths
  BY Queued
<1>2. IInv' /\ ArraysReported
  BY <1>1, WorldTold, WorldStep DEF RInv
<1>3. Assembled' /\ array' \in [Paths -> OrAbsent(Uuids)]
  BY <1>2 DEF ArraysReported, IInv, TypeOK
<1>4. \A e, p, v, w : e.path # p /\ Turn(e, p, v, w) => w = v
  BY DEF Turn, News
<1>5. CASE \E e : OneTold(e)
  <2>1. PICK e : OneTold(e)
    BY <1>5
  <2>2. /\ e \in Events /\ e.path \in Devices /\ Emit(<<e>>)
    BY <2>1 DEF OneTold
  <2>3. CASE ~listening
    <3> DEFINE s == <<e>>
    <3>1. s \in Seq(Events) /\ DOMAIN s = 1..1 /\ s[1] = e
      BY <2>2
    <3>2. Emit(s)
      BY <2>2
    <3> HIDE DEF s
    <3>3. \A p \in Paths : (\A i \in DOMAIN s : s[i].path # p) => SameDevice(p) /\ array'[p] = array[p]
      BY <1>4, <2>1, <3>1 DEF OneTold
    <3> QED BY <1>2, <1>3, <2>3, <3>1, <3>2, <3>3, NotListening
  <2>4. CASE listening
    <3>1. /\ bus' = bus \o <<e>> /\ slipped \subseteq slipped'
          /\ UNCHANGED <<machine, posted, todo, pc, tables>>
      BY <2>2, <2>4 DEF Emit, start
    <3>2. \A p \in Paths \ slipped' : DeviceArrays(p)'
      BY <1>3, <2>1, <3>1, HeardOfOne DEF RInv
    <3>3. bus' = Append(bus, e)
      BY <1>1, <2>2, <3>1
    <3>4. PathsKnown(bus')
      BY <1>1, <2>2, <3>3 DEF PathsKnown, RInv
    <3> QED BY <1>3, <3>1, <3>2, <3>4 DEF RNext, RInv
  <2> QED BY <2>3, <2>4
<1>6. CASE \E e, f : TwoTold(e, f)
  <2>1. PICK e, f : TwoTold(e, f)
    BY <1>6
  <2>2. /\ e \in Events /\ e.path \in Devices /\ f \in Events /\ f.path \in Devices
        /\ Emit(<<e, f>>)
    BY <2>1 DEF TwoTold
  <2>3. CASE ~listening
    <3> DEFINE s == <<e, f>>
    <3>1. s \in Seq(Events) /\ DOMAIN s = 1..2 /\ s[1] = e /\ s[2] = f
      BY <2>2
    <3>2. Emit(s)
      BY <2>2
    <3> HIDE DEF s
    <3>3. \A p \in Paths : (\A i \in DOMAIN s : s[i].path # p) => SameDevice(p) /\ array'[p] = array[p]
      BY <1>4, <2>1, <3>1 DEF TwoTold
    <3> QED BY <1>2, <1>3, <2>3, <3>1, <3>2, <3>3, NotListening
  <2>4. CASE listening
    <3>1. /\ bus' = bus \o <<e, f>> /\ slipped \subseteq slipped'
          /\ UNCHANGED <<machine, posted, todo, pc, tables>>
      BY <2>2, <2>4 DEF Emit, start
    <3>2. \A p \in Paths \ slipped' : DeviceArrays(p)'
      <4>1. Longer(bus, e, f, bus')
        BY <3>1 DEF Longer
      <4> QED BY <1>3, <2>1, <3>1, <4>1, HeardOfTwo DEF RInv
    <3>3. bus' = Append(Append(bus, e), f)
      BY <1>1, <2>2, <3>1
    <3>4. PathsKnown(bus')
      BY <1>1, <2>2, <3>3 DEF PathsKnown, RInv
    <3> QED BY <1>3, <3>1, <3>2, <3>4 DEF RNext, RInv
  <2> QED BY <2>3, <2>4
<1> QED BY <1>2, <1>5, <1>6 DEF ArraysReported

(* The monitor thread passes a uevent on, or drops one.                    *)
LEMMA UeventArrays ==
    ASSUME RInv, OnUevent
    PROVE  RNext
<1> DEFINE e == Head(bus)
           d == Tail(bus)
<1>1. /\ bus # <<>> /\ bus' = d
      /\ posted' = IF tables.block[e.path] = Absent /\ Spurious(e) THEN posted ELSE Append(posted, e)
      /\ slipped' = IF tables.block[e.path] = Absent /\ e.flag = "media"
                    THEN slipped \cup {e.path} ELSE slipped
      /\ UNCHANGED <<machine, present, label, array, pc, todo, tables>>
  BY DEF OnUevent, world, start, keeping
<1>2. bus \in Seq(Events) /\ posted \in Seq(Events)
  BY Queued
<1>3. /\ bus = <<e>> \o d /\ e \in Events /\ d \in Seq(Events)
      /\ Append(posted, e) = posted \o <<e>> /\ <<e>> \in Seq(Events)
  BY <1>1, <1>2, HeadFirst, AppendedLast
<1>4. PathsKnown(d) /\ e.path \in Devices
  <2>1. /\ \A i \in DOMAIN d : \E j \in DOMAIN bus : d[i] = bus[j]
        /\ \E j \in DOMAIN bus : e = bus[j]
    BY <1>1, <1>2, TailKeeps
  <2> QED BY <2>1 DEF RInv, PathsKnown
<1>5. Assembled' /\ ArraysFit(tables')
  BY <1>1 DEF RInv, Assembled
<1>6. ASSUME NEW p, DeviceArrays(p), QuietAll(p)' => QuietAll(p),
             Alone(p) => ArrayIn(posted' \o bus', todo, tables.arrayPath[p], array[p], pc, p)
      PROVE  DeviceArrays(p)'
  <2>1. Alone(p)' <=> Alone(p)
    BY <1>1, AloneSame
  <2>2. Carried(p) => Carried(p)'
    BY <1>1, <2>1 DEF Carried, WatchedBy
  <2> QED BY <1>1, <1>6, <2>1, <2>2 DEF DeviceArrays, PathLeads
<1>7. \A p : SameQueue(p) => (QuietAll(p)' => QuietAll(p))
  BY <1>1 DEF SameQueue, QuietAll
<1>8. CASE posted' = Append(posted, e)
  <2>1. \A p : SameQueue(p)
    BY <1>1, <1>2, <1>8, UeventMoved
  <2> HIDE DEF e, d, Events
  <2>2. posted' \o bus' = posted \o bus
    <3>1. (posted \o <<e>>) \o d = posted \o (<<e>> \o d)
      BY <1>2, <1>3, InOrder
    <3> QED BY <1>1, <1>3, <1>8, <3>1
  <2>3. \A i \in DOMAIN posted' : posted'[i] = e \/ (i \in DOMAIN posted /\ posted'[i] = posted[i])
    BY <1>2, <1>3, <1>8
  <2>4. PathsKnown(posted')
    BY <1>4, <2>3 DEF RInv, PathsKnown
  <2>5. \A p \in Paths \ slipped' : DeviceArrays(p)'
    <3> SUFFICES ASSUME NEW p \in Paths \ slipped'
                 PROVE  DeviceArrays(p)'
      OBVIOUS
    <3>1. DeviceArrays(p)
      BY <1>1 DEF RInv
    <3>2. Alone(p) => ArrayIn(posted' \o bus', todo, tables.arrayPath[p], array[p], pc, p)
      BY <2>2, <3>1 DEF DeviceArrays, PathLeads
    <3> QED BY <1>6, <1>7, <2>1, <3>1, <3>2
  <2> QED BY <1>1, <1>4, <1>5, <2>4, <2>5 DEF RNext, RInv
<1>9. CASE posted' # Append(posted, e)
  <2>1. posted' = posted /\ slipped' = slipped \cup {e.path}
    BY <1>1, <1>9 DEF Spurious
  <2>2. \A p : p # e.path => SameQueue(p)
    BY <1>1, <1>2, <2>1, UeventDropped
  <2> HIDE DEF e, d, Events
  <2>3. ASSUME NEW p \in Paths \ slipped'
        PROVE  DeviceArrays(p)'
    <3>1. DeviceArrays(p) /\ p # e.path /\ ~News(e, p)
      BY <2>1, <2>3 DEF RInv, News
    <3>2. Alone(p) => ArrayIn(posted \o (<<e>> \o d), todo, tables.arrayPath[p], array[p], pc, p)
      BY <1>3, <3>1 DEF DeviceArrays, PathLeads
    <3>3. Alone(p) => ArrayIn(posted \o d, todo, tables.arrayPath[p], array[p], pc, p)
      BY <1>2, <1>3, <3>1, <3>2, ArrayInWithout
    <3> QED BY <1>1, <1>6, <1>7, <2>1, <2>2, <3>1, <3>3
  <2> QED BY <1>1, <1>4, <1>5, <2>1, <2>3 DEF RNext, RInv
<1> QED BY <1>8, <1>9

(* The main thread handles a uevent, or brings a block object up to date.  *)
LEMMA HandledDevice ==
    ASSUME RInv, UNCHANGED <<machine, present, label, array, pc>>, pc # "new",
           NEW e \in Events, Handle(e), EventShape(e), e.path \in Devices,
           ArraysAfter(tables, tables', e),
           NEW p \in Paths \ slipped', DeviceArrays(p),
           QuietAll(p)' => IF News(e, p) THEN LastAll(p, e) ELSE QuietAll(p)
    PROVE  /\ Alone(p) => tables'.arrayPath[p] = LeadsTo(p, e, tables.arrayPath[p])
           /\ MembershipKnown(tables', p) /\ (QuietAll(p)' => Carried(p)')
<1>1. /\ machine \in Setups /\ tables \in Tables /\ Absent \notin Uuids
      /\ Alone(p) => tables.arrayPath[p] # Freed
  BY Queued
<1>a. Alone(p)' <=> Alone(p)
  BY AloneSame
<1>2. MembershipKnown(tables, p) /\ (QuietAll(p) => Carried(p))
  BY DEF DeviceArrays
<1>3. p \in Paths \ slipped /\ p \notin Overlooked(e)
  BY DEF Handle
<1>4. ArraysFit(tables)
  BY DEF RInv
<1>5. LastAll(p, e) => Agrees(p, e)
  BY <1>3 DEF RInv, IInv, Follows, DeviceFollows
<1>6. CASE Unheeded(e)
  <2>1. ArraysAlone(tables, tables')
    BY <1>6 DEF ArraysAfter
  <2>2. /\ tables'.arrayPath = tables.arrayPath /\ tables'.memberPath = tables.memberPath
        /\ \A w : RunBy(tables', w) = RunBy(tables, w)
        /\ \A w : Watched(tables', w) <=> Watched(tables, w)
        /\ MembershipKnown(tables', p) <=> MembershipKnown(tables, p)
    BY <2>1, ArraysAsBefore DEF ArraysAlone
  <2>3. Carried(p)' <=> Carried(p)
    BY <1>a, <2>2 DEF Carried, WatchedBy
  <2>4. News(e, p) => e.flag = "disabled"
    BY <1>6 DEF Unheeded, News
  <2>5. ~(QuietAll(p)' /\ News(e, p))
    BY <1>5, <2>4 DEF Agrees
  <2>6. News(e, p) => e.act # "remove" /\ e.array = Absent /\ tables.arrayPath[p] = Absent
    BY <1>4, <1>6, <2>4 DEF Unheeded, News, EventShape, ArraysFit, ArraysOK
  <2>7. Alone(p) => tables.arrayPath[p] = LeadsTo(p, e, tables.arrayPath[p])
    BY <1>1, <2>6 DEF LeadsTo
  <2> QED BY <1>2, <2>2, <2>3, <2>5, <2>7
<1>7. CASE ~Unheeded(e) /\ e.path # p
  <2>1. Apart(tables, tables', e.path)
    BY <1>7 DEF ArraysAfter
  <2>2. /\ tables'.memberPath[p] = tables.memberPath[p]
        /\ \A w \in Uuids : MemberOf(tables', p, w) <=> MemberOf(tables, p, w)
        /\ Alone(p) => RunsAsBefore(tables, tables', p)
    BY <1>7, <2>1 DEF Apart
  <2>3. ~News(e, p)
    BY <1>7 DEF News
  <2>4. Carried(p) => Carried(p)'
    BY <1>a, <2>2 DEF Carried, WatchedBy, RunsAsBefore
  <2>5. MembershipKnown(tables', p)
    BY <1>2, <2>2 DEF MembershipKnown
  <2>6. Alone(p) => tables'.arrayPath[p] = LeadsTo(p, e, tables.arrayPath[p])
    BY <2>2, <2>3 DEF LeadsTo, RunsAsBefore
  <2> QED BY <1>2, <2>3, <2>4, <2>5, <2>6
<1>8. CASE ~Unheeded(e) /\ e.path = p
  <2>1. AsSeen(tables, e)
    BY <1>1, <1>3, <1>4, <1>8, NotOverlooked
  <2>2. ArraysTold(tables, tables', e)
    BY <1>8, <2>1 DEF ArraysAfter
  <2>3. /\ tables'.memberPath[p] = IF e.act # "remove" THEN MemberUuid(e) ELSE Absent
        /\ MembershipKnown(tables', p)
        /\ Alone(p) => /\ tables'.arrayPath[p] = LeadsTo(p, e, tables.arrayPath[p])
                       /\ \A w \in Uuids : RunBy(tables', w) = p => (Watched(tables', w) <=> p \in present)
    BY <1>2, <1>8, <2>2 DEF ArraysTold
  <2>4. News(e, p)
    BY <1>8 DEF News, Unheeded
  <2>5. QuietAll(p)' => Agrees(p, e)
    BY <1>5, <2>4
  <2>6. Agrees(p, e) => Carried(p)'
    BY <1>a, <2>3 DEF Agrees, Carried, WatchedBy, MemberUuid
  <2> QED BY <2>3, <2>5, <2>6
<1> QED BY <1>6, <1>7, <1>8

LEMMA ApplyArrays ==
    ASSUME RInv, Apply
    PROVE  RNext
<1> DEFINE e == Head(posted)
           d == Tail(posted)
           s == posted \o bus
<1>1. /\ pc = "running" /\ todo = <<>> /\ todo' = <<>> /\ posted # <<>> /\ posted' = d
      /\ Handle(e) /\ UNCHANGED <<machine, present, label, array, bus, pc>>
      /\ slipped' = slipped \cup Overlooked(e)
  BY DEF Apply, Handle, start, world
<1>2. /\ machine \in Setups /\ tables \in Tables /\ TablesOf(tables)
      /\ bus \in Seq(Events) /\ posted \in Seq(Events) /\ s \in Seq(Events)
      /\ \A p \in Paths : Alone(p) => tables.arrayPath[p] # Freed
  BY Queued
<1>3. posted = <<e>> \o d /\ e \in Events /\ d \in Seq(Events)
  BY <1>1, <1>2, HeadFirst
<1>4. EventShape(e) /\ e.act # "refresh" /\ e.path \in Devices /\ PathsKnown(d)
  <2>1. /\ \A i \in DOMAIN d : \E j \in DOMAIN posted : d[i] = posted[j]
        /\ \E j \in DOMAIN posted : e = posted[j]
    BY <1>1, <1>2, TailKeeps
  <2> QED BY <2>1 DEF RInv, IInv, QueueShape, PathsKnown
<1>5. s # <<>> /\ e = Head(s) /\ d \o bus = Tail(s)
  <2> HIDE DEF Events
  <2> QED BY <1>1, <1>2
<1>6. ASSUME NEW p
      PROVE  QuietAll(p)' => IF News(e, p) THEN LastAll(p, e) ELSE QuietAll(p)
  <2> HIDE DEF Events
  <2>1. /\ Quiet(posted, p) <=> Quiet(posted', p) /\ (e.path = p => e.act = "refresh")
        /\ Last(posted, p, e) <=> \/ Last(posted', p, e)
                                  \/ /\ Quiet(posted', p) /\ e.path = p /\ e.act # "refresh"
    BY <1>1, <1>2, TailSays
  <2> QED BY <1>1, <2>1 DEF QuietAll, QuietQueue, LastAll, LastQueue, News
<1> HIDE DEF e, d, s
<1>7. ArraysAfter(tables, tables', e)
  BY <1>1, <1>2, <1>3, <1>4, ArraysOfHandled DEF RInv
<1>8. ArraysFit(tables')
  BY <1>7, ArraysAsBefore DEF ArraysAfter, RInv
<1>9. ASSUME NEW p \in Paths \ slipped'
      PROVE  DeviceArrays(p)'
  <2>1. DeviceArrays(p)
    BY <1>1, <1>9 DEF RInv
  <2>2. /\ Alone(p) => tables'.arrayPath[p] = LeadsTo(p, e, tables.arrayPath[p])
        /\ MembershipKnown(tables', p) /\ (QuietAll(p)' => Carried(p)')
    BY <1>1, <1>3, <1>4, <1>6, <1>7, <2>1, HandledDevice
  <2>3. ASSUME Alone(p)
        PROVE  PathLeads(p)'
    <3>1. tables'.arrayPath[p] # Freed
      BY <1>2, <1>8, <2>3, MachineShape DEF ArraysFit, ArraysOK
    <3>2. ArrayIn(s, <<>>, tables.arrayPath[p], array[p], pc, p)
      BY <1>1, <2>1, <2>3 DEF DeviceArrays, PathLeads, s
    <3>3. ArrayIn(Tail(s), <<>>, tables'.arrayPath[p], array[p], pc, p)
      BY <1>1, <1>2, <1>5, <2>2, <2>3, <3>1, <3>2, ArrayInApplied
    <3> QED BY <1>1, <1>5, <3>3 DEF PathLeads
  <2>4. Alone(p)' <=> Alone(p)
    BY <1>1, AloneSame
  <2> QED BY <2>2, <2>3, <2>4 DEF DeviceArrays
<1>10. Assembled'
  BY <1>1 DEF RInv, Assembled
<1> QED BY <1>1, <1>4, <1>8, <1>9, <1>10 DEF RNext, RInv

LEMMA TodoArrays ==
    ASSUME RInv, TodoStep
    PROVE  RNext
<1> DEFINE e == Head(todo)
           d == Tail(todo)
           s == posted \o bus
<1>1. /\ todo # <<>> /\ todo' = d /\ Handle(e)
      /\ UNCHANGED <<machine, present, label, array, bus, posted, pc>>
      /\ slipped' = slipped \cup Overlooked(e)
  BY DEF TodoStep, Handle, queues, world
<1>2. /\ machine \in Setups /\ tables \in Tables /\ TablesOf(tables)
      /\ todo \in Seq(Events) /\ s \in Seq(Events) /\ Absent \notin Uuids
      /\ \A p \in Paths : Alone(p) => tables.arrayPath[p] # Freed
  BY Queued
<1>3. e \in Events /\ d \in Seq(Events) /\ pc # "new"
  BY <1>1, <1>2, HeadFirst DEF RInv, IInv, StartShape
<1>4. EventShape(e) /\ e.path \in Devices /\ PathsKnown(d)
  <2>1. /\ \A i \in DOMAIN d : \E j \in DOMAIN todo : d[i] = todo[j]
        /\ \E j \in DOMAIN todo : e = todo[j]
    BY <1>1, <1>2, TailKeeps
  <2> QED BY <2>1 DEF RInv, IInv, QueueShape, PathsKnown
<1>6. ASSUME NEW p
      PROVE  QuietAll(p)' => IF News(e, p) THEN LastAll(p, e) ELSE QuietAll(p)
  <2> HIDE DEF Events
  <2>1. /\ Quiet(todo, p) <=> Quiet(todo', p) /\ (e.path = p => e.act = "refresh")
        /\ Last(todo, p, e) <=> \/ Last(todo', p, e)
                                \/ /\ Quiet(todo', p) /\ e.path = p /\ e.act # "refresh"
    BY <1>1, <1>2, TailSays
  <2> QED BY <1>1, <2>1 DEF QuietAll, QuietQueue, LastAll, LastQueue, News
<1>7. e = Head(todo) /\ d = Tail(todo) /\ s = posted \o bus
  OBVIOUS
<1> HIDE DEF e, d, s
<1>8. ArraysAfter(tables, tables', e)
  BY <1>1, <1>2, <1>3, <1>4, ArraysOfHandled DEF RInv
<1>9. ArraysFit(tables')
  BY <1>8, ArraysAsBefore DEF ArraysAfter, RInv
<1>10. ASSUME NEW p \in Paths \ slipped'
       PROVE  DeviceArrays(p)'
  <2>1. DeviceArrays(p)
    BY <1>1, <1>10 DEF RInv
  <2>2. /\ Alone(p) => tables'.arrayPath[p] = LeadsTo(p, e, tables.arrayPath[p])
        /\ MembershipKnown(tables', p) /\ (QuietAll(p)' => Carried(p)')
    BY <1>1, <1>3, <1>4, <1>6, <1>8, <2>1, HandledDevice
  <2>3. ASSUME Alone(p)
        PROVE  PathLeads(p)'
    <3>1. ArrayIn(s, todo, tables.arrayPath[p], array[p], pc, p)
      BY <2>1, <2>3 DEF DeviceArrays, PathLeads, s
    <3>2. ArrayIn(s, Tail(todo), tables'.arrayPath[p], array[p], pc, p)
      BY <1>1, <1>2, <1>3, <1>7, <2>2, <2>3, <3>1, ArrayInDone
    <3> QED BY <1>1, <1>7, <3>2 DEF PathLeads
  <2>4. Alone(p)' <=> Alone(p)
    BY <1>1, AloneSame
  <2> QED BY <2>2, <2>3, <2>4 DEF DeviceArrays
<1>11. Assembled'
  BY <1>1 DEF RInv, Assembled
<1> QED BY <1>1, <1>4, <1>9, <1>10, <1>11 DEF RNext, RInv

(* The main thread is given more to do: what coldplug says of an array is  *)
(* how it is then, and a refresh says nothing.                             *)
LEMMA EnumeratedArrays ==
    ASSUME machine \in Setups, WorldType, WorldShape, NEW t, Enumerated(t), NEW p \in Paths
    PROVE  Coldplugged(t, p, array[p]) /\ PathsKnown(t)
<1>1. \A i \in DOMAIN t : t[i].path \in present /\ t[i] = Snapshot("add", t[i].path)
  BY DEF Enumerated
<1>2. ASSUME NEW i \in DOMAIN t
      PROVE  t[i].act = "add" /\ t[i].flag = "none" /\ t[i].array = array[t[i].path]
  BY <1>1 DEF Snapshot
<1>3. Coldplugged(t, p, array[p])
  BY <1>2 DEF Coldplugged, News
<1>4. PathsKnown(t)
  BY <1>1 DEF PathsKnown, WorldType
<1> QED BY <1>3, <1>4

LEMMA BehindArrays ==
    ASSUME RInv, UNCHANGED <<machine, present, label, array, bus, posted, pc, slipped>>, pc # "new",
           ArraysAlone(tables, tables'), todo = <<>>, PathsKnown(todo'),
           \A p \in Paths : Coldplugged(todo', p, array[p])
    PROVE  RNext
<1>1. /\ tables'.arrayPath = tables.arrayPath /\ tables'.memberPath = tables.memberPath
      /\ \A w : RunBy(tables', w) = RunBy(tables, w)
      /\ \A w : Watched(tables', w) <=> Watched(tables, w)
      /\ \A p : MembershipKnown(tables', p) <=> MembershipKnown(tables, p)
      /\ ArraysFit(tables')
  BY ArraysAsBefore DEF ArraysAlone, RInv
<1>2. posted \o bus \in Seq(Events)
  BY Queued
<1>3. ASSUME NEW p \in Paths \ slipped
      PROVE  DeviceArrays(p)'
  <2>1. DeviceArrays(p)
    BY <1>3 DEF RInv
  <2>2. Alone(p)' <=> Alone(p)
    BY AloneSame
  <2>3. Coldplugged(todo', p, array[p])
    OBVIOUS
  <2>4. ASSUME Alone(p)
        PROVE  ArrayIn(posted \o bus, todo', tables.arrayPath[p], array[p], pc, p)
    <3> DEFINE s == posted \o bus
               z == tables.arrayPath[p]
    <3>1. s \in Seq(Events) /\ ArrayIn(s, <<>>, z, array[p], pc, p)
      BY <1>2, <2>1, <2>4 DEF DeviceArrays, PathLeads
    <3> HIDE DEF s, z
    <3>2. ArrayIn(s, todo', z, array[p], pc, p)
      BY <2>3, <3>1, ArrayInBegun
    <3> QED BY <3>2 DEF s, z
  <2>5. Alone(p) => PathLeads(p)'
    BY <1>1, <2>4 DEF PathLeads
  <2>6. Quiet(<<>>, p)
    BY DEF Quiet
  <2>7. QuietAll(p)' => QuietAll(p)
    BY <2>6 DEF QuietAll, QuietQueue
  <2>8. Carried(p) => Carried(p)'
    BY <1>1, <2>2 DEF Carried, WatchedBy
  <2> QED BY <1>1, <2>1, <2>2, <2>5, <2>7, <2>8 DEF DeviceArrays
<1>4. Assembled'
  BY DEF RInv, Assembled
<1> QED BY <1>1, <1>3, <1>4 DEF RNext, RInv

LEMMA EnsureModulesArrays ==
    ASSUME RInv, EnsureModules
    PROVE  RNext
<1>1. /\ pc = "running" /\ todo = <<>> /\ todo' \in Enumerations
      /\ tables' = [tables EXCEPT !.loaded = TRUE]
      /\ UNCHANGED <<machine, present, label, array, bus, posted, pc, slipped>>
  BY DEF EnsureModules, world, queues
<1>2. machine \in Setups /\ WorldType /\ WorldShape /\ tables \in Tables
  BY Queued
<1>3. Enumerated(todo')
  BY <1>1, <1>2, EnumerationsShape
<1>4. \A p \in Paths : Coldplugged(todo', p, array[p])
  BY <1>2, <1>3, EnumeratedArrays
<1>5. PathsKnown(todo')
  <2>1. \A i \in DOMAIN todo' : todo'[i].path \in present
    BY <1>3 DEF Enumerated
  <2> QED BY <1>2, <2>1 DEF PathsKnown, WorldType
<1>6. ArraysAlone(tables, tables')
  BY <1>1, <1>2 DEF Tables, ArraysAlone
<1> QED BY <1>1, <1>4, <1>5, <1>6, BehindArrays

LEMMA UpdateArrays ==
    ASSUME RInv, UpdateBlockObjects
    PROVE  RNext
<1>1. /\ pc = "running" /\ todo = <<>>
      /\ UNCHANGED <<machine, present, label, array, bus, posted, pc, tables, slipped>>
  BY DEF UpdateBlockObjects, world, queues
<1>2. \A i \in DOMAIN todo' : todo'[i].act = "refresh" /\ todo'[i].path \in Devices
  <2> DEFINE S == {p \in Devices : tables.block[p] # Absent}
             refresh(p) == [Snapshot("refresh", p) EXCEPT !.label = tables.block[p].label]
  <2>1. PICK s \in Listings(S) : todo' = [i \in DOMAIN s |-> refresh(s[i])]
    BY DEF UpdateBlockObjects
  <2>2. machine \in Setups
    BY Queued
  <2>3. s \in Seq(S) /\ DOMAIN s = 1..Len(s)
    BY <2>2, ListingsShape
  <2>4. \A p : refresh(p).act = "refresh" /\ refresh(p).path = p
    BY DEF Snapshot
  <2>5. \A i \in DOMAIN s : s[i] \in Devices
    BY <2>3
  <2> HIDE DEF refresh, S
  <2> QED BY <2>1, <2>4, <2>5
<1>3. PathsKnown(todo') /\ \A p \in Paths : Coldplugged(todo', p, array[p])
  BY <1>2 DEF PathsKnown, Coldplugged, News
<1>4. ArraysAlone(tables, tables')
  BY <1>1 DEF ArraysAlone
<1> QED BY <1>1, <1>3, <1>4, BehindArrays

(* Coldplug begins at start-up: nothing is known yet.                      *)
LEMMA NoArrays ==
    /\ ArraysFit(NoTables)
    /\ \A p \in Paths : /\ NoTables.arrayPath[p] = Absent /\ NoTables.memberPath[p] = Absent
                        /\ MembershipKnown(NoTables, p)
    /\ \A w \in Uuids : RunBy(NoTables, w) = Absent
<1>1. /\ \A p \in Paths : NoTables.arrayPath[p] = Absent /\ NoTables.memberPath[p] = Absent
      /\ \A w \in Uuids : NoTables.mdraid[w] = Absent
  BY DEF NoTables
<1>2. Absent \notin Uuids /\ Freed # Absent
  BY DeviceTablesAssumption
<1>3. ArraysFit(NoTables)
  BY <1>1, <1>2 DEF ArraysFit, PointersOK, ArraysOK, InUse, LedTo
<1> QED BY <1>1, <1>3 DEF MembershipKnown, MemberOf, RunBy

LEMMA StartArrays ==
    ASSUME RInv, StartEnumerate
    PROVE  RNext
<1>1. PICK u \in Enumerations : todo' = u \o u
  BY DEF StartEnumerate
<1>2. /\ pc = "new" /\ pc' = "coldplug" /\ todo = <<>> /\ tables = NoTables
      /\ UNCHANGED <<machine, present, label, array, bus, posted, tables, slipped>>
  BY DEF StartEnumerate, world, queues, RInv, IInv, StartShape
<1>3. /\ machine \in Setups /\ WorldType /\ WorldShape /\ posted \o bus \in Seq(Events)
      /\ Absent \notin Paths
  BY Queued
<1>4. Enumerated(todo')
  BY <1>1, <1>3, EnumerationsShape
<1>5. PathsKnown(todo')
  <2>1. \A i \in DOMAIN todo' : todo'[i].path \in present
    BY <1>4 DEF Enumerated
  <2> QED BY <1>3, <2>1 DEF PathsKnown, WorldType
<1>6. ASSUME NEW p \in Paths \ slipped
      PROVE  DeviceArrays(p)'
  <2>1. DeviceArrays(p)
    BY <1>6 DEF RInv
  <2>2. Coldplugged(todo', p, array[p]) /\ (Quiet(todo', p) => p \notin present)
    BY <1>3, <1>4, <1>6, EnumeratedArrays, EnumeratedSays
  <2>3. Quiet(todo', p) => array[p] = Absent
    BY <1>6, <2>2 DEF RInv, Assembled
  <2>4. tables.arrayPath[p] = Absent
    BY <1>2, <1>6, NoArrays
  <2>5. ASSUME Alone(p)
        PROVE  ArrayIn(posted \o bus, todo', tables.arrayPath[p], array[p], "coldplug", p)
    <3> DEFINE s == posted \o bus
               z == tables.arrayPath[p]
    <3>1. s \in Seq(Events) /\ ArrayIn(s, <<>>, z, array[p], pc, p) /\ z = Absent
      BY <1>2, <1>3, <2>1, <2>4, <2>5 DEF DeviceArrays, PathLeads
    <3> HIDE DEF s, z
    <3>2. ArrayIn(s, todo', z, array[p], "coldplug", p)
      BY <2>2, <2>3, <3>1, ArrayInBegun
    <3> QED BY <3>2 DEF s, z
  <2>6. (Alone(p) => PathLeads(p)') /\ (Alone(p)' <=> Alone(p))
    BY <1>2, <2>5, AloneSame DEF PathLeads
  <2>7. p \notin present => Carried(p)'
    BY <1>2, <1>3, <1>6, NoArrays DEF Carried, WatchedBy
  <2>8. QuietAll(p)' => p \notin present
    BY <2>2 DEF QuietAll
  <2> QED BY <1>2, <2>1, <2>6, <2>7, <2>8 DEF DeviceArrays
<1>7. Assembled'
  BY <1>2 DEF RInv, Assembled
<1> QED BY <1>2, <1>5, <1>6, <1>7 DEF RNext, RInv

-----------------------------------------------------------------------------
LEMMA InitArrays ==
    ASSUME Init
    PROVE  RInv
<1>1. IInv
  BY InitInvariant
<1>2. /\ bus = <<>> /\ posted = <<>> /\ todo = <<>> /\ pc = "new" /\ tables = NoTables
      /\ \A p \in Paths : array[p] = Absent
  BY DEF Init
<1>3. Assembled /\ PathsKnown(bus) /\ PathsKnown(posted) /\ PathsKnown(todo)
  BY <1>2 DEF Assembled, PathsKnown
<1>4. posted \o bus = <<>>
  BY <1>2
<1>5. ASSUME NEW p \in Paths
      PROVE  DeviceArrays(p)
  <2>1. array[p] \in OrAbsent(Uuids)
    BY <1>2 DEF OrAbsent
  <2>2. ArrayIn(<<>>, todo, tables.arrayPath[p], array[p], "new", p)
    BY <2>1, ArrayInNone
  <2> QED BY <1>2, <1>4, <2>2, NoArrays DEF DeviceArrays, PathLeads
<1> QED BY <1>1, <1>2, <1>3, <1>5, NoArrays DEF RInv

LEMMA StepArrays ==
    ASSUME RInv, [Next]_vars
    PROVE  RInv'
<1>0. SUFFICES RNext
  BY StepInvariant, ArraysNext DEF RInv
<1>1. CASE World
  BY <1>1, WorldArrays
<1>2. CASE OnUevent
  BY <1>2, UeventArrays
<1>3. CASE Apply
  BY <1>3, ApplyArrays
<1>4. CASE TodoStep
  BY <1>4, TodoArrays
<1>5. CASE StartEnumerate
  BY <1>5, StartArrays
<1>6. CASE EnsureModules
  BY <1>6, EnsureModulesArrays
<1>7. CASE UpdateBlockObjects
  BY <1>7, UpdateArrays
<1>8. CASE \/ Listen \/ StartComplete \/ Timeout \/ HoldDrives \/ HousekeepingDone
           \/ \E v \in Vpds : Housekeep(v) \/ InitialHousekeeping(v)
           \/ UNCHANGED vars
  <2> DEFINE Kept == /\ UNCHANGED <<machine, present, label, array>>
                     /\ UNCHANGED <<bus, posted, todo, tables, slipped>>
                     /\ pc' = "new" <=> pc = "new"
  <2>1. ASSUME Listen PROVE Kept
    BY <2>1 DEF Listen, world, start, keeping
  <2>2. ASSUME StartComplete PROVE Kept
    BY <2>2 DEF StartComplete, world, queues
  <2>3. ASSUME Timeout PROVE Kept
    BY <2>3 DEF Timeout, world, queues, start
  <2>4. ASSUME HoldDrives PROVE Kept
    BY <2>4 DEF HoldDrives, world, queues, start
  <2>5. ASSUME HousekeepingDone PROVE Kept
    BY <2>5 DEF HousekeepingDone, world, queues, start
  <2>6. ASSUME NEW v \in Vpds, Housekeep(v) \/ InitialHousekeeping(v)
        PROVE  Kept
    BY <2>6 DEF Housekeep, InitialHousekeeping, world, queues, start
  <2>7. ASSUME UNCHANGED vars PROVE Kept
    BY <2>7 DEF vars, world, queues, start, keeping
  <2>8. Kept
    BY <1>8, <2>1, <2>2, <2>3, <2>4, <2>5, <2>6, <2>7
  <2>9. ArraysAlone(tables, tables')
    BY <2>8 DEF ArraysAlone
  <2> QED BY <2>8, <2>9, ArraysKept
<1> QED BY <1>1, <1>2, <1>3, <1>4, <1>5, <1>6, <1>7, <1>8 DEF Next, Threads

LEMMA SettledDevice ==
    ASSUME RInv, Settled, NEW p \in Paths \ slipped
    PROVE  /\ Alone(p) => tables.arrayPath[p] = array[p]
           /\ MembershipKnown(tables, p) /\ Carried(p)
<1>1. /\ posted \o bus = <<>> /\ todo = <<>> /\ pc # "new" /\ DeviceArrays(p)
      /\ posted = <<>> /\ bus = <<>>
  BY DEF Settled, RInv
<1>2. Quiet(<<>>, p) /\ Len(<<>>) = 0
  BY DEF Quiet
<1>3. QuietAll(p)
  BY <1>1, <1>2 DEF QuietAll, QuietQueue
<1>4. ASSUME Alone(p)
      PROVE  tables.arrayPath[p] = array[p]
  <2>1. ArrayIn(<<>>, <<>>, tables.arrayPath[p], array[p], pc, p)
    BY <1>1, <1>4 DEF DeviceArrays, PathLeads
  <2>2. PICK h : h[0] = array[p] /\ Leads(tables.arrayPath[p], <<>>, p, h)
    BY <1>1, <1>2, <2>1 DEF ArrayIn, Ahead
  <2> QED BY <2>2, LeadsInTheEnd
<1> QED BY <1>1, <1>3, <1>4 DEF DeviceArrays

LEMMA SettledArrays ==
    ASSUME RInv
    PROVE  ArraysFollow
<1> DEFINE sharing == {p \in Paths : ~Alone(p)}
           excused == slipped \cup sharing
<1> SUFFICES ASSUME Settled, NEW u \in Uuids
             PROVE  LET members == {p \in present : label[p] = u}
                        running == {p \in present : array[p] = u}
                        a == tables.mdraid[u]
                    IN IF a = Absent THEN (members \ slipped) \cup (running \ excused) = {}
                       ELSE /\ HasDevices(a)
                            /\ a.members \ slipped = members \ slipped
                            /\ ({a.raid} \ {Absent}) \ excused = running \ excused
                            /\ a.raid \in running \ excused => a.watched
                            /\ a.watched => a.raid # Absent
  BY DEF ArraysFollow
<1> DEFINE a == tables.mdraid[u]
<1>1. /\ machine \in Setups /\ tables \in Tables /\ present \subseteq Devices
      /\ Devices \subseteq Paths /\ Absent \notin Paths /\ Absent \notin Uuids
  BY Queued DEF WorldType
<1>2. PointersOK(tables) /\ ArraysOK(tables) /\ InUse(tables)
  BY DEF RInv, ArraysFit
<1>3. ASSUME NEW p \in Paths \ slipped
      PROVE  /\ tables.memberPath[p] = u <=> p \in present /\ label[p] = u
             /\ MemberOf(tables, p, u) => tables.memberPath[p] = u
             /\ array[p] = u => p \in present
             /\ Alone(p) => /\ tables.arrayPath[p] = u <=> array[p] = u
                            /\ RunBy(tables, u) = p => (Watched(tables, u) <=> p \in present)
  <2>1. /\ Alone(p) => tables.arrayPath[p] = array[p]
        /\ MembershipKnown(tables, p) /\ Carried(p)
    BY <1>3, SettledDevice
  <2>2. Assembled
    BY DEF RInv
  <2> QED BY <1>1, <2>1, <2>2 DEF MembershipKnown, Carried, WatchedBy, Assembled
<1>a. \A p \in present : p \notin excused => p \in Paths \ slipped /\ Alone(p)
  BY <1>1
<1>4. CASE a = Absent
  <2>1. ASSUME NEW p \in present, p \notin slipped, label[p] = u
        PROVE  FALSE
    <3>1. p \in Paths \ slipped
      BY <1>1, <2>1
    <3>2. tables.memberPath[p] = u
      BY <1>3, <2>1, <3>1
    <3> QED BY <1>2, <1>4, <3>1, <3>2 DEF PointersOK
  <2>2. ASSUME NEW p \in present, p \notin excused, array[p] = u
        PROVE  FALSE
    <3>1. tables.arrayPath[p] = u
      BY <1>3, <1>a, <2>2
    <3> QED BY <1>2, <1>4, <1>a, <2>2, <3>1 DEF PointersOK
  <2> QED BY <1>4, <2>1, <2>2
<1>5. CASE a # Absent
  <2>1. a \in ArrayObject
    BY <1>1, <1>5, TypesOfArrays DEF OrAbsent
  <2>2. /\ a.members \subseteq Paths /\ a.raid \in OrAbsent(Paths)
        /\ \A q : MemberOf(tables, q, u) <=> q \in a.members
        /\ RunBy(tables, u) = a.raid /\ (Watched(tables, u) <=> a.watched)
    BY <1>5, <2>1 DEF ArrayObject, MemberOf, RunBy, Watched
  <2>3. HasDevices(a) /\ LedTo(tables, u, a.raid) /\ (a.watched => a.raid # Absent)
    BY <1>2, <1>5 DEF InUse
  <2>4. ASSUME NEW q, q \notin slipped
        PROVE  q \in a.members <=> q \in present /\ label[q] = u
    <3>1. q \in a.members => q \in present /\ label[q] = u
      BY <1>3, <2>2, <2>4
    <3>2. q \in present /\ label[q] = u => q \in a.members
      BY <1>1, <1>2, <1>3, <2>4 DEF PointersOK
    <3> QED BY <3>1, <3>2
  <2>5. ASSUME NEW q, q \notin excused
        PROVE  q = a.raid /\ q # Absent <=> q \in present /\ array[q] = u
    <3>1. q = a.raid /\ q # Absent => q \in present /\ array[q] = u
      <4> SUFFICES ASSUME q = a.raid, q # Absent
                   PROVE  q \in present /\ array[q] = u
        OBVIOUS
      <4>1. q \in Paths \ slipped /\ Alone(q)
        BY <2>2, <2>5 DEF OrAbsent
      <4>2. tables.arrayPath[q] = u
        BY <2>3, <4>1 DEF LedTo
      <4> QED BY <1>3, <4>1, <4>2
    <3>2. q \in present /\ array[q] = u => q = a.raid /\ q # Absent
      <4> SUFFICES ASSUME q \in present, array[q] = u
                   PROVE  q = a.raid /\ q # Absent
        OBVIOUS
      <4>1. q \in Paths /\ Alone(q) /\ tables.arrayPath[q] = u
        BY <1>3, <1>a, <2>5
      <4> QED BY <1>1, <1>2, <4>1 DEF ArraysOK
    <3> QED BY <3>1, <3>2
  <2>6. ASSUME a.raid \in present, array[a.raid] = u, a.raid \notin excused
        PROVE  a.watched
    BY <1>3, <1>a, <2>2, <2>6
  <2> HIDE DEF a, excused
  <2>7. a.members \ slipped = {p \in present : label[p] = u} \ slipped
    BY <2>4
  <2>8. ({a.raid} \ {Absent}) \ excused = {p \in present : array[p] = u} \ excused
    BY <2>5
  <2> QED BY <1>5, <2>3, <2>6, <2>7, <2>8 DEF a
<1> QED BY <1>4, <1>5

(* Once the uevents are applied, an array has just the members that carry  *)
(* its UUID and the device that runs it, the attributes of which are       *)
(* watched, and is exported as long as it has either, in whatever order    *)
(* the uevents of its devices, coldplug and refreshes came                 *)
(* (handle_block_uevent_for_mdraid, maybe_remove_mdraid_object), however   *)
(* many arrays there are and however they lie on each other.  Excepted is  *)
(* what runs an array that udev reports, at any time, of two devices.      *)
THEOREM ArraysSettle == Spec => []ArraysFollow
<1>1. Init => RInv
  BY InitArrays
<1>2. RInv /\ [Next]_vars => RInv'
  BY StepArrays
<1>3. RInv => ArraysFollow
  BY SettledArrays
<1> QED BY <1>1, <1>2, <1>3, PTL DEF Spec
=============================================================================
