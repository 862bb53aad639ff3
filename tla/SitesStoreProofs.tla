-------------------------- MODULE SitesStoreProofs --------------------------
(***************************************************************************)
(* Proofs about SitesStore, for any number of sites, requests and faults.  *)
(*                                                                         *)
(* Every identifier in use was given to a site once (Known).  What a site  *)
(* is created with, own, is then never another's: in the list, the file,   *)
(* the form and the backup (Data); in the keychain, the answers to come,   *)
(* the secrets shown and the jobs of a task (Secrets).  What the keychain  *)
(* holds is filed under a site of both the list and the file, or is about  *)
(* to be deleted before the file is saved (Filed).                         *)
(***************************************************************************)
EXTENDS SitesStore, SequenceTheorems, FiniteSetTheorems, TLAPS

Whose == Id \cup {Null}
Logons == Logon \cup {"normal"} \cup {Saved[i] : i \in DOMAIN Saved}
Sites == [logon : Logons, data : Whose]
Acts == {"set", "copy", "delete", "forget", "read", "readkey", "save", "blank", "select"}
Jobs == [act : Acts, id : Whose, slot : Slot, whose : Whose]
Kinds == {"save", "duplicate", "delete", "import"}
Todo == Seq(Jobs) \ {<<>>}
Tasks == [kind : Kinds, id : Whose, logon : Logons \cup {"none"}, jobs : Todo]
Asked == [id : Id, slot : Slot, whose : Whose]
Forms == [data : Whose, logon : Logons, secrets : [Slot -> Whose]]
Entries == [site : Sites, own : Id, secret : Whose]
IsList(list) == DOMAIN list \subseteq Id /\ list \in [DOMAIN list -> Sites]

Types ==
    /\ IsList(disk) /\ IsList(sites)
    /\ chain \in [Id \X Slot -> Whose]
    /\ ticked \subseteq Id /\ sel \in Whose /\ form \in Forms
    /\ gets \subseteq Asked /\ tasks \subseteq Tasks /\ backup \subseteq Entries
    /\ own \in [Id -> Whose]

(* What a task may have to do: what is deleted is deleted before the file is saved. *)
Deletes == {"forget", "delete"}
Closing == {"save", "blank"}
Ordered(s) == \A i, k \in DOMAIN s : i < k /\ s[i].act \in Closing => s[k].act = "blank"
JobOK(kind, logon, j) ==
    /\ kind = "delete" => j.act \in Deletes \cup Closing
    /\ kind # "delete" => j.act \notin {"forget"} \cup Closing
    /\ j.act \in {"read", "readkey"} => kind = "save"
    /\ j.act = "readkey" => logon = "key"
    /\ j.act \in {"copy", "select"} => kind = "duplicate"
    /\ j.act = "forget" => j.slot # "keypass"
    /\ j.act \in {"set", "copy", "delete", "forget", "select"} => j.id \in Id /\ own[j.id] # Null
    /\ j.act = "copy" => j.whose \in Id /\ own[j.whose] # Null
TaskOK(t) ==
    /\ \A j \in Range(t.jobs) : JobOK(t.kind, t.logon, j)
    /\ t.kind = "save" => t.id \in Id /\ own[t.id] # Null
    /\ Ordered(t.jobs)

(* Identifiers are used once only. *)
Known ==
    /\ \A id \in DOMAIN sites \cup DOMAIN disk \cup ticked : own[id] # Null
    /\ sel # Null => own[sel] # Null
    /\ \A g \in gets : own[g.id] # Null
    /\ \A t \in tasks : TaskOK(t)

Deleting == \E t \in tasks : t.kind = "delete"
Data == "early" \notin odd =>
    /\ DataIsOwn
    /\ \A b \in backup : b.site.data = b.own
    /\ shown = "loading" \/ Deleting => sel = Null
    /\ sel \in DOMAIN sites => form.data = own[sel]

OwnJob(j) == /\ j.act = "set" => j.whose \in {Null, own[j.id]}
             /\ j.act = "copy" => own[j.id] = own[j.whose]
Holds(id) == \A slot \in Slot : form.secrets[slot] \in {Null, own[id]}
Secrets == odd \cap {"moved", "early"} = {} =>
    /\ \A id \in Id, slot \in Slot : chain[<<id, slot>>] \in {Null, own[id]}
    /\ \A g \in gets : g.whose \in {Null, own[g.id]}
    /\ \A b \in backup : b.secret \in {Null, b.own}
    /\ \A t \in tasks : /\ \A j \in Range(t.jobs) : OwnJob(j)
                        /\ t.kind = "save" => Holds(t.id)
    /\ sel \in DOMAIN sites => Holds(sel)

Fits(slot, logon) == (slot = "cloud") = (logon = "cloud")
Placed(id, slot) == id \in DOMAIN sites /\ id \in DOMAIN disk /\ Fits(slot, disk[id].logon)
Covers(j, id, slot) == /\ j.act \in Deletes /\ j.id = id
                       /\ j.slot = slot \/ (j.act = "forget" /\ j.slot = "pass" /\ slot = "keypass")
WillGo(id, slot) == \E t \in tasks : t.kind = "delete" /\ \E j \in Range(t.jobs) : Covers(j, id, slot)
PlacedJob(t, j) ==
    /\ j.act \in {"set", "copy"} => Placed(j.id, j.slot)
    /\ j.act \in {"read", "readkey"} => Placed(t.id, IF t.logon = "cloud" THEN "cloud" ELSE "pass")
Agree == \A id \in DOMAIN sites \cap DOMAIN disk :
            (sites[id].logon = "cloud") = (disk[id].logon = "cloud")
Kept == \A id \in Id, slot \in Slot : chain[<<id, slot>>] # Null =>
            /\ id \in DOMAIN disk /\ Fits(slot, disk[id].logon)
            /\ id \in DOMAIN sites \/ WillGo(id, slot)
Filed == odd \cap {"unread", "kept", "recast", "overlap"} = {} =>
    /\ \A t, u \in tasks : t = u
    /\ Agree /\ Kept
    /\ \A t \in tasks : \A j \in Range(t.jobs) : PlacedJob(t, j)

(* The secrets of a site are in the slot of its logon type, but for what a save *)
(* under way has still to delete.                                              *)
WillErase(id, slot) ==
    \E t \in tasks : /\ t.kind = "save" /\ t.id = id
                     /\ \E j \in Range(t.jobs) :
                           \/ j.act = "read"
                           \/ j.act = "delete" /\ j.id = id /\ j.slot = slot
Suits(t, j) ==
    /\ j.act = "set" => j.slot = SlotOf(disk[j.id].logon)
    /\ j.act = "copy" => j.whose \in DOMAIN disk /\ disk[j.whose].logon = disk[j.id].logon
    /\ j.act \in {"read", "readkey"} => t.logon = disk[t.id].logon
Used == odd \cap {"unread", "kept", "recast", "overlap", "cut", "replaced"} = {} =>
    /\ \A id \in DOMAIN sites \cap DOMAIN disk : sites[id].logon = disk[id].logon
    /\ \A id \in Id, slot \in Slot :
          chain[<<id, slot>>] # Null => slot = SlotOf(disk[id].logon) \/ WillErase(id, slot)
    /\ \A t \in tasks : \A j \in Range(t.jobs) : Suits(t, j)
Backed == \A b \in backup : b.secret # Null => b.site.logon \in {"normal", "cloud"}

IInv == Types /\ Known /\ Data /\ Secrets /\ Filed /\ Used /\ Backed

-----------------------------------------------------------------------------
(* Sequences of jobs. *)

(* What is in a sequence is its head or in its tail. *)
LEMMA HeadOrTail ==
    ASSUME NEW S, NEW s \in Seq(S), s # <<>>
    PROVE  /\ Head(s) \in S /\ Tail(s) \in Seq(S) /\ Head(s) \in Range(s)
           /\ Range(Tail(s)) \subseteq Range(s)
           /\ \A x \in Range(s) : x = Head(s) \/ x \in Range(Tail(s))
<1>1. /\ Len(s) \in Nat /\ Len(s) > 0 /\ DOMAIN s = 1..Len(s) /\ Head(s) = s[1]
      /\ Head(s) \in S /\ Tail(s) \in Seq(S) /\ Len(Tail(s)) = Len(s) - 1
      /\ DOMAIN Tail(s) = 1..(Len(s) - 1)
      /\ \A i \in 1..(Len(s) - 1) : Tail(s)[i] = s[i + 1]
  BY HeadTailProperties
<1>2. \A i \in 1..(Len(s) - 1) : i + 1 \in 1..Len(s)
  BY <1>1
<1>3. \A i \in 1..Len(s) : i = 1 \/ (i - 1 \in 1..(Len(s) - 1) /\ Tail(s)[i - 1] = s[i])
  BY <1>1
<1>4. \A x : x \in Range(Tail(s)) => x \in Range(s)
  BY <1>1, <1>2 DEF Range
<1>5. \A x \in Range(s) : x = Head(s) \/ x \in Range(Tail(s))
  <2> SUFFICES ASSUME NEW i \in 1..Len(s) PROVE s[i] = Head(s) \/ s[i] \in Range(Tail(s))
    BY <1>1 DEF Range
  <2>1. CASE i = 1
    BY <2>1, <1>1
  <2>2. CASE i # 1
    <3>1. i - 1 \in DOMAIN Tail(s) /\ Tail(s)[i - 1] = s[i]
      BY <2>2, <1>1, <1>3
    <3> QED BY <3>1 DEF Range
  <2> QED BY <2>1, <2>2
<1>6. Head(s) \in Range(s)
  BY <1>1 DEF Range
<1> QED BY <1>1, <1>4, <1>5, <1>6

(* What is in a concatenation is in one of its parts. *)
LEMMA Joined ==
    ASSUME NEW S, NEW s \in Seq(S), NEW t \in Seq(S)
    PROVE  s \o t \in Seq(S) /\ Range(s \o t) = Range(s) \cup Range(t)
<1>1. /\ Len(s) \in Nat /\ Len(t) \in Nat /\ DOMAIN s = 1..Len(s) /\ DOMAIN t = 1..Len(t)
      /\ s \o t \in Seq(S) /\ Len(s \o t) = Len(s) + Len(t)
      /\ DOMAIN (s \o t) = 1..(Len(s) + Len(t))
      /\ \A i \in 1..(Len(s) + Len(t)) :
            (s \o t)[i] = IF i <= Len(s) THEN s[i] ELSE t[i - Len(s)]
  BY ConcatProperties
<1>2. \A x : x \in Range(s \o t) => x \in Range(s) \/ x \in Range(t)
  BY <1>1 DEF Range
<1>3. \A i \in 1..Len(s) : i \in 1..(Len(s) + Len(t)) /\ (s \o t)[i] = s[i]
  BY <1>1
<1>4. \A i \in 1..Len(t) : i + Len(s) \in 1..(Len(s) + Len(t)) /\ (s \o t)[i + Len(s)] = t[i]
  BY <1>1
<1>5. \A x : x \in Range(s) => x \in Range(s \o t)
  BY <1>1, <1>3 DEF Range
<1>6. \A x : x \in Range(t) => x \in Range(s \o t)
  BY <1>1, <1>4 DEF Range
<1> QED BY <1>1, <1>2, <1>5, <1>6

(* One job, and two. *)
LEMMA OneOrTwo ==
    /\ Range(<<>>) = {}
    /\ \A a : Range(<<a>>) = {a}
    /\ \A a, b : Range(<<a, b>>) = {a, b}
BY DEF Range

(* The order is kept by what remains, and by what is put before or after. *)
LEMMA OrderKept ==
    ASSUME NEW S, NEW s \in Seq(S)
    PROVE  /\ s # <<>> /\ Ordered(s) => Ordered(Tail(s))
           /\ s # <<>> /\ Ordered(s) /\ Head(s).act \in Closing
                 => \A x \in Range(Tail(s)) : x.act = "blank"
           /\ \A t \in Seq(S) : /\ Ordered(s) /\ Ordered(t)
                                /\ \/ \A x \in Range(s) : x.act \notin Closing
                                   \/ \A x \in Range(t) : x.act = "blank"
                                => Ordered(s \o t)
<1>1. ASSUME s # <<>>, Ordered(s) PROVE Ordered(Tail(s))
  <2>1. /\ Len(s) \in Nat /\ DOMAIN s = 1..Len(s) /\ DOMAIN Tail(s) = 1..(Len(s) - 1)
        /\ \A i \in 1..(Len(s) - 1) : Tail(s)[i] = s[i + 1]
    BY <1>1, HeadTailProperties
  <2>2. \A i \in 1..(Len(s) - 1) : i + 1 \in 1..Len(s)
    BY <2>1
  <2>3. \A i, k \in 1..(Len(s) - 1) : i < k => i + 1 < k + 1
    OBVIOUS
  <2> QED BY <1>1, <2>1, <2>2, <2>3 DEF Ordered
<1>2. ASSUME s # <<>>, Ordered(s), Head(s).act \in Closing
      PROVE  \A x \in Range(Tail(s)) : x.act = "blank"
  <2>1. /\ Len(s) \in Nat /\ Len(s) > 0 /\ DOMAIN s = 1..Len(s) /\ DOMAIN Tail(s) = 1..(Len(s) - 1)
        /\ Head(s) = s[1]
        /\ \A i \in 1..(Len(s) - 1) : Tail(s)[i] = s[i + 1]
    BY <1>2, HeadTailProperties
  <2>2. \A i \in 1..(Len(s) - 1) : i + 1 \in 1..Len(s) /\ 1 < i + 1 /\ 1 \in 1..Len(s)
    BY <2>1
  <2> QED BY <1>2, <2>1, <2>2 DEF Ordered, Range
<1>3. ASSUME NEW t \in Seq(S), Ordered(s), Ordered(t),
             \/ \A x \in Range(s) : x.act \notin Closing
             \/ \A x \in Range(t) : x.act = "blank"
      PROVE  Ordered(s \o t)
  <2>1. /\ Len(s) \in Nat /\ Len(t) \in Nat /\ DOMAIN s = 1..Len(s) /\ DOMAIN t = 1..Len(t)
        /\ DOMAIN (s \o t) = 1..(Len(s) + Len(t))
        /\ \A i \in 1..(Len(s) + Len(t)) :
              (s \o t)[i] = IF i <= Len(s) THEN s[i] ELSE t[i - Len(s)]
    BY ConcatProperties
  <2> SUFFICES ASSUME NEW i \in 1..(Len(s) + Len(t)), NEW k \in 1..(Len(s) + Len(t)),
                      i < k, (s \o t)[i].act \in Closing
               PROVE  (s \o t)[k].act = "blank"
    BY <2>1 DEF Ordered
  <2>2. CASE k <= Len(s)
    BY <2>1, <2>2, <1>3 DEF Ordered
  <2>3. CASE i > Len(s)
    <3>1. /\ i - Len(s) \in 1..Len(t) /\ k - Len(s) \in 1..Len(t) /\ i - Len(s) < k - Len(s)
          /\ (s \o t)[i] = t[i - Len(s)] /\ (s \o t)[k] = t[k - Len(s)]
      BY <2>1, <2>3
    <3> QED BY <2>1, <3>1, <1>3 DEF Ordered
  <2>4. CASE i <= Len(s) /\ k > Len(s)
    <3>1. /\ i \in 1..Len(s) /\ k - Len(s) \in 1..Len(t)
          /\ (s \o t)[i] = s[i] /\ (s \o t)[k] = t[k - Len(s)]
      BY <2>1, <2>4
    <3>2. s[i] \in Range(s) /\ t[k - Len(s)] \in Range(t)
      BY <2>1, <3>1 DEF Range
    <3> QED BY <3>1, <3>2, <1>3
  <2> QED BY <2>1, <2>2, <2>3, <2>4
<1> QED BY <1>1, <1>2, <1>3

(* One job and two in order. *)
LEMMA FewOrdered ==
    /\ Ordered(<<>>)
    /\ \A a : Ordered(<<a>>)
    /\ \A a, b : a.act \notin Closing => Ordered(<<a, b>>)
BY DEF Ordered

-----------------------------------------------------------------------------
(* Lists, forms and tasks. *)

(* A finite set in some order: every element of it, and nothing else. *)
LEMMA InSomeOrder ==
    ASSUME NEW S, IsFiniteSet(S)
    PROVE  /\ Cardinality(S) \in Nat /\ SetToSeq(S) \in [1..Cardinality(S) -> S]
           /\ \A x \in S : \E k \in 1..Cardinality(S) : SetToSeq(S)[k] = x
<1> DEFINE n == Cardinality(S)
<1>1. n \in Nat /\ ExistsBijection(1..n, S)
  BY FS_CardinalityType
<1>2. \E f \in [1..n -> S] : IsInjective(f)
  <2>1. PICK f \in Bijection(1..n, S) : TRUE
    BY <1>1 DEF ExistsBijection
  <2>2. f \in [1..n -> S] /\ \A a, b \in 1..n : f[a] = f[b] => a = b
    BY <2>1 DEF Bijection, Injection, IsInjective
  <2> QED BY <2>2 DEF IsInjective
<1>3. SetToSeq(S) \in [1..n -> S] /\ IsInjective(SetToSeq(S))
  BY <1>2 DEF SetToSeq
<1>4. SetToSeq(S) \in Injection(1..n, S)
  BY <1>3 DEF IsInjective, Injection
<1>5. IsFiniteSet(1..n) /\ Cardinality(1..n) = n
  <2>1. IsFiniteSet(1..n) /\ Cardinality(1..n) = IF 1 > n THEN 0 ELSE n - 1 + 1
    BY <1>1, FS_Interval
  <2> QED BY <1>1, <2>1
<1>6. SetToSeq(S) \in Surjection(1..n, S)
  BY <1>4, <1>5, FS_Injection
<1>7. \A x \in S : \E k \in 1..n : SetToSeq(S)[k] = x
  BY <1>6 DEF Surjection
<1> QED BY <1>1, <1>3, <1>7

(* The passwords of the sites to be deleted, each of them. *)
LEMMA ForgetsAll ==
    ASSUME IsList(sites), NEW gone \in SUBSET DOMAIN sites
    PROVE  /\ Chained(gone) \in Seq(Jobs)
           /\ Range(Chained(gone)) = {Forget(id) : id \in gone}
<1>1. IsFiniteSet(gone) /\ gone \subseteq Id
  BY SitesAssumption, FS_Subset DEF IsList
<1> DEFINE n == Cardinality(gone)
           q == SetToSeq(gone)
           s == Chained(gone)
<1>2. n \in Nat /\ q \in [1..n -> gone] /\ \A x \in gone : \E k \in 1..n : q[k] = x
  BY <1>1, InSomeOrder
<1>3. \A id \in gone : Forget(id) \in Jobs
  BY <1>1 DEF Forget, Job, Jobs, Acts, Slot, Whose
<1>4. DOMAIN s = 1..n /\ \A k \in 1..n : s[k] = Forget(q[k])
  BY DEF Chained
<1>5. s \in Seq(Jobs)
  <2>1. \A k \in 1..n : Forget(q[k]) \in Jobs
    BY <1>2, <1>3
  <2>2. s = [k \in 1..n |-> Forget(q[k])]
    BY DEF Chained
  <2> HIDE DEF n, q, s
  <2> QED BY <1>2, <2>1, <2>2, IsASeq
<1>6. Range(s) = {Forget(id) : id \in gone}
  <2> HIDE DEF n, q, s
  <2>1. \A x : x \in Range(s) => \E id \in gone : x = Forget(id)
    BY <1>2, <1>4 DEF Range
  <2>2. \A id \in gone : Forget(id) \in Range(s)
    BY <1>2, <1>4 DEF Range
  <2> QED BY <2>1, <2>2
<1> QED BY <1>5, <1>6

(* A list with one site more, or with one changed. *)
LEMMA ListWith ==
    ASSUME NEW list, IsList(list), NEW id \in Id, NEW s
    PROVE  LET new == With(list, id, s) IN
           /\ DOMAIN new = DOMAIN list \cup {id} /\ new[id] = s
           /\ \A i \in DOMAIN list : i # id => new[i] = list[i]
           /\ s \in Sites => IsList(new)
BY DEF With, IsList

(* A list without some sites. *)
LEMMA ListWithout ==
    ASSUME NEW list, IsList(list), NEW ids
    PROVE  LET new == Without(list, ids) IN
           /\ DOMAIN new = DOMAIN list \ ids /\ IsList(new)
           /\ \A i \in DOMAIN new : new[i] = list[i]
BY DEF Without, IsList

(* What is left to do of a task. *)
LEMMA LeftToDo ==
    ASSUME NEW t \in Tasks, NEW jobs \in Seq(Jobs), Goes(t, jobs)
    PROVE  /\ \A u \in tasks' : \/ u \in tasks /\ u # t
                                \/ /\ jobs # <<>> /\ u = [t EXCEPT !.jobs = jobs]
                                   /\ u \in Tasks /\ u.kind = t.kind /\ u.id = t.id
                                   /\ u.logon = t.logon /\ u.jobs = jobs
           /\ jobs # <<>> => [t EXCEPT !.jobs = jobs] \in tasks'
<1>1. jobs # <<>> => LET u == [t EXCEPT !.jobs = jobs] IN
         /\ u \in Tasks /\ u.kind = t.kind /\ u.id = t.id
         /\ u.logon = t.logon /\ u.jobs = jobs
  BY DEF Tasks, Todo
<1>2. tasks' = (tasks \ {t}) \cup (IF jobs = <<>> THEN {} ELSE {[t EXCEPT !.jobs = jobs]})
  BY DEF Goes
<1> QED BY <1>1, <1>2

(* What a task may go on with after its first call: what was left, the         *)
(* passphrase after the password, or what a save read from the form.           *)
NextJob(t, h, j) ==
    \/ j \in Range(t.jobs)
    \/ h.act = "forget" /\ j = DeleteIt(h.id, "keypass")
    \/ /\ h.act \in {"read", "readkey"}
       /\ \E slot \in Slot : Fits(slot, t.logon) /\ j = Put(t.id, slot, form.secrets[slot])
    \/ h.act = "read" /\ \E slot \in Slot : Fits(slot, t.logon) /\ j = DeleteIt(t.id, slot)
    \/ h.act = "read" /\ t.logon = "key" /\ j = Job("readkey", t.id, "keypass", Null)

(* A secret of the form is put under the site being saved. *)
LEMMA PutIt ==
    ASSUME NEW t \in Tasks, form \in Forms, NEW slot \in Slot
    PROVE  /\ Put(t.id, slot, form.secrets[slot]) \in Jobs
           /\ Put(t.id, slot, form.secrets[slot]).act \in {"set", "delete"}
           /\ DeleteIt(t.id, slot) \in Jobs
BY DEF Put, SetIt, DeleteIt, Job, Jobs, Acts, Whose, Forms, Tasks

(* What a save does with the secrets of the form. *)
LEMMA SecretsToPut ==
    ASSUME NEW t \in Tasks, NEW h, form \in Forms, h.act = "read"
    PROVE  LET jobs == SecretJobs(t, form.secrets) IN
           /\ jobs \in Seq(Jobs) /\ Ordered(jobs)
           /\ \A j \in Range(jobs) : NextJob(t, h, j) /\ j.act \notin Closing
<1> DEFINE p(slot) == Put(t.id, slot, form.secrets[slot])
           d(slot) == DeleteIt(t.id, slot)
           r == Job("readkey", t.id, "keypass", Null)
           jobs == SecretJobs(t, form.secrets)
<1>1. "cloud" \in Slot /\ "pass" \in Slot /\ "keypass" \in Slot
  BY DEF Slot
<1>2. \A slot \in Slot : p(slot) \in Jobs /\ d(slot) \in Jobs
                         /\ p(slot).act \in {"set", "delete"} /\ d(slot).act = "delete"
                         /\ p(slot).act \notin Closing /\ d(slot).act \notin Closing
  BY PutIt DEF DeleteIt, Job, Closing
<1>3. r \in Jobs /\ r.act \notin Closing
  BY DEF Job, Jobs, Acts, Slot, Whose, Tasks, Closing
<1>4. \/ t.logon = "cloud" /\ jobs = <<p("cloud")>>
      \/ t.logon = "normal" /\ form.secrets["pass"] # Null
         /\ jobs = <<SetIt(t.id, "pass", form.secrets["pass"]), d("keypass")>>
      \/ t.logon = "key" /\ jobs = <<d("pass"), r>>
      \/ t.logon # "cloud" /\ jobs = <<d("pass"), d("keypass")>>
  BY DEF SecretJobs
<1>5. t.logon = "normal" /\ form.secrets["pass"] # Null
         => p("pass") = SetIt(t.id, "pass", form.secrets["pass"])
  BY DEF Put
<1>6. \A slot \in Slot : Fits(slot, t.logon) => NextJob(t, h, p(slot)) /\ NextJob(t, h, d(slot))
  BY DEF NextJob
<1>7. t.logon = "key" => NextJob(t, h, r)
  BY DEF NextJob
<1>8. (t.logon = "cloud" <=> Fits("cloud", t.logon))
      /\ (t.logon # "cloud" <=> Fits("pass", t.logon) /\ Fits("keypass", t.logon))
  BY DEF Fits
<1> HIDE DEF p, d, r, jobs
<1>9. CASE t.logon = "cloud" /\ jobs = <<p("cloud")>>
  <2>1. Range(jobs) = {p("cloud")} /\ Ordered(jobs)
    BY <1>9, OneOrTwo, FewOrdered
  <2> QED BY <1>1, <1>2, <1>6, <1>8, <1>9, <2>1 DEF jobs
<1>10. CASE t.logon = "normal" /\ jobs = <<p("pass"), d("keypass")>>
  <2>1. Range(jobs) = {p("pass"), d("keypass")} /\ Ordered(jobs)
    BY <1>1, <1>2, <1>10, OneOrTwo, FewOrdered DEF Closing
  <2>2. t.logon # "cloud"
    BY <1>10
  <2> QED BY <1>1, <1>2, <1>6, <1>8, <1>10, <2>1, <2>2 DEF jobs
<1>11. CASE t.logon = "key" /\ jobs = <<d("pass"), r>>
  <2>1. Range(jobs) = {d("pass"), r} /\ Ordered(jobs)
    BY <1>1, <1>2, <1>11, OneOrTwo, FewOrdered DEF Closing
  <2>2. t.logon # "cloud"
    BY <1>11
  <2> QED BY <1>1, <1>2, <1>3, <1>6, <1>7, <1>8, <1>11, <2>1, <2>2 DEF jobs
<1>12. CASE t.logon # "cloud" /\ jobs = <<d("pass"), d("keypass")>>
  <2>1. Range(jobs) = {d("pass"), d("keypass")} /\ Ordered(jobs)
    BY <1>1, <1>2, <1>12, OneOrTwo, FewOrdered DEF Closing
  <2> QED BY <1>1, <1>2, <1>6, <1>8, <1>12, <2>1 DEF jobs
<1> QED BY <1>4, <1>5, <1>9, <1>10, <1>11, <1>12

(* What a step of a task leaves to do. *)
LEMMA AfterHead ==
    ASSUME Types, Known, NEW t \in tasks, Step(t)
    PROVE  \E jobs \in Seq(Jobs) : /\ Goes(t, jobs) /\ Ordered(jobs)
                                   /\ \A j \in Range(jobs) : NextJob(t, Head(t.jobs), j)
<1> DEFINE h == Head(t.jobs)
<1>1. t \in Tasks /\ t.jobs \in Seq(Jobs) /\ t.jobs # <<>> /\ form \in Forms /\ Ordered(t.jobs)
  BY DEF Types, Known, TaskOK, Tasks, Todo
<1>2. /\ h \in Jobs /\ Tail(t.jobs) \in Seq(Jobs) /\ Ordered(Tail(t.jobs))
      /\ \A j \in Range(Tail(t.jobs)) : NextJob(t, h, j)
      /\ <<>> \in Seq(Jobs)
  BY <1>1, HeadOrTail, OrderKept DEF NextJob
<1>3. ASSUME Goes(t, Tail(t.jobs)) PROVE \E jobs \in Seq(Jobs) : /\ Goes(t, jobs) /\ Ordered(jobs)
                                   /\ \A j \in Range(jobs) : NextJob(t, h, j)
  BY <1>2, <1>3
<1>4. ASSUME Goes(t, <<>>) PROVE \E jobs \in Seq(Jobs) : /\ Goes(t, jobs) /\ Ordered(jobs)
                                   /\ \A j \in Range(jobs) : NextJob(t, h, j)
  BY <1>2, <1>4, OneOrTwo, FewOrdered
<1>5. ASSUME Goes(t, Ends(t, TRUE)), h.act \in {"set", "copy"}
      PROVE  \E jobs \in Seq(Jobs) : /\ Goes(t, jobs) /\ Ordered(jobs)
                                   /\ \A j \in Range(jobs) : NextJob(t, h, j)
  <2> DEFINE last == t.jobs[Len(t.jobs)]
  <2>1. CASE t.kind = "duplicate"
    <3>1. last \in Jobs /\ last \in Range(t.jobs)
      <4>1. Len(t.jobs) \in DOMAIN t.jobs /\ last \in Jobs
        BY <1>1
      <4> QED BY <4>1 DEF Range
    <3>2. <<last>> \in Seq(Jobs) /\ Range(<<last>>) = {last} /\ Ordered(<<last>>)
      BY <3>1, OneOrTwo, FewOrdered
    <3>3. Goes(t, <<last>>)
      BY <1>5, <2>1 DEF Ends
    <3> HIDE DEF last
    <3> QED BY <3>1, <3>2, <3>3 DEF NextJob
  <2>2. CASE t.kind # "duplicate"
    BY <1>3, <1>4, <1>5, <2>2 DEF Ends
  <2> QED BY <2>1, <2>2
<1>6. CASE h.act = "set"
  BY <1>3, <1>5, <1>6 DEF Step, Sets
<1>7. CASE h.act = "copy"
  BY <1>3, <1>5, <1>7 DEF Step, Sets
<1>8. CASE h.act = "delete"
  BY <1>3, <1>8 DEF Step
<1>14. ASSUME NEW q \in Seq(Jobs), Ordered(q), Goes(t, q \o Tail(t.jobs)),
              \A x \in Range(q) : x.act \notin Closing /\ NextJob(t, h, x)
       PROVE  \E jobs \in Seq(Jobs) : /\ Goes(t, jobs) /\ Ordered(jobs)
                                    /\ \A j \in Range(jobs) : NextJob(t, h, j)
  <2>1. /\ q \o Tail(t.jobs) \in Seq(Jobs) /\ Ordered(q \o Tail(t.jobs))
        /\ Range(q \o Tail(t.jobs)) = Range(q) \cup Range(Tail(t.jobs))
    BY <1>2, <1>14, Joined, OrderKept
  <2> QED BY <1>2, <1>14, <2>1
<1>9. CASE h.act = "forget"
  <2> DEFINE q == IF h.slot = "pass" THEN <<DeleteIt(h.id, "keypass")>> ELSE <<>>
             jobs == q \o Tail(t.jobs)
  <2>1. DeleteIt(h.id, "keypass") \in Jobs
    BY <1>2 DEF DeleteIt, Job, Jobs, Acts, Slot, Whose
  <2>2. /\ q \in Seq(Jobs) /\ Ordered(q) /\ Range(q) \subseteq {DeleteIt(h.id, "keypass")}
    BY <2>1, OneOrTwo, FewOrdered
  <2>3. \A x \in Range(q) : x.act \notin Closing
    BY <2>2 DEF DeleteIt, Job, Closing
  <2>4. Goes(t, jobs)
    BY <1>9 DEF Step
  <2>5. \A j \in Range(q) : NextJob(t, h, j)
    BY <1>9, <2>2 DEF NextJob
  <2> HIDE DEF q
  <2> QED BY <1>14, <2>2, <2>3, <2>4, <2>5
<1>10. CASE h.act = "read"
  <2> DEFINE q == SecretJobs(t, form.secrets)
  <2>1. Goes(t, q \o Tail(t.jobs))
    BY <1>10 DEF Step
  <2>2. q \in Seq(Jobs) /\ Ordered(q) /\ \A x \in Range(q) : x.act \notin Closing /\ NextJob(t, h, x)
    BY <1>1, <1>10, SecretsToPut
  <2> HIDE DEF q
  <2> QED BY <1>14, <2>1, <2>2
<1>11. CASE h.act = "readkey"
  <2> DEFINE p == Put(t.id, "keypass", form.secrets["keypass"])
             q == <<p>>
  <2>1. Goes(t, q \o Tail(t.jobs))
    BY <1>11 DEF Step
  <2>2. p \in Jobs /\ "keypass" \in Slot /\ p.act \notin Closing
    BY <1>1, PutIt DEF Slot, Closing
  <2>3. Fits("keypass", t.logon)
    <3>1. t.logon = "key"
      BY <1>1, <1>11, HeadOrTail DEF Known, TaskOK, JobOK
    <3> QED BY <3>1 DEF Fits
  <2>4. NextJob(t, h, p)
    BY <1>11, <2>2, <2>3 DEF NextJob
  <2> HIDE DEF p
  <2>5. q \in Seq(Jobs) /\ Range(q) = {p} /\ Ordered(q)
    BY <2>2, OneOrTwo, FewOrdered
  <2> HIDE DEF q
  <2> QED BY <1>14, <2>1, <2>2, <2>4, <2>5
<1>12. CASE h.act = "save"
  BY <1>3, <1>12 DEF Step, Saves
<1>13. CASE h.act \in {"blank", "select"}
  BY <1>4, <1>13 DEF Step
<1> QED BY <1>2, <1>6, <1>7, <1>8, <1>9, <1>10, <1>11, <1>12, <1>13 DEF Jobs, Acts

(* What a step of a task leaves of the tasks. *)
LEMMA StepTasks ==
    ASSUME Types, Known, NEW t \in tasks, Step(t)
    PROVE  \A u \in tasks' : \/ u \in tasks
                             \/ /\ u \in Tasks /\ u.kind = t.kind /\ u.id = t.id
                                /\ u.logon = t.logon /\ Ordered(u.jobs)
                                /\ \A j \in Range(u.jobs) : NextJob(t, Head(t.jobs), j)
<1>1. PICK jobs \in Seq(Jobs) : /\ Goes(t, jobs) /\ Ordered(jobs)
                                /\ \A j \in Range(jobs) : NextJob(t, Head(t.jobs), j)
  BY AfterHead
<1>2. t \in Tasks
  BY DEF Types
<1> QED BY <1>1, <1>2, LeftToDo

(* The site selected, what the form then shows and what is asked for. *)
LEMMA Selected ==
    ASSUME NEW id \in Id, NEW list, IsList(list), NEW more, SelectSite(id, list, more),
           chain \in [Id \X Slot -> Whose]
    PROVE  /\ ticked' = {id} /\ sel' = id
           /\ form' \in Forms /\ \A slot \in Slot : form'.secrets[slot] = Null
           /\ id \in DOMAIN list => form'.data = list[id].data
           /\ odd' = odd \cup more \cup (IF Saving THEN {"moved"} ELSE {})
           /\ \A g \in gets' : g \in gets \/ /\ g \in Asked /\ g.id = id /\ id \in DOMAIN list
                                             /\ g.whose = chain[<<id, g.slot>>]
<1>1. /\ ticked' = {id} /\ sel' = id
      /\ odd' = odd \cup more \cup (IF Saving THEN {"moved"} ELSE {})
      /\ form' = IF id \in DOMAIN list
                 THEN [Blank EXCEPT !.data = list[id].data, !.logon = list[id].logon] ELSE Blank
      /\ gets' = gets \cup (IF id \in DOMAIN list THEN Asks(id, list[id]) ELSE {})
  BY DEF SelectSite, Show
<1>2. id \in DOMAIN list => list[id] \in Sites
  BY DEF IsList
<1>3. Blank \in Forms /\ \A slot \in Slot : Blank.secrets[slot] = Null
  BY DEF Blank, NoSecrets, Forms, Whose, Logons
<1>4. ASSUME id \in DOMAIN list
      PROVE  LET f == [Blank EXCEPT !.data = list[id].data, !.logon = list[id].logon] IN
             f \in Forms /\ f.data = list[id].data /\ f.secrets = Blank.secrets
  BY <1>2, <1>3, <1>4 DEF Forms, Sites
<1>5. \A logon : SlotOf(logon) # "none" => SlotOf(logon) \in Slot
  BY DEF SlotOf, Slot
<1>6. \A g \in Asks(id, list[id]) : /\ g.slot \in Slot /\ g.id = id
                                    /\ g.whose = chain[<<id, g.slot>>] /\ g \in Asked
  BY <1>5 DEF Asks, Asked
<1> QED BY <1>1, <1>3, <1>4, <1>6

(* The form blanked. *)
LEMMA BlankForm == Blank \in Forms /\ Blank.data = Null /\ \A slot \in Slot : Blank.secrets[slot] = Null
BY DEF Blank, NoSecrets, Forms, Whose, Logons

(* An identifier still free, if there is one. *)
LEMMA FreshIsFree == ASSUME HasFresh PROVE Fresh \in Id /\ own[Fresh] = Null
BY DEF HasFresh, Fresh

-----------------------------------------------------------------------------
(* Types. *)

(* At first. *)
LEMMA TypesInit == ASSUME Init PROVE Types
<1>1. IsList(disk) /\ IsList(sites)
  BY SitesAssumption DEF Init, IsList, Sites, Site, Logons, Whose
<1>2. chain \in [Id \X Slot -> Whose]
  BY DEF Init, Whose
<1>3. own \in [Id -> Whose]
  BY DEF Init, Whose
<1>4. Null \in Whose
  BY DEF Whose
<1> QED BY <1>1, <1>2, <1>3, <1>4, BlankForm DEF Init, Types

(* A step of a task keeps the types. *)
LEMMA TypesStep ==
    ASSUME Types, Known, NEW t \in tasks, Step(t), UNCHANGED <<sites, shown, backup, own, requests>>
    PROVE  Types'
<1> DEFINE h == Head(t.jobs)
<1>1. tasks' \subseteq Tasks
  BY StepTasks DEF Types
<1>2. h \in Jobs /\ t \in Tasks /\ h \in Range(t.jobs) /\ JobOK(t.kind, t.logon, h)
  <2>1. t \in Tasks /\ t.jobs \in Seq(Jobs) /\ t.jobs # <<>>
    BY DEF Types, Tasks, Todo
  <2> QED BY <2>1, HeadOrTail DEF Known, TaskOK
<1>3. h.act \in {"set", "copy", "delete", "forget", "select"} => h.id \in Id
  BY <1>2 DEF JobOK
<1>4. h.slot \in Slot /\ h.whose \in Whose
  BY <1>2 DEF Jobs
<1>5. ASSUME NEW c \in Whose, h.act \in {"set", "copy", "delete", "forget", "select"}
      PROVE  [chain EXCEPT ![<<h.id, h.slot>>] = c] \in [Id \X Slot -> Whose]
  BY <1>3, <1>4, <1>5 DEF Types
<1>6. h.act = "copy" => chain[<<h.whose, h.slot>>] \in Whose
  BY <1>2, <1>4 DEF JobOK, Types
<1>7. Null \in Whose
  BY DEF Whose
<1>8. chain' \in [Id \X Slot -> Whose]
  <2>1. CASE h.act = "set"
    BY <2>1, <1>4, <1>5 DEF Step, Sets, Types
  <2>2. CASE h.act = "copy"
    BY <2>2, <1>5, <1>6 DEF Step, Sets, Types
  <2>3. CASE h.act = "delete"
    BY <2>3, <1>5, <1>7 DEF Step, Erases, Types
  <2>4. CASE h.act = "forget"
    BY <2>4, <1>5, <1>7 DEF Step, Erases, Types
  <2>5. CASE h.act \in {"read", "readkey", "save", "blank", "select"}
    BY <2>5 DEF Step, Types
  <2> QED BY <1>2, <2>1, <2>2, <2>3, <2>4, <2>5 DEF Jobs, Acts
<1>9. IsList(disk')
  BY DEF Step, Saves, Types
<1>10. ticked' \subseteq Id /\ sel' \in Whose /\ form' \in Forms /\ gets' \subseteq Asked
  <2>1. CASE h.act = "select"
    <3>1. SelectSite(h.id, sites, Early)
      BY <2>1 DEF Step
    <3>2. h.id \in Id /\ IsList(sites) /\ chain \in [Id \X Slot -> Whose]
      BY <2>1, <1>3 DEF Types
    <3>3. PICK id : id = h.id
      OBVIOUS
    <3>4. /\ ticked' = {id} /\ sel' = id /\ form' \in Forms
          /\ \A g \in gets' : g \in gets \/ g \in Asked
      BY <3>1, <3>2, <3>3, Selected
    <3>5. gets \subseteq Asked
      BY DEF Types
    <3> QED BY <3>2, <3>3, <3>4, <3>5 DEF Whose
  <2>2. CASE h.act = "blank"
    BY <2>2, BlankForm DEF Step, Show, Types
  <2>3. CASE h.act \notin {"select", "blank"}
    BY <2>3 DEF Step, selection, Types
  <2> QED BY <2>1, <2>2, <2>3
<1> QED BY <1>1, <1>8, <1>9, <1>10 DEF Types, IsList

(* A click that ticks or unticks selects the only site ticked, or none. *)
LEMMA Clicked ==
    ASSUME Types, Click
    PROVE  /\ UNCHANGED <<disk, chain, sites, tasks, shown, backup, own>>
           /\ \/ \E id \in DOMAIN sites \cup ticked : SelectSite(id, sites, Early)
              \/ /\ ticked' \subseteq ticked \cup DOMAIN sites
                 /\ Show(ticked', Null, Blank, Early) /\ gets' = gets
<1>1. PICK id \in DOMAIN sites :
          \/ SelectSite(id, sites, Early)
          \/ LET t == IF id \in ticked THEN ticked \ {id} ELSE ticked \cup {id} IN
             IF Cardinality(t) = 1 THEN SelectSite(CHOOSE i \in t : TRUE, sites, Early)
             ELSE Show(t, Null, Blank, Early) /\ gets' = gets
  BY DEF Click
<1> DEFINE t == IF id \in ticked THEN ticked \ {id} ELSE ticked \cup {id}
<1>2. UNCHANGED <<disk, chain, sites, tasks, shown, backup, own>>
  BY DEF Click
<1>3. CASE SelectSite(id, sites, Early)
  BY <1>2, <1>3
<1>4. CASE Cardinality(t) = 1 /\ SelectSite(CHOOSE i \in t : TRUE, sites, Early)
  <2>1. t # {}
    BY <1>4, FS_EmptySet
  <2>2. (CHOOSE i \in t : TRUE) \in DOMAIN sites \cup ticked
    BY <2>1
  <2> QED BY <1>2, <1>4, <2>2
<1>5. CASE Show(t, Null, Blank, Early) /\ gets' = gets
  BY <1>2, <1>5 DEF Show
<1> QED BY <1>1, <1>3, <1>4, <1>5

(* What a copy, a deletion and an import are to do. *)
LEMMA CopyJobs ==
    ASSUME NEW to \in Id, NEW id \in Id, NEW slots \in {<<"cloud">>, <<"pass", "keypass">>}
    PROVE  LET copies == [i \in DOMAIN slots |-> Job("copy", to, slots[i], id)]
               select == <<Job("select", to, "pass", Null)>> IN
           /\ select \in Todo /\ Ordered(select)
           /\ Range(select) = {Job("select", to, "pass", Null)}
           /\ copies \o select \in Todo /\ Ordered(copies \o select)
           /\ Range(copies \o select) = Range(select)
                 \cup {Job("copy", to, slot, id) : slot \in Range(slots)}
<1> DEFINE copies == [i \in DOMAIN slots |-> Job("copy", to, slots[i], id)]
           s == Job("select", to, "pass", Null)
           c(slot) == Job("copy", to, slot, id)
<1>1. s \in Jobs /\ \A slot \in Slot : c(slot) \in Jobs /\ c(slot).act = "copy"
  BY DEF Job, Jobs, Acts, Slot, Whose
<1>2. CASE slots = <<"cloud">>
  <2>1. copies = <<c("cloud")>> /\ "cloud" \in Slot
    BY <1>2 DEF Slot
  <2>2. Range(slots) = {"cloud"}
    BY <1>2, OneOrTwo
  <2> HIDE DEF copies, s, c
  <2>3. /\ copies \in Seq(Jobs) /\ <<s>> \in Seq(Jobs) /\ <<s>> # <<>>
        /\ Range(copies) = {c("cloud")} /\ Range(<<s>>) = {s}
        /\ Ordered(copies) /\ Ordered(<<s>>)
    BY <1>1, <2>1, OneOrTwo, FewOrdered
  <2>4. \A x \in Range(copies) : x.act \notin Closing
    BY <1>1, <2>1, <2>3 DEF Closing
  <2>5. copies \o <<s>> # <<>>
    BY <2>3, ConcatEqualIffEmpty
  <2>6. copies \o <<s>> \in Seq(Jobs) /\ Range(copies \o <<s>>) = {c("cloud"), s}
    <3> DEFINE one == <<s>>
    <3>0. copies \in Seq(Jobs) /\ one \in Seq(Jobs)
      BY <2>3
    <3> HIDE DEF one
    <3>1. copies \o one \in Seq(Jobs) /\ Range(copies \o one) = Range(copies) \cup Range(one)
      BY <3>0, Joined
    <3> QED BY <2>3, <3>1 DEF one
  <2>7. Ordered(copies \o <<s>>)
    BY <2>3, <2>4, OrderKept
  <2> QED BY <2>2, <2>3, <2>5, <2>6, <2>7 DEF Todo, copies, s, c
<1>3. CASE slots = <<"pass", "keypass">>
  <2>1. copies = <<c("pass"), c("keypass")>> /\ "pass" \in Slot /\ "keypass" \in Slot
    BY <1>3 DEF Slot
  <2>2. Range(slots) = {"pass", "keypass"}
    BY <1>3, OneOrTwo
  <2> HIDE DEF copies, s, c
  <2>3. /\ copies \in Seq(Jobs) /\ <<s>> \in Seq(Jobs) /\ <<s>> # <<>>
        /\ Range(copies) = {c("pass"), c("keypass")} /\ Range(<<s>>) = {s}
        /\ Ordered(copies) /\ Ordered(<<s>>)
    BY <1>1, <2>1, OneOrTwo, FewOrdered DEF Closing
  <2>4. \A x \in Range(copies) : x.act \notin Closing
    BY <1>1, <2>1, <2>3 DEF Closing
  <2>5. copies \o <<s>> # <<>>
    BY <2>3, ConcatEqualIffEmpty
  <2>6. copies \o <<s>> \in Seq(Jobs) /\ Range(copies \o <<s>>) = {c("pass"), c("keypass"), s}
    <3> DEFINE one == <<s>>
    <3>0. copies \in Seq(Jobs) /\ one \in Seq(Jobs)
      BY <2>3
    <3> HIDE DEF one
    <3>1. copies \o one \in Seq(Jobs) /\ Range(copies \o one) = Range(copies) \cup Range(one)
      BY <3>0, Joined
    <3> QED BY <2>3, <3>1 DEF one
  <2>7. Ordered(copies \o <<s>>)
    BY <2>3, <2>4, OrderKept
  <2> QED BY <2>2, <2>3, <2>5, <2>6, <2>7 DEF Todo, copies, s, c
<1> QED BY <1>2, <1>3

(* Every secret, then the file, then the form. *)
LEMMA DeletionJobs ==
    ASSUME IsList(sites), NEW gone \in SUBSET DOMAIN sites
    PROVE  LET jobs == Chained(gone) \o SaveJob \o BlankJob IN
           /\ jobs \in Todo /\ Ordered(jobs)
           /\ Range(jobs) = {Forget(id) : id \in gone}
                 \cup {Job("save", Null, "pass", Null), Job("blank", Null, "pass", Null)}
<1> DEFINE c == Chained(gone)
<1>1. c \in Seq(Jobs) /\ Range(c) = {Forget(id) : id \in gone}
  BY ForgetsAll
<1>2. \A x \in Range(c) : x.act \notin Closing
  BY <1>1 DEF Forget, Job, Closing
<1>3. Ordered(c)
  BY <1>2, <1>1 DEF Ordered, Range
<1>4. /\ SaveJob \in Seq(Jobs) /\ BlankJob \in Seq(Jobs) /\ Ordered(SaveJob) /\ Ordered(BlankJob)
      /\ Range(SaveJob) = {Job("save", Null, "pass", Null)}
      /\ Range(BlankJob) = {Job("blank", Null, "pass", Null)} /\ BlankJob # <<>>
  <2>1. Job("save", Null, "pass", Null) \in Jobs /\ Job("blank", Null, "pass", Null) \in Jobs
    BY DEF Job, Jobs, Acts, Slot, Whose
  <2> QED BY <2>1, OneOrTwo, FewOrdered DEF SaveJob, BlankJob
<1>5. \A x \in Range(BlankJob) : x.act = "blank"
  BY <1>4 DEF Job
<1> HIDE DEF c
<1>6. c \o SaveJob \in Seq(Jobs) /\ Range(c \o SaveJob) = Range(c) \cup Range(SaveJob)
  BY <1>1, <1>4, Joined
<1>7. Ordered(c \o SaveJob)
  BY <1>1, <1>2, <1>3, <1>4, OrderKept
<1>8. /\ (c \o SaveJob) \o BlankJob \in Seq(Jobs)
      /\ Range((c \o SaveJob) \o BlankJob) = Range(c \o SaveJob) \cup Range(BlankJob)
  <2> DEFINE q == c \o SaveJob
  <2>1. q \in Seq(Jobs) /\ BlankJob \in Seq(Jobs)
    BY <1>4, <1>6
  <2> HIDE DEF q
  <2>2. q \o BlankJob \in Seq(Jobs) /\ Range(q \o BlankJob) = Range(q) \cup Range(BlankJob)
    BY <2>1, Joined
  <2> QED BY <2>2 DEF q
<1>9. Ordered((c \o SaveJob) \o BlankJob)
  BY <1>4, <1>5, <1>6, <1>7, OrderKept
<1>10. (c \o SaveJob) \o BlankJob # <<>>
  BY <1>4, <1>6, ConcatEqualIffEmpty
<1> QED BY <1>1, <1>4, <1>6, <1>8, <1>9, <1>10 DEF Todo, c

(* A deletion, as a whole. *)
LEMMA Deleted ==
    ASSUME Types, DeleteSite
    PROVE  \E gone \in SUBSET (ticked \cap DOMAIN sites), jobs \in Todo :
              /\ Ordered(jobs)
              /\ Range(jobs) = {Forget(id) : id \in gone}
                    \cup {Job("save", Null, "pass", Null), Job("blank", Null, "pass", Null)}
              /\ sites' = Without(sites, gone)
              /\ tasks' = tasks \cup {Task("delete", Null, "none", jobs)}
              /\ ticked' = {} /\ sel' = Null /\ odd' = odd \cup Overlap
              /\ UNCHANGED <<disk, chain, form, gets, shown, backup, own>>
<1> DEFINE gone == ticked \cap DOMAIN sites
           jobs == Chained(gone) \o SaveJob \o BlankJob
<1>1. /\ sites' = Without(sites, gone)
      /\ tasks' = tasks \cup {Task("delete", Null, "none", jobs)}
      /\ ticked' = {} /\ sel' = Null /\ odd' = odd \cup Overlap
      /\ UNCHANGED <<disk, chain, form, gets, shown, backup, own>>
  BY DEF DeleteSite, DeletesIn, Start
<1>2. /\ jobs \in Todo /\ Ordered(jobs)
      /\ Range(jobs) = {Forget(id) : id \in gone}
            \cup {Job("save", Null, "pass", Null), Job("blank", Null, "pass", Null)}
  BY DeletionJobs DEF Types
<1> HIDE DEF jobs
<1> QED BY <1>1, <1>2

(* A site duplicated: saved, then its secrets are copied; else it is only selected. *)
LEMMA Duplicated ==
    ASSUME Types, DuplicateSite
    PROVE  \E id \in DOMAIN sites, jobs \in Todo :
              /\ HasFresh /\ sites' = With(sites, Fresh, sites[id])
              /\ own' = [own EXCEPT ![Fresh] = own[id]] /\ disk' \in {disk, sites'}
              /\ tasks' = tasks \cup {Task("duplicate", Fresh, "none", jobs)}
              /\ Ordered(jobs)
              /\ \A j \in Range(jobs) :
                    \/ j = Job("select", Fresh, "pass", Null)
                    \/ /\ disk' = sites'
                       /\ \E slot \in Slot : /\ Fits(slot, sites[id].logon)
                                             /\ j = Job("copy", Fresh, slot, id)
              /\ odd' = odd \cup Overlap
              /\ UNCHANGED <<chain, selection, shown, backup>>
<1> DEFINE slots(id) == IF sites[id].logon = "cloud" THEN <<"cloud">> ELSE <<"pass", "keypass">>
           copies(id) == [i \in DOMAIN slots(id) |-> Job("copy", Fresh, slots(id)[i], id)]
           select == <<Job("select", Fresh, "pass", Null)>>
           new(jobs) == Task("duplicate", Fresh, "none", jobs)
<1>1. PICK id \in DOMAIN sites :
          /\ sites' = With(sites, Fresh, sites[id])
          /\ own' = [own EXCEPT ![Fresh] = own[id]]
          /\ \/ disk' = sites' /\ tasks' = tasks \cup {new(copies(id) \o select)}
             \/ disk' = disk /\ tasks' = tasks \cup {new(select)}
  BY DEF DuplicateSite, Saves, Start
<1>2. HasFresh /\ odd' = odd \cup Overlap /\ UNCHANGED <<chain, selection, shown, backup>>
  BY DEF DuplicateSite
<1>3. Fresh \in Id /\ id \in Id
  BY <1>2, FreshIsFree DEF Types, IsList
<1>4. slots(id) \in {<<"cloud">>, <<"pass", "keypass">>}
  OBVIOUS
<1>5. /\ select \in Todo /\ Ordered(select)
      /\ Range(select) = {Job("select", Fresh, "pass", Null)}
      /\ copies(id) \o select \in Todo /\ Ordered(copies(id) \o select)
      /\ Range(copies(id) \o select) = Range(select)
            \cup {Job("copy", Fresh, slot, id) : slot \in Range(slots(id))}
  BY <1>3, <1>4, CopyJobs
<1>6. \A slot \in Range(slots(id)) : slot \in Slot /\ Fits(slot, sites[id].logon)
  BY OneOrTwo DEF Slot, Fits
<1> HIDE DEF slots, copies, select, new
<1>7. CASE disk' = sites' /\ tasks' = tasks \cup {new(copies(id) \o select)}
  BY <1>1, <1>2, <1>5, <1>6, <1>7 DEF new
<1>8. CASE disk' = disk /\ tasks' = tasks \cup {new(select)}
  BY <1>1, <1>2, <1>5, <1>8 DEF new
<1> QED BY <1>1, <1>7, <1>8

(* A site of a backup imported as a new one, or over one with the same data. *)
LEMMA Imported ==
    ASSUME Types, ImportSites
    PROVE  \E b \in backup, id \in Id :
              /\ b.site.logon # "cloud"
              /\ \/ id \in DOMAIN sites /\ sites[id].data = b.site.data
                 \/ HasFresh /\ id = Fresh
              /\ sites' = With(sites, id, b.site) /\ own' = [own EXCEPT ![id] = b.own]
              /\ odd' = odd \cup Overlap \cup (IF id \in DOMAIN sites
                                               THEN Replaced(sites[id].logon, b.site.logon) ELSE {})
              /\ disk' \in {disk, sites'}
              /\ \/ tasks' = tasks
                 \/ /\ disk' = sites' /\ b.secret # Null
                    /\ tasks' = tasks \cup {Task("import", id, "none", <<SetIt(id, "pass", b.secret)>>)}
              /\ UNCHANGED <<chain, selection, shown, backup>>
<1>1. PICK b \in Parsed : \E id \in {i \in DOMAIN sites : sites[i].data = b.site.data}
                 \cup (IF HasFresh THEN {Fresh} ELSE {}) :
          /\ sites' = With(sites, id, b.site)
          /\ own' = [own EXCEPT ![id] = b.own]
          /\ odd' = odd \cup Overlap \cup (IF id \in DOMAIN sites
                                           THEN Replaced(sites[id].logon, b.site.logon) ELSE {})
          /\ Saves(sites',
                   IF ImportJobs(id, b) = <<>> THEN UNCHANGED tasks
                   ELSE Start(Task("import", id, "none", ImportJobs(id, b))),
                   UNCHANGED tasks)
  BY DEF ImportSites
<1>2. PICK id \in {i \in DOMAIN sites : sites[i].data = b.site.data}
                 \cup (IF HasFresh THEN {Fresh} ELSE {}) :
          /\ sites' = With(sites, id, b.site)
          /\ own' = [own EXCEPT ![id] = b.own]
          /\ odd' = odd \cup Overlap \cup (IF id \in DOMAIN sites
                                           THEN Replaced(sites[id].logon, b.site.logon) ELSE {})
          /\ Saves(sites',
                   IF ImportJobs(id, b) = <<>> THEN UNCHANGED tasks
                   ELSE Start(Task("import", id, "none", ImportJobs(id, b))),
                   UNCHANGED tasks)
  BY <1>1
<1>3. b \in backup /\ b.site.logon # "cloud"
  BY DEF Parsed
<1>4. /\ id \in Id
      /\ \/ id \in DOMAIN sites /\ sites[id].data = b.site.data
         \/ HasFresh /\ id = Fresh
  BY FreshIsFree DEF Types, IsList
<1>5. /\ disk' \in {disk, sites'}
      /\ \/ tasks' = tasks
         \/ /\ disk' = sites' /\ b.secret # Null
            /\ tasks' = tasks \cup {Task("import", id, "none", <<SetIt(id, "pass", b.secret)>>)}
  BY <1>2 DEF Saves, Start, ImportJobs
<1>6. UNCHANGED <<chain, selection, shown, backup>>
  BY DEF ImportSites
<1> QED BY <1>2, <1>3, <1>4, <1>5, <1>6

(* A site saved; what is done with its secrets is read from the form later. *)
LEMMA SiteSaved ==
    ASSUME Types, SaveSite
    PROVE  /\ sel \in DOMAIN sites /\ sel \in Id
           /\ sites' = [sites EXCEPT ![sel] = Site(form.logon, form.data)]
           /\ DOMAIN sites' = DOMAIN sites /\ IsList(sites')
           /\ sites'[sel] = Site(form.logon, form.data)
           /\ \A i \in DOMAIN sites : i # sel => sites'[i] = sites[i]
           /\ odd \cup Overlap \cup Recast(sites[sel].logon, form.logon) \subseteq odd'
           /\ odd' \subseteq odd \cup Overlap \cup Recast(sites[sel].logon, form.logon) \cup {"cut"}
           /\ \/ /\ disk' = sites'
                 /\ tasks' = tasks \cup {Task("save", sel, form.logon, <<Job("read", sel, "pass", Null)>>)}
              \/ disk' = disk /\ tasks' = tasks /\ "cut" \in odd'
           /\ UNCHANGED <<chain, selection, shown, backup, own>>
<1>1. /\ sel \in DOMAIN sites
      /\ sites' = [sites EXCEPT ![sel] = Site(form.logon, form.data)]
      /\ \/ /\ disk' = sites'
            /\ tasks' = tasks \cup {Task("save", sel, form.logon, <<Job("read", sel, "pass", Null)>>)}
            /\ odd' = odd \cup Overlap \cup Recast(sites[sel].logon, form.logon)
         \/ /\ disk' = disk /\ tasks' = tasks
            /\ odd' = odd \cup Overlap \cup Recast(sites[sel].logon, form.logon) \cup {"cut"}
      /\ UNCHANGED <<chain, selection, shown, backup, own>>
  BY DEF SaveSite, Saves, Start
<1>2. Site(form.logon, form.data) \in Sites /\ IsList(sites)
  BY DEF Types, Forms, Site, Sites
<1> QED BY <1>1, <1>2 DEF IsList

(* Read again, the list is what is on file; or else it is empty, and that is noted. *)
LEMMA ReadAgain ==
    ASSUME Types, Loaded \/ Crash
    PROVE  /\ IsList(sites') /\ IsList(disk')
           /\ \A i \in DOMAIN sites' : i \in DOMAIN disk /\ sites'[i] = disk[i]
           /\ \A i \in DOMAIN disk' : i \in DOMAIN disk /\ disk'[i] = disk[i]
           /\ "unread" \notin odd' => sites' = disk /\ disk' = disk
           /\ odd \subseteq odd' /\ UNCHANGED <<chain, backup, own>>
<1>1. PICK unread \in BOOLEAN :
          /\ LoadSites(unread)
          /\ odd \subseteq odd' /\ Unread(unread) \subseteq odd'
          /\ UNCHANGED <<chain, backup, own>>
  BY DEF Loaded, Crash, Show
<1>2. IsList(NoSites) /\ DOMAIN NoSites = {} /\ IsList(disk)
  BY DEF NoSites, IsList, Types
<1>3. CASE unread
  <2>1. sites' = NoSites /\ disk' \in {disk, NoSites}
    BY <1>1, <1>3 DEF LoadSites
  <2> QED BY <1>1, <1>2, <1>3, <2>1 DEF Unread
<1>4. CASE ~unread
  <2>1. sites' = disk /\ disk' = disk
    BY <1>1, <1>4 DEF LoadSites
  <2> QED BY <1>1, <1>2, <2>1
<1> QED BY <1>3, <1>4

(* What a backup holds of a site. *)
LEMMA Exported ==
    ASSUME ExportSites
    PROVE  \A b \in backup' : \E i \in ticked \cap DOMAIN sites :
              /\ b.site = sites[i] /\ b.own = own[i]
              /\ \/ b.secret = Null
                 \/ /\ sites[i].logon \in {"normal", "cloud"} /\ SlotOf(sites[i].logon) \in Slot
                    /\ b.secret = chain[<<i, SlotOf(sites[i].logon)>>]
<1>1. backup' = {[site |-> sites[i], own |-> own[i],
                  secret |-> IF sites[i].logon \in {"normal", "cloud"}
                             THEN chain[<<i, SlotOf(sites[i].logon)>>] ELSE Null] :
                    i \in ticked \cap DOMAIN sites}
  BY DEF ExportSites
<1>2. \A logon \in {"normal", "cloud"} : SlotOf(logon) \in Slot
  BY DEF SlotOf, Slot
<1> TAKE b \in backup'
<1>3. PICK i \in ticked \cap DOMAIN sites :
          b = [site |-> sites[i], own |-> own[i],
               secret |-> IF sites[i].logon \in {"normal", "cloud"}
                          THEN chain[<<i, SlotOf(sites[i].logon)>>] ELSE Null]
  BY <1>1
<1> QED BY <1>2, <1>3

(* The types of a task just started. *)
LEMMA NewTask ==
    ASSUME NEW kind \in Kinds, NEW id \in Whose, NEW logon \in Logons \cup {"none"}, NEW jobs \in Todo
    PROVE  LET t == Task(kind, id, logon, jobs) IN
           /\ t \in Tasks /\ t.kind = kind /\ t.id = id /\ t.logon = logon /\ t.jobs = jobs
BY DEF Task, Tasks

(* One job is something to do. *)
LEMMA OneToDo ==
    ASSUME NEW act \in Acts, NEW id \in Whose, NEW slot \in Slot, NEW whose \in Whose
    PROVE  LET j == Job(act, id, slot, whose) IN
           /\ j \in Jobs /\ j.act = act /\ j.id = id /\ j.slot = slot /\ j.whose = whose
           /\ <<j>> \in Todo /\ Range(<<j>>) = {j} /\ Ordered(<<j>>)
<1>1. LET j == Job(act, id, slot, whose) IN
      /\ j \in Jobs /\ j.act = act /\ j.id = id /\ j.slot = slot /\ j.whose = whose
  BY DEF Job, Jobs
<1> QED BY <1>1, OneOrTwo, FewOrdered DEF Todo

(* A step keeps the types. *)
LEMMA TypesNext == ASSUME Types, Known, [Next]_vars PROVE Types'
<1>1. CASE Click
  <2>1. UNCHANGED <<disk, chain, sites, tasks, shown, backup, own>>
    BY <1>1, Clicked
  <2>2. ticked' \subseteq Id /\ sel' \in Whose /\ form' \in Forms /\ gets' \subseteq Asked
    <3>1. ASSUME NEW id \in DOMAIN sites \cup ticked, SelectSite(id, sites, Early)
          PROVE  ticked' \subseteq Id /\ sel' \in Whose /\ form' \in Forms /\ gets' \subseteq Asked
      <4>1. id \in Id /\ IsList(sites) /\ chain \in [Id \X Slot -> Whose]
        BY DEF Types, IsList
      <4>2. /\ ticked' = {id} /\ sel' = id /\ form' \in Forms
            /\ \A g \in gets' : g \in gets \/ g \in Asked
        BY <3>1, <4>1, Selected
      <4> QED BY <4>1, <4>2 DEF Types, Whose
    <3>2. ASSUME ticked' \subseteq ticked \cup DOMAIN sites,
                 Show(ticked', Null, Blank, Early) /\ gets' = gets
          PROVE  ticked' \subseteq Id /\ sel' \in Whose /\ form' \in Forms /\ gets' \subseteq Asked
      BY <3>2, BlankForm DEF Show, Types, IsList, Whose
    <3> QED BY <1>1, <3>1, <3>2, Clicked
  <2> QED BY <2>1, <2>2 DEF Types, IsList
<1>2. CASE TypeInForm
  <2>1. PICK logon \in Logon, typed \in BOOLEAN :
          LET s == IF typed /\ SlotOf(logon) \in Slot
                   THEN [form.secrets EXCEPT ![SlotOf(logon)] = form.data] ELSE form.secrets
              shows == IF logon = "normal" THEN s ELSE [s EXCEPT !["pass"] = Null]
          IN Show(ticked, sel, [form EXCEPT !.logon = logon, !.secrets = shows], {})
    BY <1>2 DEF TypeInForm
  <2> DEFINE s == IF typed /\ SlotOf(logon) \in Slot
                  THEN [form.secrets EXCEPT ![SlotOf(logon)] = form.data] ELSE form.secrets
             shows == IF logon = "normal" THEN s ELSE [s EXCEPT !["pass"] = Null]
  <2>2. form \in Forms /\ form.secrets \in [Slot -> Whose] /\ form.data \in Whose /\ Null \in Whose
    BY DEF Types, Forms, Whose
  <2>3. s \in [Slot -> Whose]
    BY <2>2
  <2>4. shows \in [Slot -> Whose]
    BY <2>2, <2>3
  <2>5. form' = [form EXCEPT !.logon = logon, !.secrets = shows] /\ ticked' = ticked /\ sel' = sel
    BY <2>1 DEF Show
  <2> HIDE DEF shows
  <2>6. form' \in Forms
    BY <2>2, <2>4, <2>5 DEF Forms, Logons
  <2> QED BY <1>2, <2>5, <2>6 DEF TypeInForm, Types, IsList
<1>3. CASE OpenSites
  BY <1>3 DEF OpenSites, Types, IsList, Whose
<1>4. CASE Loaded
  <2>1. UNCHANGED <<ticked, sel, gets, tasks>> /\ form' = Blank
    BY <1>4 DEF Loaded, Show
  <2> QED BY <1>4, <2>1, BlankForm, ReadAgain DEF Types
<1>5. CASE CloseSites
  BY <1>5 DEF CloseSites, selection, Types, IsList
<1>6. CASE NewSite
  <2>1. /\ HasFresh /\ sites' = With(sites, Fresh, Site("normal", Fresh))
        /\ own' = [own EXCEPT ![Fresh] = Fresh] /\ SelectSite(Fresh, sites', Early)
        /\ UNCHANGED <<disk, chain, tasks, shown, backup>>
    BY <1>6 DEF NewSite
  <2>2. Fresh \in Id /\ Site("normal", Fresh) \in Sites
    BY <2>1, FreshIsFree DEF Site, Sites, Logons, Whose
  <2>3. IsList(sites')
    BY <2>1, <2>2, ListWith DEF Types
  <2>4. ticked' = {Fresh} /\ sel' = Fresh /\ form' \in Forms
        /\ \A g \in gets' : g \in gets \/ g \in Asked
    BY <2>1, <2>2, <2>3, Selected DEF Types
  <2>5. own' \in [Id -> Whose]
    BY <2>1, <2>2 DEF Types, Whose
  <2> QED BY <2>1, <2>2, <2>3, <2>4, <2>5 DEF Types, IsList, Whose
<1>7. CASE SaveSite
  <2>1. tasks' \subseteq Tasks
    <3>1. sel \in Id /\ form.logon \in Logons
      BY <1>7, SiteSaved DEF Types, Forms
    <3>2. <<Job("read", sel, "pass", Null)>> \in Todo
      BY <3>1, OneToDo DEF Acts, Slot, Whose
    <3>3. Task("save", sel, form.logon, <<Job("read", sel, "pass", Null)>>) \in Tasks
      BY <3>1, <3>2, NewTask DEF Kinds, Whose
    <3> QED BY <1>7, <3>3, SiteSaved DEF Types
  <2> QED BY <1>7, <2>1, SiteSaved DEF Types, selection, IsList
<1>8. CASE DuplicateSite
  <2>1. PICK id \in DOMAIN sites, jobs \in Todo :
              /\ HasFresh /\ sites' = With(sites, Fresh, sites[id])
              /\ own' = [own EXCEPT ![Fresh] = own[id]] /\ disk' \in {disk, sites'}
              /\ tasks' = tasks \cup {Task("duplicate", Fresh, "none", jobs)}
              /\ UNCHANGED <<chain, selection, shown, backup>>
    BY <1>8, Duplicated
  <2>2. Fresh \in Id /\ id \in Id /\ sites[id] \in Sites
    BY <2>1, FreshIsFree DEF Types, IsList
  <2>3. IsList(sites') /\ IsList(disk')
    <3>1. IsList(sites')
      BY <2>1, <2>2, ListWith DEF Types
    <3> QED BY <2>1, <3>1 DEF Types, IsList
  <2>4. Task("duplicate", Fresh, "none", jobs) \in Tasks
    BY <2>2, NewTask DEF Kinds, Whose
  <2>5. own' \in [Id -> Whose]
    BY <2>1, <2>2 DEF Types
  <2> QED BY <2>1, <2>3, <2>4, <2>5 DEF Types, selection, IsList
<1>9. CASE DeleteSite
  <2>1. PICK gone \in SUBSET (ticked \cap DOMAIN sites), jobs \in Todo :
              /\ sites' = Without(sites, gone)
              /\ tasks' = tasks \cup {Task("delete", Null, "none", jobs)}
              /\ ticked' = {} /\ sel' = Null
              /\ UNCHANGED <<disk, chain, form, gets, shown, backup, own>>
    BY <1>9, Deleted
  <2>2. IsList(sites')
    BY <2>1, ListWithout DEF Types
  <2>3. Task("delete", Null, "none", jobs) \in Tasks
    BY NewTask DEF Kinds, Whose
  <2> QED BY <2>1, <2>2, <2>3 DEF Types, IsList, Whose
<1>10. CASE ExportSites
  <2>1. backup' \subseteq Entries
    <3> SUFFICES ASSUME NEW i \in ticked \cap DOMAIN sites
                 PROVE  [site |-> sites[i], own |-> own[i],
                         secret |-> IF sites[i].logon \in {"normal", "cloud"}
                                    THEN chain[<<i, SlotOf(sites[i].logon)>>] ELSE Null] \in Entries
      BY <1>10 DEF ExportSites
    <3>1. i \in Id /\ sites[i] \in Sites /\ own[i] \in Id
      BY DEF Types, IsList, Known, Whose
    <3>2. sites[i].logon \in {"normal", "cloud"} => SlotOf(sites[i].logon) \in Slot
      BY DEF SlotOf, Slot
    <3>3. (IF sites[i].logon \in {"normal", "cloud"}
           THEN chain[<<i, SlotOf(sites[i].logon)>>] ELSE Null) \in Whose
      BY <3>1, <3>2 DEF Types, Whose
    <3> QED BY <3>1, <3>3 DEF Entries
  <2> QED BY <1>10, <2>1 DEF ExportSites, selection, Types, IsList
<1>11. CASE ImportSites
  <2>1. PICK b \in backup, id \in Id :
              /\ sites' = With(sites, id, b.site) /\ own' = [own EXCEPT ![id] = b.own]
              /\ disk' \in {disk, sites'}
              /\ \/ tasks' = tasks
                 \/ tasks' = tasks \cup {Task("import", id, "none", <<SetIt(id, "pass", b.secret)>>)}
              /\ UNCHANGED <<chain, selection, shown, backup>>
    BY <1>11, Imported
  <2>2. b.site \in Sites /\ b.own \in Id /\ b.secret \in Whose
    BY DEF Types, Entries
  <2>3. IsList(sites') /\ IsList(disk')
    <3>1. IsList(sites')
      BY <2>1, <2>2, ListWith DEF Types
    <3> QED BY <2>1, <3>1 DEF Types, IsList
  <2>4. Task("import", id, "none", <<SetIt(id, "pass", b.secret)>>) \in Tasks
    <3>1. <<SetIt(id, "pass", b.secret)>> \in Todo
      BY <2>2, OneToDo DEF SetIt, Acts, Slot, Whose
    <3> QED BY <3>1, NewTask DEF Kinds, Whose
  <2>5. own' \in [Id -> Whose]
    BY <2>1, <2>2 DEF Types, Whose
  <2> QED BY <2>1, <2>3, <2>4, <2>5 DEF Types, selection, IsList
<1>12. CASE Crash
  <2>1. ticked' = {} /\ sel' = Null /\ form' = Blank /\ gets' = {} /\ tasks' = {}
    BY <1>12 DEF Crash
  <2> QED BY <1>12, <2>1, BlankForm, ReadAgain DEF Types, Whose
<1>13. ASSUME NEW g \in gets, SecretCame(g) PROVE Types'
  <2>1. form' \in Forms
    <3>1. g.whose \in Whose /\ g.slot \in Slot /\ form \in Forms
      BY DEF Types, Asked
    <3> QED BY <1>13, <3>1 DEF SecretCame, Forms
  <2> QED BY <1>13, <2>1 DEF SecretCame, Types, IsList
<1>14. ASSUME NEW t \in tasks, Step(t), UNCHANGED <<sites, shown, backup, own, requests>> PROVE Types'
  BY <1>14, TypesStep
<1>15. CASE UNCHANGED vars
  BY <1>15 DEF vars, Types, IsList
<1> QED BY <1>1, <1>2, <1>3, <1>4, <1>5, <1>6, <1>7, <1>8, <1>9, <1>10, <1>11, <1>12, <1>13, <1>14,
           <1>15 DEF Next

-----------------------------------------------------------------------------
(* Identifiers are used once. *)

(* The data a site was created with is not forgotten, nor what went wrong. *)
LEMMA OwnGrows ==
    ASSUME Types, [Next]_vars
    PROVE  /\ \A i \in Id : own[i] # Null => own'[i] # Null
           /\ odd \subseteq odd'
<1>1. CASE Click
  <2>1. UNCHANGED own
    BY <1>1 DEF Click
  <2>2. odd \subseteq odd'
    BY <1>1, Clicked DEF SelectSite, Show
  <2> QED BY <2>1, <2>2
<1>2. CASE TypeInForm
  BY <1>2 DEF TypeInForm, Show
<1>3. CASE OpenSites \/ Loaded \/ CloseSites \/ Crash \/ ExportSites
  BY <1>3 DEF OpenSites, Loaded, Show, CloseSites, Crash, ExportSites
<1>4. CASE NewSite
  <2>1. own' = [own EXCEPT ![Fresh] = Fresh] /\ Fresh \in Id
    BY <1>4, FreshIsFree DEF NewSite
  <2>2. odd \subseteq odd'
    BY <1>4 DEF NewSite, SelectSite, Show
  <2> QED BY <2>1, <2>2, SitesAssumption DEF Types
<1>5. CASE SaveSite
  BY <1>5, SiteSaved
<1>6. CASE DuplicateSite
  <2>1. HasFresh /\ odd \subseteq odd' /\ \E x : own' = [own EXCEPT ![Fresh] = x]
    BY <1>6, Duplicated
  <2>2. own[Fresh] = Null
    BY <2>1, FreshIsFree
  <2> QED BY <2>1, <2>2 DEF Types
<1>7. CASE DeleteSite
  <2>1. own' = own /\ odd \subseteq odd'
    BY <1>7, Deleted
  <2> QED BY <2>1
<1>8. CASE ImportSites
  <2>1. /\ odd \subseteq odd'
        /\ \E b \in backup, id \in Id : own' = [own EXCEPT ![id] = b.own]
    BY <1>8, Imported
  <2>2. \A b \in backup : b.own \in Id
    BY DEF Types, Entries
  <2> QED BY <2>1, <2>2, SitesAssumption DEF Types
<1>9. ASSUME NEW g \in gets, SecretCame(g) PROVE own' = own /\ odd \subseteq odd'
  BY <1>9 DEF SecretCame
<1>10. ASSUME NEW t \in tasks, Step(t), UNCHANGED <<sites, shown, backup, own, requests>>
       PROVE  own' = own /\ odd \subseteq odd'
  BY <1>10 DEF Step, Sets, Erases, SelectSite, Show
<1>11. CASE UNCHANGED vars
  BY <1>11 DEF vars
<1> QED BY <1>1, <1>2, <1>3, <1>4, <1>5, <1>6, <1>7, <1>8, <1>9, <1>10, <1>11 DEF Next

(* What a task had to do remains in order. *)
LEMMA TaskStaysOK ==
    ASSUME Types, [Next]_vars, NEW t \in Tasks, TaskOK(t)
    PROVE  TaskOK(t)'
<1>1. \A i \in Id : own[i] # Null => own'[i] # Null
  BY OwnGrows
<1>2. \A kind, logon, j : JobOK(kind, logon, j) => JobOK(kind, logon, j)'
  BY <1>1 DEF JobOK
<1>3. t.kind = "save" => t.id \in Id /\ own'[t.id] # Null
  BY <1>1 DEF TaskOK
<1> QED BY <1>2, <1>3 DEF TaskOK

(* So does what it goes on with. *)
LEMMA NextJobOK ==
    ASSUME Types, Known, NEW t \in tasks, NEW j, NextJob(t, Head(t.jobs), j)
    PROVE  JobOK(t.kind, t.logon, j)
<1> DEFINE h == Head(t.jobs)
<1>1. t \in Tasks /\ TaskOK(t) /\ h \in Range(t.jobs) /\ JobOK(t.kind, t.logon, h)
  <2>1. t \in Tasks /\ t.jobs \in Seq(Jobs) /\ t.jobs # <<>>
    BY DEF Types, Tasks, Todo
  <2> QED BY <2>1, HeadOrTail DEF Known, TaskOK
<1>2. CASE j \in Range(t.jobs)
  BY <1>1, <1>2 DEF TaskOK
<1>3. CASE h.act = "forget" /\ j = DeleteIt(h.id, "keypass")
  BY <1>1, <1>3 DEF JobOK, DeleteIt, Job, Deletes, Closing
<1>4. CASE h.act \in {"read", "readkey"}
           /\ \E slot \in Slot : j = Put(t.id, slot, form.secrets[slot])
  BY <1>1, <1>4 DEF JobOK, TaskOK, Put, SetIt, DeleteIt, Job, Deletes, Closing
<1>5. CASE h.act = "read" /\ \E slot \in Slot : j = DeleteIt(t.id, slot)
  BY <1>1, <1>5 DEF JobOK, TaskOK, DeleteIt, Job, Deletes, Closing
<1>6. CASE h.act = "read" /\ t.logon = "key" /\ j = Job("readkey", t.id, "keypass", Null)
  BY <1>1, <1>6 DEF JobOK, TaskOK, Job, Deletes, Closing
<1> QED BY <1>2, <1>3, <1>4, <1>5, <1>6 DEF NextJob

(* At first. *)
LEMMA KnownInit == ASSUME Init PROVE Known
<1>1. \A i \in DOMAIN Saved : i # Null /\ i \in Id
  BY SitesAssumption
<1> QED BY <1>1 DEF Init, Known

(* A step of a task. *)
LEMMA KnownStep ==
    ASSUME Types, Known, NEW t \in tasks, Step(t), UNCHANGED <<sites, shown, backup, own, requests>>
    PROVE  Known'
<1> DEFINE h == Head(t.jobs)
<1>1. t \in Tasks /\ TaskOK(t) /\ h \in Range(t.jobs) /\ JobOK(t.kind, t.logon, h)
  <2>1. t \in Tasks /\ t.jobs \in Seq(Jobs) /\ t.jobs # <<>>
    BY DEF Types, Tasks, Todo
  <2> QED BY <2>1, HeadOrTail DEF Known, TaskOK
<1>2. \A u \in tasks' : TaskOK(u)'
  <2> SUFFICES ASSUME NEW u \in tasks' PROVE TaskOK(u)'
    OBVIOUS
  <2>1. CASE u \in tasks
    BY <2>1 DEF Known, TaskOK, JobOK
  <2>2. CASE /\ u.kind = t.kind /\ u.id = t.id /\ u.logon = t.logon /\ Ordered(u.jobs)
             /\ \A j \in Range(u.jobs) : NextJob(t, h, j)
    <3>1. \A j \in Range(u.jobs) : JobOK(u.kind, u.logon, j)
      BY <2>2, NextJobOK
    <3>2. TaskOK(u)
      BY <1>1, <2>2, <3>1 DEF TaskOK
    <3> QED BY <3>2 DEF TaskOK, JobOK
  <2> QED BY <2>1, <2>2, StepTasks
<1>3. disk' \in {disk, sites}
  BY DEF Step, Saves
<1>4. /\ \A id \in ticked' : own[id] # Null
      /\ sel' # Null => own[sel'] # Null
      /\ \A g \in gets' : own[g.id] # Null
  <2>1. CASE h.act = "select"
    <3>1. SelectSite(h.id, sites, Early)
      BY <2>1 DEF Step
    <3>2. h.id \in Id /\ own[h.id] # Null /\ IsList(sites) /\ chain \in [Id \X Slot -> Whose]
      BY <2>1, <1>1 DEF Types, JobOK
    <3>3. ticked' = {h.id} /\ sel' = h.id /\ \A g \in gets' : g \in gets \/ g.id = h.id
      BY <3>1, <3>2, Selected
    <3> QED BY <3>2, <3>3 DEF Known
  <2>2. CASE h.act # "select"
    <3>1. UNCHANGED <<ticked, sel, gets>>
      BY <2>2 DEF Step, selection, Show
    <3> QED BY <3>1 DEF Known
  <2> QED BY <2>1, <2>2
<1> QED BY <1>2, <1>3, <1>4 DEF Known

(* A step keeps this. *)
LEMMA KnownNext == ASSUME Types, Known, [Next]_vars PROVE Known'
<1>1. /\ \A i \in Id : own[i] # Null => own'[i] # Null
      /\ \A t \in tasks : TaskOK(t)'
  BY OwnGrows, TaskStaysOK DEF Types, Known
<1>2. /\ DOMAIN sites \subseteq Id /\ DOMAIN disk \subseteq Id /\ ticked \subseteq Id
      /\ sel \in Whose /\ \A g \in gets : g.id \in Id
  BY DEF Types, IsList, Asked
<1>3. /\ \A id \in DOMAIN sites \cup DOMAIN disk \cup ticked : own'[id] # Null
      /\ sel # Null => own'[sel] # Null
      /\ \A g \in gets : own'[g.id] # Null
  BY <1>1, <1>2 DEF Known, Whose
<1>4. CASE Click
  <2>1. UNCHANGED <<disk, sites, tasks>>
    BY <1>4, Clicked
  <2>2. ASSUME NEW id \in DOMAIN sites \cup ticked, SelectSite(id, sites, Early)
        PROVE  Known'
    <3>1. id \in Id /\ IsList(sites) /\ chain \in [Id \X Slot -> Whose]
      BY <1>2 DEF Types
    <3>2. ticked' = {id} /\ sel' = id /\ \A g \in gets' : g \in gets \/ g.id = id
      BY <2>2, <3>1, Selected
    <3> QED BY <1>1, <1>3, <2>1, <3>2 DEF Known
  <2>3. ASSUME ticked' \subseteq ticked \cup DOMAIN sites,
               Show(ticked', Null, Blank, Early) /\ gets' = gets
        PROVE  Known'
    <3>1. sel' = Null
      BY <2>3 DEF Show
    <3> QED BY <1>1, <1>3, <2>1, <2>3, <3>1 DEF Known
  <2> QED BY <1>4, <2>2, <2>3, Clicked
<1>5. CASE TypeInForm
  <2>1. UNCHANGED <<disk, sites, ticked, sel, gets, tasks>>
    BY <1>5 DEF TypeInForm, Show
  <2> QED BY <1>1, <1>3, <2>1 DEF Known
<1>6. CASE OpenSites \/ Loaded \/ CloseSites \/ ExportSites \/ Crash
  <2>1. /\ ticked' \in {ticked, {}}
        /\ sel' \in {sel, Null} /\ gets' \in {gets, {}} /\ tasks' \in {tasks, {}}
    BY <1>6 DEF OpenSites, Loaded, CloseSites, ExportSites, Crash, Show, selection
  <2>2. DOMAIN disk' \subseteq DOMAIN disk /\ DOMAIN sites' \subseteq DOMAIN sites \cup DOMAIN disk
    <3>1. CASE Loaded \/ Crash
      BY <3>1, ReadAgain
    <3>2. CASE OpenSites \/ CloseSites \/ ExportSites
      BY <3>2 DEF OpenSites, CloseSites, ExportSites
    <3> QED BY <1>6, <3>1, <3>2
  <2> QED BY <1>1, <1>3, <2>1, <2>2 DEF Known
<1>7. CASE NewSite
  <2>1. /\ HasFresh /\ sites' = With(sites, Fresh, Site("normal", Fresh))
        /\ own' = [own EXCEPT ![Fresh] = Fresh] /\ SelectSite(Fresh, sites', Early)
        /\ UNCHANGED <<disk, tasks>>
    BY <1>7 DEF NewSite
  <2>2. Fresh \in Id /\ Site("normal", Fresh) \in Sites
    BY <2>1, FreshIsFree DEF Site, Sites, Logons, Whose
  <2>3. own'[Fresh] # Null
    BY <2>1, <2>2, SitesAssumption DEF Types
  <2>4. DOMAIN sites' = DOMAIN sites \cup {Fresh} /\ IsList(sites')
    BY <2>1, <2>2, ListWith DEF Types
  <2>5. ticked' = {Fresh} /\ sel' = Fresh /\ \A g \in gets' : g \in gets \/ g.id = Fresh
    BY <2>1, <2>2, <2>4, Selected DEF Types
  <2> QED BY <1>1, <1>3, <2>1, <2>3, <2>4, <2>5 DEF Known
<1>8. CASE SaveSite
  <2> PICK j : j = Job("read", sel, "pass", Null)
    OBVIOUS
  <2> PICK new : new = Task("save", sel, form.logon, <<j>>)
    OBVIOUS
  <2>1. TaskOK(new)'
    <3>1. sel \in Id /\ own'[sel] # Null
      BY <1>3, <1>8, SiteSaved, SitesAssumption
    <3>2. Range(<<j>>) = {j} /\ Ordered(<<j>>)
      BY OneOrTwo, FewOrdered
    <3>3. new.kind = "save" /\ new.id = sel /\ new.logon = form.logon /\ new.jobs = <<j>>
      BY DEF Task
    <3>4. JobOK(new.kind, new.logon, j)'
      BY <3>3 DEF JobOK, Job, Deletes, Closing
    <3> QED BY <3>1, <3>2, <3>3, <3>4 DEF TaskOK
  <2>2. /\ disk' \in {disk, sites'} /\ DOMAIN sites' = DOMAIN sites
        /\ UNCHANGED <<ticked, sel, gets>> /\ tasks' \subseteq tasks \cup {new}
    BY <1>8, SiteSaved DEF selection
  <2>3. \A t \in tasks' : TaskOK(t)'
    BY <1>1, <2>1, <2>2
  <2> QED BY <1>3, <2>2, <2>3 DEF Known
<1>9. CASE DuplicateSite
  <2> PICK id \in DOMAIN sites, jobs \in Todo :
          /\ HasFresh /\ sites' = With(sites, Fresh, sites[id])
          /\ own' = [own EXCEPT ![Fresh] = own[id]] /\ disk' \in {disk, sites'}
          /\ tasks' = tasks \cup {Task("duplicate", Fresh, "none", jobs)}
          /\ Ordered(jobs)
          /\ \A j \in Range(jobs) :
                \/ j = Job("select", Fresh, "pass", Null)
                \/ \E slot \in Slot : j = Job("copy", Fresh, slot, id)
          /\ UNCHANGED <<chain, selection, shown, backup>>
    BY <1>9, Duplicated
  <2> PICK new : new = Task("duplicate", Fresh, "none", jobs)
    OBVIOUS
  <2>1. Fresh \in Id /\ id \in Id
    BY <1>2, FreshIsFree
  <2>2. own'[Fresh] # Null /\ own'[id] # Null
    <3>1. own[id] # Null
      BY DEF Known
    <3> QED BY <1>3, <2>1, <3>1 DEF Types
  <2>3. TaskOK(new)'
    <3>1. /\ new.kind = "duplicate" /\ new.logon = "none" /\ new.jobs = jobs
      BY DEF Task
    <3>2. \A j \in Range(jobs) : JobOK(new.kind, new.logon, j)'
      BY <2>1, <2>2, <3>1 DEF JobOK, Job, Deletes, Closing
    <3> QED BY <3>1, <3>2 DEF TaskOK
  <2>4. DOMAIN sites' = DOMAIN sites \cup {Fresh}
    BY <2>1, ListWith DEF Types
  <2>5. \A t \in tasks' : TaskOK(t)'
    BY <1>1, <2>3
  <2> QED BY <1>3, <2>2, <2>4, <2>5 DEF Known, selection
<1>10. CASE DeleteSite
  <2> PICK gone \in SUBSET (ticked \cap DOMAIN sites), jobs \in Todo :
          /\ Ordered(jobs)
          /\ Range(jobs) = {Forget(id) : id \in gone}
                \cup {Job("save", Null, "pass", Null), Job("blank", Null, "pass", Null)}
          /\ sites' = Without(sites, gone)
          /\ tasks' = tasks \cup {Task("delete", Null, "none", jobs)}
          /\ ticked' = {} /\ sel' = Null
          /\ UNCHANGED <<disk, chain, form, gets, shown, backup, own>>
    BY <1>10, Deleted
  <2> PICK new : new = Task("delete", Null, "none", jobs)
    OBVIOUS
  <2>1. TaskOK(new)'
    <3>1. /\ new.kind = "delete" /\ new.logon = "none" /\ new.jobs = jobs
      BY DEF Task
    <3>2. \A id \in gone : id \in Id /\ own'[id] # Null
      BY <1>2, <1>3
    <3>3. \A id \in gone : /\ Forget(id).act = "forget" /\ Forget(id).id = id
                            /\ Forget(id).slot # "keypass"
      BY DEF Forget, Job
    <3>4. \A j \in Range(jobs) : JobOK(new.kind, new.logon, j)'
      <4> SUFFICES ASSUME NEW j \in Range(jobs) PROVE JobOK(new.kind, new.logon, j)'
        OBVIOUS
      <4>1. \/ j.act = "forget" /\ j.id \in gone /\ j.slot # "keypass"
            \/ j.act \in Closing
        BY <3>3 DEF Job, Closing
      <4> QED BY <3>1, <3>2, <4>1 DEF JobOK, Deletes, Closing
    <3> QED BY <3>1, <3>4 DEF TaskOK
  <2>2. DOMAIN sites' \subseteq DOMAIN sites
    BY ListWithout DEF Types
  <2>3. \A t \in tasks' : TaskOK(t)'
    BY <1>1, <2>1
  <2> QED BY <1>3, <2>2, <2>3 DEF Known
<1>11. CASE ImportSites
  <2> PICK b \in backup, id \in Id :
          /\ sites' = With(sites, id, b.site) /\ own' = [own EXCEPT ![id] = b.own]
          /\ disk' \in {disk, sites'}
          /\ \/ tasks' = tasks
             \/ tasks' = tasks \cup {Task("import", id, "none", <<SetIt(id, "pass", b.secret)>>)}
          /\ UNCHANGED <<chain, selection, shown, backup>>
    BY <1>11, Imported
  <2> PICK j : j = SetIt(id, "pass", b.secret)
    OBVIOUS
  <2> PICK new : new = Task("import", id, "none", <<j>>)
    OBVIOUS
  <2>1. own'[id] # Null
    <3>1. b.own \in Id
      BY DEF Types, Entries
    <3> QED BY <3>1, SitesAssumption DEF Types
  <2>2. TaskOK(new)'
    <3>1. new.kind = "import" /\ new.logon = "none" /\ new.jobs = <<j>>
      BY DEF Task
    <3>2. JobOK(new.kind, new.logon, j)'
      BY <2>1, <3>1 DEF JobOK, SetIt, Job, Deletes, Closing
    <3>3. Range(<<j>>) = {j} /\ Ordered(<<j>>)
      BY OneOrTwo, FewOrdered
    <3> QED BY <3>1, <3>2, <3>3 DEF TaskOK
  <2>3. DOMAIN sites' = DOMAIN sites \cup {id}
    BY ListWith DEF Types
  <2>4. \A t \in tasks' : TaskOK(t)'
    BY <1>1, <2>2
  <2> QED BY <1>3, <2>1, <2>3, <2>4 DEF Known, selection
<1>12. ASSUME NEW g \in gets, SecretCame(g) PROVE Known'
  <2>1. UNCHANGED <<disk, sites, ticked, sel, tasks>> /\ gets' \subseteq gets
    BY <1>12 DEF SecretCame
  <2> QED BY <1>1, <1>3, <2>1 DEF Known
<1>13. ASSUME NEW t \in tasks, Step(t), UNCHANGED <<sites, shown, backup, own, requests>> PROVE Known'
  BY <1>13, KnownStep
<1>14. CASE UNCHANGED vars
  <2>1. UNCHANGED <<disk, sites, ticked, sel, gets, tasks>>
    BY <1>14 DEF vars
  <2> QED BY <1>1, <1>3, <2>1 DEF Known
<1> QED BY <1>4, <1>5, <1>6, <1>7, <1>8, <1>9, <1>10, <1>11, <1>12, <1>13, <1>14 DEF Next

-----------------------------------------------------------------------------
(* Whose data. *)

(* While no selection came early, a site keeps the data it was created with. *)
LEMMA OwnKept ==
    ASSUME Types, Known, Data, [Next]_vars, "early" \notin odd'
    PROVE  \A i \in Id : own[i] # Null => own'[i] = own[i]
<1>1. CASE NewSite
  <2>1. own' = [own EXCEPT ![Fresh] = Fresh] /\ own[Fresh] = Null
    BY <1>1, FreshIsFree DEF NewSite
  <2> QED BY <2>1 DEF Types
<1>2. CASE DuplicateSite
  <2>1. HasFresh /\ \E x : own' = [own EXCEPT ![Fresh] = x]
    BY <1>2, Duplicated
  <2> QED BY <2>1, FreshIsFree DEF Types
<1>3. CASE ImportSites
  <2> PICK b \in backup, id \in Id :
          /\ \/ id \in DOMAIN sites /\ sites[id].data = b.site.data
             \/ HasFresh /\ id = Fresh
          /\ own' = [own EXCEPT ![id] = b.own]
    BY <1>3, Imported
  <2>1. CASE id \in DOMAIN sites /\ sites[id].data = b.site.data
    <3>1. "early" \notin odd
      BY OwnGrows
    <3>2. b.site.data = b.own /\ sites[id].data = own[id]
      BY <2>1, <3>1 DEF Data, DataIsOwn
    <3> QED BY <2>1, <3>2 DEF Types
  <2>2. CASE HasFresh /\ id = Fresh
    BY <2>2, FreshIsFree DEF Types
  <2> QED BY <2>1, <2>2
<1>4. CASE \/ Click \/ TypeInForm \/ OpenSites \/ Loaded \/ CloseSites \/ ExportSites \/ Crash
           \/ SaveSite
  BY <1>4 DEF Click, TypeInForm, OpenSites, Loaded, CloseSites, ExportSites, Crash, SaveSite
<1>5. CASE DeleteSite
  BY <1>5, Deleted
<1>6. ASSUME NEW g \in gets, SecretCame(g) PROVE own' = own
  BY <1>6 DEF SecretCame
<1>7. CASE UNCHANGED vars
  BY <1>7 DEF vars
<1> QED BY <1>1, <1>2, <1>3, <1>4, <1>5, <1>6, <1>7 DEF Next

(* No selection comes early, unless it is told. *)
LEMMA NotEarly ==
    ASSUME NEW id, NEW list, SelectSite(id, list, Early) \/ Show(id, Null, Blank, Early),
           "early" \notin odd'
    PROVE  shown # "loading" /\ ~Deleting
BY DEF SelectSite, Show, Early, Deleting

(* At first. *)
LEMMA DataInit == ASSUME Init PROVE Data
<1>1. \A i \in DOMAIN Saved : i \in Id /\ disk[i].data = own[i]
  BY SitesAssumption DEF Init, Site
<1>2. DOMAIN disk = DOMAIN Saved /\ sites = disk /\ sel = Null /\ backup = {}
  BY DEF Init
<1>3. sel \notin DOMAIN sites
  BY <1>1, <1>2, SitesAssumption
<1> QED BY <1>1, <1>2, <1>3 DEF Data, DataIsOwn

(* A step of a task: it saves the list, blanks the form or selects a copy. *)
LEMMA DataStep ==
    ASSUME Types, Known, Data, NEW t \in tasks, Step(t), "early" \notin odd,  "early" \notin odd',
           UNCHANGED <<sites, shown, backup, own, requests>>
    PROVE  Data'
<1> DEFINE h == Head(t.jobs)
<1>1. t \in Tasks /\ h \in Range(t.jobs) /\ JobOK(t.kind, t.logon, h)
  <2>1. t \in Tasks /\ t.jobs \in Seq(Jobs) /\ t.jobs # <<>>
    BY DEF Types, Tasks, Todo
  <2> QED BY <2>1, HeadOrTail DEF Known, TaskOK
<1>2. DataIsOwn'
  <2>1. disk' \in {disk, sites}
    BY DEF Step, Saves
  <2> QED BY <2>1 DEF Data, DataIsOwn
<1>3. Deleting' => Deleting
  BY StepTasks DEF Deleting
<1>4. /\ shown' = "loading" \/ Deleting' => sel' = Null
      /\ sel' \in DOMAIN sites => form'.data = own[sel']
  <2>1. CASE h.act = "select"
    <3>1. SelectSite(h.id, sites, Early)
      BY <2>1 DEF Step
    <3>2. h.id \in Id /\ IsList(sites) /\ chain \in [Id \X Slot -> Whose]
      BY <2>1, <1>1 DEF Types, JobOK
    <3>3. sel' = h.id /\ (h.id \in DOMAIN sites => form'.data = sites[h.id].data)
      BY <3>1, <3>2, Selected
    <3>4. shown # "loading" /\ ~Deleting
      BY <3>1, NotEarly
    <3> QED BY <1>3, <3>3, <3>4 DEF Data, DataIsOwn
  <2>2. CASE h.act = "blank"
    <3>1. Deleting
      BY <1>1, <2>2 DEF JobOK, Closing, Deleting
    <3>2. sel' = Null
      BY <2>2, <3>1 DEF Step, Show, Data
    <3>3. Null \notin DOMAIN sites
      BY SitesAssumption DEF Types, IsList
    <3> QED BY <3>2, <3>3
  <2>3. CASE h.act \notin {"select", "blank"}
    <3>1. UNCHANGED <<sel, form>>
      BY <2>3 DEF Step, selection
    <3> QED BY <1>3, <3>1 DEF Data
  <2> QED BY <2>1, <2>2, <2>3
<1> QED BY <1>2, <1>4 DEF Data

(* A step keeps whose data it is. *)
LEMMA DataNext == ASSUME Types, Known, Data, [Next]_vars PROVE Data'
<1> SUFFICES ASSUME "early" \notin odd' PROVE Data'
  BY DEF Data
<1>1. "early" \notin odd
  BY OwnGrows
<1>2. \A i \in Id : own[i] # Null => own'[i] = own[i]
  BY OwnKept
<1>3. /\ DOMAIN sites \subseteq Id /\ DOMAIN disk \subseteq Id /\ ticked \subseteq Id
      /\ sel \in Whose /\ Null \notin DOMAIN sites /\ Null \notin DOMAIN disk
  BY SitesAssumption DEF Types, IsList
<1>4. /\ \A id \in DOMAIN sites : sites[id].data = own'[id]
      /\ \A id \in DOMAIN disk : disk[id].data = own'[id]
      /\ \A b \in backup : b.site.data = b.own
      /\ shown = "loading" \/ Deleting => sel = Null
      /\ sel \in DOMAIN sites => form.data = own'[sel]
  BY <1>1, <1>2, <1>3 DEF Data, DataIsOwn, Known
<1>5. CASE Click
  <2>1. UNCHANGED <<disk, chain, sites, tasks, shown, backup, own>>
    BY <1>5, Clicked
  <2>2. DataIsOwn' /\ \A b \in backup' : b.site.data = b.own
    BY <1>4, <2>1 DEF DataIsOwn
  <2>3. ASSUME NEW id \in DOMAIN sites \cup ticked, SelectSite(id, sites, Early)
        PROVE  Data'
    <3>1. id \in Id /\ IsList(sites) /\ chain \in [Id \X Slot -> Whose]
      BY <1>3 DEF Types
    <3>2. sel' = id /\ (id \in DOMAIN sites => form'.data = sites[id].data)
      BY <2>3, <3>1, Selected
    <3>3. shown # "loading" /\ ~Deleting
      BY <2>3, NotEarly
    <3> QED BY <1>4, <2>1, <2>2, <3>2, <3>3 DEF Data, Deleting
  <2>4. ASSUME Show(ticked', Null, Blank, Early)
        PROVE  Data'
    <3>1. sel' = Null
      BY <2>4 DEF Show
    <3> QED BY <1>3, <2>1, <2>2, <3>1 DEF Data
  <2> QED BY <1>5, <2>3, <2>4, Clicked
<1>6. CASE TypeInForm
  <2>1. UNCHANGED <<disk, sites, sel, tasks, shown, backup>> /\ form'.data = form.data
    <3>1. form \in Forms
      BY DEF Types
    <3> QED BY <1>6, <3>1 DEF TypeInForm, Show, Forms
  <2> QED BY <1>4, <2>1 DEF Data, DataIsOwn, Deleting
<1>7. CASE OpenSites
  <2>1. UNCHANGED <<disk, sites, form, tasks, backup>> /\ sel' = Null
    BY <1>7 DEF OpenSites
  <2> QED BY <1>3, <1>4, <2>1 DEF Data, DataIsOwn
<1>8. CASE Loaded
  <2>1. /\ UNCHANGED <<sel, tasks, backup>> /\ sel = Null
    BY <1>4, <1>8 DEF Loaded, Show
  <2>2. Null \notin DOMAIN sites'
    BY <1>8, ReadAgain, SitesAssumption DEF IsList
  <2> QED BY <1>3, <1>4, <1>8, <2>1, <2>2, ReadAgain DEF Data, DataIsOwn
<1>9. CASE CloseSites
  <2>1. UNCHANGED <<disk, sites, sel, form, tasks, backup>> /\ shown' = "closed"
    BY <1>9 DEF CloseSites, selection
  <2> QED BY <1>4, <2>1 DEF Data, DataIsOwn, Deleting
<1>10. CASE NewSite
  <2>1. /\ HasFresh /\ sites' = With(sites, Fresh, Site("normal", Fresh))
        /\ own' = [own EXCEPT ![Fresh] = Fresh] /\ SelectSite(Fresh, sites', Early)
        /\ UNCHANGED <<disk, chain, tasks, shown, backup>>
    BY <1>10 DEF NewSite
  <2>2. Fresh \in Id /\ Site("normal", Fresh) \in Sites
    BY <2>1, FreshIsFree DEF Site, Sites, Logons, Whose
  <2>3. own'[Fresh] = Fresh
    BY <2>1, <2>2 DEF Types
  <2>4. /\ DOMAIN sites' = DOMAIN sites \cup {Fresh} /\ IsList(sites')
        /\ sites'[Fresh] = Site("normal", Fresh)
        /\ \A i \in DOMAIN sites : i # Fresh => sites'[i] = sites[i]
    <3>1. IsList(sites')
      BY <2>1, <2>2, ListWith DEF Types
    <3> QED BY <2>1, <3>1 DEF With
  <2>5. sel' = Fresh /\ form'.data = Fresh
    BY <2>1, <2>2, <2>4, Selected DEF Types, Site
  <2>6. shown # "loading" /\ ~Deleting
    BY <2>1, NotEarly
  <2> QED BY <1>4, <2>1, <2>3, <2>4, <2>5, <2>6 DEF Data, DataIsOwn, Site, Deleting
<1>11. CASE SaveSite
  <2>1. /\ sel \in DOMAIN sites /\ DOMAIN sites' = DOMAIN sites
        /\ sites'[sel] = Site(form.logon, form.data)
        /\ \A i \in DOMAIN sites : i # sel => sites'[i] = sites[i]
        /\ disk' \in {disk, sites'} /\ UNCHANGED <<sel, form, shown, backup>>
    BY <1>11, SiteSaved DEF selection
  <2>2. Deleting' => Deleting
    BY <1>11, SiteSaved DEF Deleting, Task
  <2>3. \A i \in DOMAIN sites' : sites'[i].data = own'[i]
    BY <1>4, <2>1 DEF Site
  <2> QED BY <1>4, <2>1, <2>2, <2>3 DEF Data, DataIsOwn
<1>12. CASE DuplicateSite
  <2> PICK id \in DOMAIN sites, jobs \in Todo :
          /\ HasFresh /\ sites' = With(sites, Fresh, sites[id])
          /\ own' = [own EXCEPT ![Fresh] = own[id]] /\ disk' \in {disk, sites'}
          /\ tasks' = tasks \cup {Task("duplicate", Fresh, "none", jobs)}
          /\ UNCHANGED <<chain, selection, shown, backup>>
    BY <1>12, Duplicated
  <2>1. Fresh \in Id /\ own[Fresh] = Null
    BY FreshIsFree
  <2>2. own'[Fresh] = own[id] /\ sites[id].data = own[id]
    BY <1>1, <2>1 DEF Types, Data, DataIsOwn
  <2>3. /\ DOMAIN sites' = DOMAIN sites \cup {Fresh} /\ sites'[Fresh] = sites[id]
        /\ \A i \in DOMAIN sites : i # Fresh => sites'[i] = sites[i]
    BY DEF With
  <2>4. \A i \in DOMAIN sites' : sites'[i].data = own'[i]
    BY <1>4, <2>2, <2>3
  <2>5. Deleting' => Deleting
    BY DEF Deleting, Task
  <2>6. sel # Fresh
    BY <2>1, SitesAssumption DEF Known
  <2> QED BY <1>4, <2>3, <2>4, <2>5, <2>6 DEF Data, DataIsOwn, selection
<1>13. CASE DeleteSite
  <2> PICK gone \in SUBSET (ticked \cap DOMAIN sites) :
          /\ sites' = Without(sites, gone)
          /\ sel' = Null /\ UNCHANGED <<disk, form, shown, backup>>
    BY <1>13, Deleted
  <2>1. DOMAIN sites' \subseteq DOMAIN sites /\ \A i \in DOMAIN sites' : sites'[i] = sites[i]
    BY DEF Without
  <2> QED BY <1>3, <1>4, <2>1 DEF Data, DataIsOwn
<1>14. CASE ExportSites
  <2>1. UNCHANGED <<disk, sites, sel, form, tasks, shown, own>>
    BY <1>14 DEF ExportSites, selection
  <2>2. \A b \in backup' : b.site.data = b.own
    <3>1. \A i \in DOMAIN sites : sites[i].data = own[i]
      BY <1>1 DEF Data, DataIsOwn
    <3> QED BY <1>14, <3>1, Exported
  <2> QED BY <1>4, <2>1, <2>2 DEF Data, DataIsOwn, Deleting
<1>15. CASE ImportSites
  <2> PICK b \in backup, id \in Id :
          /\ \/ id \in DOMAIN sites /\ sites[id].data = b.site.data
             \/ HasFresh /\ id = Fresh
          /\ sites' = With(sites, id, b.site) /\ own' = [own EXCEPT ![id] = b.own]
          /\ disk' \in {disk, sites'}
          /\ \/ tasks' = tasks
             \/ tasks' = tasks \cup {Task("import", id, "none", <<SetIt(id, "pass", b.secret)>>)}
          /\ UNCHANGED <<chain, selection, shown, backup>>
    BY <1>15, Imported
  <2>1. b.site.data = b.own /\ own'[id] = b.own
    BY <1>4 DEF Types
  <2>2. /\ DOMAIN sites' = DOMAIN sites \cup {id} /\ sites'[id] = b.site
        /\ \A i \in DOMAIN sites : i # id => sites'[i] = sites[i]
    BY DEF With
  <2>3. \A i \in DOMAIN sites' : sites'[i].data = own'[i]
    BY <1>4, <2>1, <2>2
  <2>4. Deleting' => Deleting
    BY DEF Deleting, Task
  <2>5. sel \in DOMAIN sites' => sel \in DOMAIN sites
    BY <2>2, FreshIsFree, SitesAssumption DEF Known
  <2> QED BY <1>4, <2>2, <2>3, <2>4, <2>5 DEF Data, DataIsOwn, selection
<1>16. CASE Crash
  <2>1. sel' = Null /\ backup' = backup
    BY <1>16 DEF Crash
  <2>2. Null \notin DOMAIN sites'
    BY <1>16, ReadAgain, SitesAssumption DEF IsList
  <2> QED BY <1>3, <1>4, <1>16, <2>1, <2>2, ReadAgain DEF Data, DataIsOwn
<1>17. ASSUME NEW g \in gets, SecretCame(g) PROVE Data'
  <2>1. UNCHANGED <<disk, sites, sel, tasks, shown, backup>> /\ form'.data = form.data
    <3>1. form \in Forms
      BY DEF Types
    <3> QED BY <1>17, <3>1 DEF SecretCame, Forms
  <2> QED BY <1>4, <2>1 DEF Data, DataIsOwn, Deleting
<1>18. ASSUME NEW t \in tasks, Step(t), UNCHANGED <<sites, shown, backup, own, requests>> PROVE Data'
  BY <1>1, <1>18, DataStep
<1>19. CASE UNCHANGED vars
  <2>1. UNCHANGED <<disk, sites, sel, form, tasks, shown, backup>>
    BY <1>19 DEF vars
  <2> QED BY <1>4, <2>1 DEF Data, DataIsOwn, Deleting
<1> QED BY <1>5, <1>6, <1>7, <1>8, <1>9, <1>10, <1>11, <1>12, <1>13, <1>14, <1>15, <1>16, <1>17,
           <1>18, <1>19 DEF Next

-----------------------------------------------------------------------------
(* Whose secrets. *)

Calm == odd \cap {"moved", "early"} = {}

(* The form or the selection does not change during a save, unless it is told. *)
LEMMA NotMoved ==
    ASSUME NEW id, NEW list, NEW t, NEW s, NEW f, NEW more,
           SelectSite(id, list, more) \/ Show(t, s, f, more), Calm'
    PROVE  ~Saving
BY DEF SelectSite, Show, Calm

(* Whose the secrets are, with what is owned after the step. *)
LEMMA SecretsStay ==
    ASSUME Types, Known, Data, Secrets, [Next]_vars, Calm'
    PROVE  /\ Calm /\ "early" \notin odd /\ "early" \notin odd'
           /\ \A i \in Id : own[i] # Null => own'[i] = own[i]
           /\ \A id \in Id, slot \in Slot : chain[<<id, slot>>] \in {Null, own'[id]}
           /\ \A g \in gets : g.whose \in {Null, own'[g.id]}
           /\ \A b \in backup : b.secret \in {Null, b.own}
           /\ \A t \in tasks : \A j \in Range(t.jobs) : OwnJob(j) /\ OwnJob(j)'
           /\ \A t \in tasks : t.kind = "save" =>
                 \A slot \in Slot : form.secrets[slot] \in {Null, own'[t.id]}
           /\ sel \in DOMAIN sites =>
                 \A slot \in Slot : form.secrets[slot] \in {Null, own'[sel]}
<1>1. Calm /\ "early" \notin odd /\ "early" \notin odd'
  BY OwnGrows DEF Calm
<1>2. \A i \in Id : own[i] # Null => own'[i] = own[i]
  BY <1>1, OwnKept
<1>3. /\ \A id \in Id, slot \in Slot : chain[<<id, slot>>] \in {Null, own[id]}
      /\ \A g \in gets : g.whose \in {Null, own[g.id]} /\ g.id \in Id /\ own[g.id] # Null
      /\ \A b \in backup : b.secret \in {Null, b.own}
      /\ \A t \in tasks : t.kind = "save" => Holds(t.id) /\ t.id \in Id /\ own[t.id] # Null
      /\ sel \in DOMAIN sites => Holds(sel) /\ sel \in Id /\ own[sel] # Null
      /\ \A t \in tasks : \A j \in Range(t.jobs) : OwnJob(j) /\ JobOK(t.kind, t.logon, j)
  BY <1>1 DEF Secrets, Calm, Known, TaskOK, Types, IsList, Asked
<1>4. \A t \in tasks : \A j \in Range(t.jobs) : OwnJob(j)'
  BY <1>2, <1>3 DEF OwnJob, JobOK
<1> QED BY <1>1, <1>2, <1>3, <1>4 DEF Holds

(* At first. *)
LEMMA SecretsInit == ASSUME Init PROVE Secrets
<1>1. /\ \A id \in Id, slot \in Slot : chain[<<id, slot>>] \in {Null, own[id]}
      /\ sites = disk /\ DOMAIN disk = DOMAIN Saved /\ sel = Null
      /\ gets = {} /\ tasks = {} /\ backup = {}
  BY DEF Init
<1>2. sel \notin DOMAIN sites
  BY <1>1, SitesAssumption
<1> QED BY <1>1, <1>2 DEF Secrets

(* What a task goes on with is of the same site's secrets. *)
LEMMA NextJobOwn ==
    ASSUME Types, Known, NEW t \in tasks, NEW j, NextJob(t, Head(t.jobs), j),
           \A k \in Range(t.jobs) : OwnJob(k), t.kind = "save" => Holds(t.id)
    PROVE  OwnJob(j)
<1> DEFINE h == Head(t.jobs)
<1>1. JobOK(t.kind, t.logon, h)
  <2>1. t \in Tasks /\ t.jobs \in Seq(Jobs) /\ t.jobs # <<>>
    BY DEF Types, Tasks, Todo
  <2> QED BY <2>1, HeadOrTail DEF Known, TaskOK
<1>2. CASE j \in Range(t.jobs)
  BY <1>2
<1>3. CASE \E slot \in Slot : j = DeleteIt(t.id, slot) \/ j = DeleteIt(h.id, slot)
  BY <1>3 DEF DeleteIt, Job, OwnJob
<1>4. CASE h.act \in {"read", "readkey"}
           /\ \E slot \in Slot : j = Put(t.id, slot, form.secrets[slot])
  <2>1. Holds(t.id)
    BY <1>1, <1>4 DEF JobOK
  <2> QED BY <1>4, <2>1 DEF Put, SetIt, DeleteIt, Job, OwnJob, Holds
<1>5. CASE j = Job("readkey", t.id, "keypass", Null)
  BY <1>5 DEF Job, OwnJob
<1> QED BY <1>2, <1>3, <1>4, <1>5 DEF NextJob, Slot

(* A step of a task: it sets, copies or deletes a secret, reads the form, or changes it. *)
LEMMA SecretsStep ==
    ASSUME Types, Known, Data, Secrets, Calm, Calm', NEW t \in tasks, Step(t),
           UNCHANGED <<sites, shown, backup, own, requests>>
    PROVE  Secrets'
<1> DEFINE h == Head(t.jobs)
<1>1. t \in Tasks /\ h \in Range(t.jobs) /\ JobOK(t.kind, t.logon, h) /\ h \in Jobs
  <2>1. t \in Tasks /\ t.jobs \in Seq(Jobs) /\ t.jobs # <<>>
    BY DEF Types, Tasks, Todo
  <2> QED BY <2>1, HeadOrTail DEF Known, TaskOK
<1>2. /\ \A id \in Id, slot \in Slot : chain[<<id, slot>>] \in {Null, own[id]}
      /\ \A g \in gets : g.whose \in {Null, own[g.id]}
      /\ \A b \in backup : b.secret \in {Null, b.own}
      /\ \A u \in tasks : /\ \A j \in Range(u.jobs) : OwnJob(j)
                          /\ u.kind = "save" => Holds(u.id)
      /\ sel \in DOMAIN sites => Holds(sel)
  BY DEF Secrets, Calm
<1>3. \A id \in Id, slot \in Slot : chain'[<<id, slot>>] \in {Null, own[id]}
  <2>1. ASSUME NEW c, c \in {Null, own[h.id]}, h.id \in Id,
               chain' = [chain EXCEPT ![<<h.id, h.slot>>] = c]
        PROVE  \A id \in Id, slot \in Slot : chain'[<<id, slot>>] \in {Null, own[id]}
    BY <1>2, <2>1 DEF Types
  <2>2. CASE h.act = "set"
    <3>1. h.whose \in {Null, own[h.id]} /\ h.id \in Id
      BY <1>1, <1>2, <2>2 DEF OwnJob, JobOK
    <3> QED BY <1>2, <2>1, <2>2, <3>1 DEF Step, Sets
  <2>3. CASE h.act = "copy"
    <3>1. chain[<<h.whose, h.slot>>] \in {Null, own[h.id]} /\ h.id \in Id
      BY <1>1, <1>2, <2>3 DEF OwnJob, JobOK, Jobs
    <3> QED BY <1>2, <2>1, <2>3, <3>1 DEF Step, Sets
  <2>4. CASE h.act \in {"delete", "forget"}
    <3>1. h.id \in Id
      BY <1>1, <2>4 DEF JobOK
    <3>2. chain' = chain \/ chain' = [chain EXCEPT ![<<h.id, h.slot>>] = Null]
      BY <2>4 DEF Step, Erases
    <3> QED BY <1>2, <2>1, <3>1, <3>2
  <2>5. CASE h.act \in {"read", "readkey", "save", "blank", "select"}
    BY <1>2, <2>5 DEF Step
  <2> QED BY <1>1, <2>2, <2>3, <2>4, <2>5 DEF Jobs, Acts
<1>4. \A u \in tasks' : \A j \in Range(u.jobs) : OwnJob(j)'
  <2>1. \A u \in tasks' : \A j \in Range(u.jobs) : OwnJob(j)
    BY <1>2, StepTasks, NextJobOwn
  <2> QED BY <2>1 DEF OwnJob
<1>5. \A u \in tasks' : u.kind = "save" => \E v \in tasks : v.kind = "save" /\ v.id = u.id
  BY StepTasks
<1>6. /\ \A g \in gets' : g.whose \in {Null, own[g.id]}
      /\ \A u \in tasks' : u.kind = "save" => Holds(u.id)'
      /\ sel' \in DOMAIN sites => Holds(sel)'
  <2>1. CASE h.act = "select"
    <3>1. SelectSite(h.id, sites, Early)
      BY <2>1 DEF Step
    <3>2. h.id \in Id /\ IsList(sites) /\ chain \in [Id \X Slot -> Whose]
      BY <2>1, <1>1 DEF Types, JobOK
    <3>3. /\ \A slot \in Slot : form'.secrets[slot] = Null
          /\ \A g \in gets' : g \in gets \/ /\ g.slot \in Slot /\ g.id = h.id
                                            /\ g.whose = chain[<<h.id, g.slot>>]
      BY <3>1, <3>2, Selected DEF Asked
    <3>4. ~Saving
      BY <3>1, NotMoved
    <3> QED BY <1>2, <1>5, <3>2, <3>3, <3>4 DEF Saving, Holds
  <2>2. CASE h.act = "blank"
    <3>1. Show(ticked, sel, Blank, {}) /\ gets' = gets
      BY <2>2 DEF Step
    <3>2. ~Saving
      BY <3>1, NotMoved
    <3>3. \A slot \in Slot : form'.secrets[slot] = Null
      BY <3>1, BlankForm DEF Show
    <3> QED BY <1>2, <1>5, <3>1, <3>2, <3>3 DEF Saving, Holds
  <2>3. CASE h.act \notin {"select", "blank"}
    <3>1. UNCHANGED <<sel, form, gets>>
      BY <2>3 DEF Step, selection
    <3> QED BY <1>2, <1>5, <3>1 DEF Holds
  <2> QED BY <2>1, <2>2, <2>3
<1> QED BY <1>2, <1>3, <1>4, <1>6 DEF Secrets

(* A step keeps whose secrets they are. *)
LEMMA SecretsNext == ASSUME Types, Known, Data, Secrets, [Next]_vars PROVE Secrets'
<1> SUFFICES ASSUME Calm' PROVE Secrets'
  BY DEF Secrets, Calm
<1>1. /\ Calm /\ "early" \notin odd /\ "early" \notin odd'
      /\ \A i \in Id : own[i] # Null => own'[i] = own[i]
  BY SecretsStay
<1>2. /\ \A id \in Id, slot \in Slot : chain[<<id, slot>>] \in {Null, own'[id]}
      /\ \A g \in gets : g.whose \in {Null, own'[g.id]}
      /\ \A b \in backup : b.secret \in {Null, b.own}
      /\ \A t \in tasks : \A j \in Range(t.jobs) : OwnJob(j)'
  BY SecretsStay
<1>3. /\ \A t \in tasks : t.kind = "save" =>
            \A slot \in Slot : form.secrets[slot] \in {Null, own'[t.id]}
      /\ sel \in DOMAIN sites => \A slot \in Slot : form.secrets[slot] \in {Null, own'[sel]}
  BY SecretsStay
<1>4. /\ DOMAIN sites \subseteq Id /\ ticked \subseteq Id /\ sel \in Whose
      /\ Null \notin DOMAIN sites /\ Null \notin DOMAIN disk /\ IsList(sites)
      /\ chain \in [Id \X Slot -> Whose]
  BY SitesAssumption DEF Types, IsList
<1>5. CASE Click
  <2>1. UNCHANGED <<chain, sites, tasks, backup, own>>
    BY <1>5, Clicked
  <2>2. ASSUME NEW id \in DOMAIN sites \cup ticked, SelectSite(id, sites, Early)
        PROVE  Secrets'
    <3>1. /\ \A slot \in Slot : form'.secrets[slot] = Null
          /\ \A g \in gets' : g \in gets \/ /\ g.slot \in Slot /\ g.id = id /\ id \in Id
                                            /\ g.whose = chain[<<id, g.slot>>]
      BY <1>4, <2>2, Selected DEF Asked
    <3>2. ~Saving
      BY <2>2, NotMoved
    <3>3. \A g \in gets' : g.whose \in {Null, own'[g.id]}
      BY <1>2, <3>1
    <3> QED BY <1>2, <2>1, <3>1, <3>2, <3>3 DEF Secrets, Holds, Saving
  <2>3. ASSUME Show(ticked', Null, Blank, Early) /\ gets' = gets
        PROVE  Secrets'
    <3>1. \A slot \in Slot : form'.secrets[slot] = Null
      BY <2>3, BlankForm DEF Show
    <3>2. ~Saving
      BY <2>3, NotMoved
    <3> QED BY <1>2, <2>1, <2>3, <3>1, <3>2 DEF Secrets, Holds, Saving
  <2> QED BY <1>5, <2>2, <2>3, Clicked
<1>6. CASE TypeInForm
  <2>1. UNCHANGED <<chain, sites, gets, tasks, backup, sel>>
    BY <1>6 DEF TypeInForm, Show
  <2>2. ~Saving
    BY <1>6, NotMoved DEF TypeInForm
  <2>3. \A slot \in Slot : form'.secrets[slot] \in {Null, form.data, form.secrets[slot]}
    <3>1. form.secrets = [slot \in Slot |-> form.secrets[slot]] /\ form \in Forms
      BY DEF Types, Forms
    <3>2. PICK logon \in Logon, typed \in BOOLEAN :
            LET s == IF typed /\ SlotOf(logon) \in Slot
                     THEN [form.secrets EXCEPT ![SlotOf(logon)] = form.data] ELSE form.secrets
                shows == IF logon = "normal" THEN s ELSE [s EXCEPT !["pass"] = Null]
            IN Show(ticked, sel, [form EXCEPT !.logon = logon, !.secrets = shows], {})
      BY <1>6 DEF TypeInForm
    <3> DEFINE s == IF typed /\ SlotOf(logon) \in Slot
                    THEN [form.secrets EXCEPT ![SlotOf(logon)] = form.data] ELSE form.secrets
               shows == IF logon = "normal" THEN s ELSE [s EXCEPT !["pass"] = Null]
    <3>3. s = [slot \in Slot |-> s[slot]] /\ \A slot \in Slot : s[slot] \in {form.data, form.secrets[slot]}
      BY <3>1
    <3>4. form' = [form EXCEPT !.logon = logon, !.secrets = shows]
      BY <3>2 DEF Show
    <3> HIDE DEF s
    <3>5. \A slot \in Slot : shows[slot] \in {Null, s[slot]}
      BY <3>3
    <3> HIDE DEF shows
    <3>6. form'.secrets = shows
      BY <3>1, <3>4 DEF Forms
    <3> QED BY <3>3, <3>5, <3>6
  <2>4. sel \in DOMAIN sites => form.data = own'[sel]
    <3>1. sel \in DOMAIN sites => form.data = own[sel] /\ own[sel] # Null
      BY <1>1 DEF Data, Known
    <3> QED BY <1>1, <1>4, <3>1
  <2> QED BY <1>2, <1>3, <2>1, <2>2, <2>3, <2>4 DEF Secrets, Holds, Saving
<1>7. CASE OpenSites
  <2>1. UNCHANGED <<chain, sites, form, gets, tasks, backup>> /\ sel' = Null
    BY <1>7 DEF OpenSites
  <2> QED BY <1>2, <1>3, <1>4, <2>1 DEF Secrets, Holds
<1>8. CASE Loaded
  <2>1. UNCHANGED <<chain, gets, tasks, backup>>
        /\ \E unread \in BOOLEAN : Show(ticked, sel, Blank, Unread(unread))
    BY <1>8 DEF Loaded
  <2>2. \A slot \in Slot : form'.secrets[slot] = Null
    BY <2>1, BlankForm DEF Show
  <2>3. ~Saving
    BY <2>1, NotMoved
  <2> QED BY <1>2, <2>1, <2>2, <2>3 DEF Secrets, Holds, Saving
<1>9. CASE CloseSites
  <2>1. UNCHANGED <<chain, sites, sel, form, gets, tasks, backup>>
    BY <1>9 DEF CloseSites, selection
  <2> QED BY <1>2, <1>3, <2>1 DEF Secrets, Holds
<1>10. CASE NewSite
  <2>1. /\ HasFresh /\ sites' = With(sites, Fresh, Site("normal", Fresh))
        /\ SelectSite(Fresh, sites', Early) /\ UNCHANGED <<chain, tasks, backup>>
    BY <1>10 DEF NewSite
  <2>2. Fresh \in Id /\ Site("normal", Fresh) \in Sites
    BY <2>1, FreshIsFree DEF Site, Sites, Logons, Whose
  <2>3. IsList(sites')
    BY <1>4, <2>1, <2>2, ListWith
  <2>4. /\ \A slot \in Slot : form'.secrets[slot] = Null
        /\ \A g \in gets' : g \in gets \/ /\ g.slot \in Slot /\ g.id = Fresh
                                          /\ g.whose = chain[<<Fresh, g.slot>>]
    BY <1>4, <2>1, <2>2, <2>3, Selected DEF Asked
  <2>5. ~Saving
    BY <2>1, NotMoved
  <2>6. \A g \in gets' : g.whose \in {Null, own'[g.id]}
    BY <1>2, <2>2, <2>4
  <2> QED BY <1>2, <2>1, <2>4, <2>5, <2>6 DEF Secrets, Holds, Saving
<1>11. CASE SaveSite
  <2> PICK j : j = Job("read", sel, "pass", Null)
    OBVIOUS
  <2> PICK new : new = Task("save", sel, form.logon, <<j>>)
    OBVIOUS
  <2>1. /\ sel \in DOMAIN sites /\ DOMAIN sites' = DOMAIN sites
        /\ tasks' \subseteq tasks \cup {new}
        /\ UNCHANGED <<chain, sel, form, gets, backup>>
    BY <1>11, SiteSaved DEF selection
  <2>2. new.id = sel /\ \A k \in Range(new.jobs) : OwnJob(k)'
    <3>1. new.jobs = <<j>> /\ Range(<<j>>) = {j} /\ OwnJob(j)' /\ new.id = sel
      BY OneOrTwo DEF Task, Job, OwnJob
    <3> QED BY <3>1
  <2> QED BY <1>2, <1>3, <2>1, <2>2 DEF Secrets, Holds
<1>12. CASE DuplicateSite
  <2> PICK id \in DOMAIN sites, jobs \in Todo :
          /\ HasFresh /\ sites' = With(sites, Fresh, sites[id])
          /\ own' = [own EXCEPT ![Fresh] = own[id]]
          /\ tasks' = tasks \cup {Task("duplicate", Fresh, "none", jobs)}
          /\ \A j \in Range(jobs) :
                \/ j = Job("select", Fresh, "pass", Null)
                \/ \E slot \in Slot : j = Job("copy", Fresh, slot, id)
          /\ UNCHANGED <<chain, selection, shown, backup>>
    BY <1>12, Duplicated
  <2> PICK new : new = Task("duplicate", Fresh, "none", jobs)
    OBVIOUS
  <2>1. Fresh \in Id /\ own[Fresh] = Null /\ own[id] # Null /\ id \in Id
    BY <1>4, FreshIsFree DEF Known
  <2>2. own'[Fresh] = own'[id]
    BY <2>1 DEF Types
  <2>3. new.kind # "save" /\ \A j \in Range(new.jobs) : OwnJob(j)'
    <3>1. new.kind # "save" /\ new.jobs = jobs
      BY DEF Task
    <3> QED BY <2>2, <3>1 DEF OwnJob, Job
  <2>4. DOMAIN sites' = DOMAIN sites \cup {Fresh}
    BY DEF With
  <2>5. sel # Fresh
    BY <2>1, SitesAssumption DEF Known
  <2> QED BY <1>2, <1>3, <2>3, <2>4, <2>5 DEF Secrets, Holds, selection
<1>13. CASE DeleteSite
  <2> PICK gone \in SUBSET (ticked \cap DOMAIN sites), jobs \in Todo :
          /\ Range(jobs) = {Forget(id) : id \in gone}
                \cup {Job("save", Null, "pass", Null), Job("blank", Null, "pass", Null)}
          /\ tasks' = tasks \cup {Task("delete", Null, "none", jobs)}
          /\ sel' = Null /\ sites' = Without(sites, gone)
          /\ UNCHANGED <<chain, form, gets, backup>>
    BY <1>13, Deleted
  <2> PICK new : new = Task("delete", Null, "none", jobs)
    OBVIOUS
  <2>1. new.kind # "save" /\ \A j \in Range(new.jobs) : OwnJob(j)'
    <3>1. new.kind # "save" /\ new.jobs = jobs
      BY DEF Task
    <3>2. \A j \in Range(jobs) : j.act \in Deletes \cup Closing
      BY DEF Forget, Job, Deletes, Closing
    <3> QED BY <3>1, <3>2 DEF OwnJob, Deletes, Closing
  <2>2. Null \notin DOMAIN sites'
    BY <1>4 DEF Without
  <2> QED BY <1>2, <1>3, <2>1, <2>2 DEF Secrets, Holds
<1>14. CASE ExportSites
  <2>1. UNCHANGED <<chain, sites, sel, form, gets, tasks, own>>
    BY <1>14 DEF ExportSites, selection
  <2>2. \A b \in backup' : b.secret \in {Null, b.own}
    <3> TAKE b \in backup'
    <3>1. PICK i \in ticked \cap DOMAIN sites :
              /\ b.own = own[i]
              /\ \/ b.secret = Null
                 \/ SlotOf(sites[i].logon) \in Slot /\ b.secret = chain[<<i, SlotOf(sites[i].logon)>>]
      BY <1>14, Exported
    <3> QED BY <1>2, <1>4, <2>1, <3>1
  <2> QED BY <1>2, <1>3, <2>1, <2>2 DEF Secrets, Holds
<1>15. CASE ImportSites
  <2> PICK b \in backup, id \in Id :
          /\ \/ id \in DOMAIN sites /\ sites[id].data = b.site.data
             \/ HasFresh /\ id = Fresh
          /\ sites' = With(sites, id, b.site) /\ own' = [own EXCEPT ![id] = b.own]
          /\ \/ tasks' = tasks
             \/ tasks' = tasks \cup {Task("import", id, "none", <<SetIt(id, "pass", b.secret)>>)}
          /\ UNCHANGED <<chain, selection, shown, backup>>
    BY <1>15, Imported
  <2> PICK j : j = SetIt(id, "pass", b.secret)
    OBVIOUS
  <2> PICK new : new = Task("import", id, "none", <<j>>)
    OBVIOUS
  <2>1. own'[id] = b.own
    BY DEF Types
  <2>2. new.kind # "save" /\ \A k \in Range(new.jobs) : OwnJob(k)'
    <3>1. new.kind # "save" /\ new.jobs = <<j>> /\ Range(<<j>>) = {j}
      BY OneOrTwo DEF Task
    <3>2. OwnJob(j)'
      BY <1>2, <2>1 DEF SetIt, Job, OwnJob
    <3> QED BY <3>1, <3>2
  <2>3. DOMAIN sites' = DOMAIN sites \cup {id}
    BY DEF With
  <2>4. sel \in DOMAIN sites' => sel \in DOMAIN sites
    BY <2>3, FreshIsFree, SitesAssumption DEF Known
  <2> QED BY <1>2, <1>3, <2>2, <2>4 DEF Secrets, Holds, selection
<1>16. CASE Crash
  <2>1. sel' = Null /\ gets' = {} /\ tasks' = {} /\ UNCHANGED <<chain, backup>>
    BY <1>16 DEF Crash
  <2>2. Null \notin DOMAIN sites'
    BY <1>16, ReadAgain, SitesAssumption DEF IsList
  <2> QED BY <1>2, <1>4, <2>1, <2>2 DEF Secrets
<1>17. ASSUME NEW g \in gets, SecretCame(g) PROVE Secrets'
  <2>1. UNCHANGED <<chain, sites, sel, tasks, backup, own>> /\ gets' \subseteq gets
    BY <1>17 DEF SecretCame
  <2>2. \/ form' = form
        \/ ~Saving /\ sel = g.id /\ form' = [form EXCEPT !.secrets[g.slot] = g.whose]
    BY <1>17 DEF SecretCame, Calm
  <2>3. CASE form' = form
    BY <1>2, <1>3, <2>1, <2>3 DEF Secrets, Holds
  <2>4. CASE ~Saving /\ sel = g.id /\ form' = [form EXCEPT !.secrets[g.slot] = g.whose]
    <3>1. form \in Forms /\ g.slot \in Slot
      BY DEF Types, Asked
    <3>2. form'.secrets = [form.secrets EXCEPT ![g.slot] = g.whose]
          /\ form.secrets = [slot \in Slot |-> form.secrets[slot]]
      BY <2>4, <3>1 DEF Forms
    <3>3. \A slot \in Slot : form'.secrets[slot] \in {g.whose, form.secrets[slot]}
      BY <3>1, <3>2
    <3>4. g.whose \in {Null, own'[sel]}
      BY <1>2, <2>4
    <3> QED BY <1>2, <1>3, <2>1, <2>4, <3>3, <3>4 DEF Secrets, Holds, Saving
  <2> QED BY <2>2, <2>3, <2>4
<1>18. ASSUME NEW t \in tasks, Step(t), UNCHANGED <<sites, shown, backup, own, requests>> PROVE Secrets'
  BY <1>1, <1>18, SecretsStep
<1>19. CASE UNCHANGED vars
  <2>1. UNCHANGED <<chain, sites, sel, form, gets, tasks, backup>>
    BY <1>19 DEF vars
  <2> QED BY <1>2, <1>3, <2>1 DEF Secrets, Holds
<1> QED BY <1>5, <1>6, <1>7, <1>8, <1>9, <1>10, <1>11, <1>12, <1>13, <1>14, <1>15, <1>16, <1>17,
           <1>18, <1>19 DEF Next

-----------------------------------------------------------------------------
(* Where the secrets are filed. *)

Alone == odd \cap {"unread", "kept", "recast", "overlap"} = {}

(* At first. *)
LEMMA FiledInit == ASSUME Init PROVE Filed
<1>1. /\ tasks = {} /\ sites = disk /\ DOMAIN disk = DOMAIN Saved
      /\ \A i \in DOMAIN Saved : disk[i].logon = Saved[i]
  BY DEF Init, Site
<1>2. \A id \in Id, slot \in Slot : chain[<<id, slot>>] # Null =>
          id \in DOMAIN Saved /\ slot = SlotOf(Saved[id])
  BY DEF Init
<1>3. \A logon : SlotOf(logon) \in Slot => Fits(SlotOf(logon), logon)
  BY DEF SlotOf, Slot, Fits
<1>4. Kept
  BY <1>1, <1>2, <1>3 DEF Kept
<1> QED BY <1>1, <1>4 DEF Filed, Agree

(* No other task is under way when one is started, unless it is told. *)
LEMMA NoOverlap == ASSUME Alone', odd' = odd \cup Overlap PROVE tasks = {}
BY DEF Alone, Overlap

(* With no task, what is kept belongs to a site of the list. *)
LEMMA AtRest ==
    ASSUME Kept, Agree, tasks = {}
    PROVE  \A id \in Id, slot \in Slot : chain[<<id, slot>>] # Null =>
               /\ id \in DOMAIN disk /\ Fits(slot, disk[id].logon)
               /\ id \in DOMAIN sites /\ Fits(slot, sites[id].logon)
BY DEF Kept, Agree, WillGo, Fits

(* A list saved with the sites it had, each as before a cloud one or not. *)
LEMMA FiledAfterSave ==
    ASSUME Types, Filed, Alone, tasks = {}, chain' = chain, disk' \in {disk, sites'},
           DOMAIN sites \subseteq DOMAIN sites',
           \A id \in DOMAIN sites : (sites[id].logon = "cloud") = (sites'[id].logon = "cloud"),
           \A id \in DOMAIN disk : id \notin DOMAIN sites => id \notin DOMAIN sites',
           \A t, u \in tasks' : t = u,
           \A t \in tasks' : \A j \in Range(t.jobs) : PlacedJob(t, j)'
    PROVE  Filed'
<1>1. /\ Agree
      /\ \A id \in Id, slot \in Slot : chain[<<id, slot>>] # Null =>
            /\ id \in DOMAIN disk /\ Fits(slot, disk[id].logon)
            /\ id \in DOMAIN sites /\ Fits(slot, sites[id].logon)
  BY AtRest DEF Filed, Alone
<1>2. Agree'
  BY <1>1 DEF Agree
<1>3. Kept'
  BY <1>1 DEF Kept, Fits
<1> QED BY <1>2, <1>3 DEF Filed

(* What a save goes on with is for where its site is filed. *)
LEMMA NextJobPlaced ==
    ASSUME NEW t, NEW h \in Range(t.jobs), NEW j, NextJob(t, h, j), NEW u,
           u.id = t.id, u.logon = t.logon, \A k \in Range(t.jobs) : PlacedJob(t, k)
    PROVE  PlacedJob(u, j)
<1>1. CASE j \in Range(t.jobs)
  BY <1>1 DEF PlacedJob
<1>2. CASE \/ \E slot \in Slot : j = DeleteIt(t.id, slot)
           \/ j = DeleteIt(h.id, "keypass")
  BY <1>2 DEF DeleteIt, Job, PlacedJob
<1>3. ASSUME h.act \in {"read", "readkey"}, NEW slot \in Slot, Fits(slot, t.logon),
             j = Put(t.id, slot, form.secrets[slot])
      PROVE  PlacedJob(u, j)
  <2>1. Placed(t.id, slot)
    <3>1. Placed(t.id, IF t.logon = "cloud" THEN "cloud" ELSE "pass")
      BY <1>3 DEF PlacedJob
    <3> QED BY <1>3, <3>1 DEF Placed, Fits
  <2>2. j = SetIt(t.id, slot, form.secrets[slot]) \/ j = DeleteIt(t.id, slot)
    BY <1>3 DEF Put
  <2> QED BY <2>1, <2>2 DEF SetIt, DeleteIt, Job, PlacedJob
<1>4. CASE h.act = "read" /\ j = Job("readkey", t.id, "keypass", Null)
  BY <1>4 DEF Job, PlacedJob
<1> QED BY <1>1, <1>2, <1>3, <1>4 DEF NextJob

(* A step of a task. *)
LEMMA FiledStep ==
    ASSUME Types, Known, Filed, Alone, NEW t \in tasks, Step(t),
           UNCHANGED <<sites, shown, backup, own, requests>>
    PROVE  Filed'
<1> SUFFICES ASSUME Alone' PROVE Filed'
  BY DEF Filed, Alone
<1> DEFINE h == Head(t.jobs)
<1>15. h.act \in {"delete", "forget"} => chain' = [chain EXCEPT ![<<h.id, h.slot>>] = Null]
  BY DEF Step, Erases, Alone
<1>1. /\ t \in Tasks /\ TaskOK(t) /\ t.jobs \in Seq(Jobs) /\ Tail(t.jobs) \in Seq(Jobs)
      /\ h \in Range(t.jobs) /\ JobOK(t.kind, t.logon, h) /\ h \in Jobs
      /\ \A x \in Range(t.jobs) : x = h \/ x \in Range(Tail(t.jobs))
      /\ h.act \in Closing => \A x \in Range(Tail(t.jobs)) : x.act = "blank"
  <2>1. t \in Tasks /\ t.jobs \in Seq(Jobs) /\ t.jobs # <<>>
    BY DEF Types, Tasks, Todo
  <2>2. TaskOK(t)
    BY DEF Known
  <2> QED BY <2>1, <2>2, HeadOrTail, OrderKept DEF TaskOK
<1>2. /\ \A u \in tasks : u = t
      /\ Agree /\ Kept /\ \A j \in Range(t.jobs) : PlacedJob(t, j)
  BY DEF Filed, Alone
<1>3. \A u, v \in tasks' : u = v
  <2>1. PICK jobs \in Seq(Jobs) : Goes(t, jobs)
    BY AfterHead
  <2>2. \A u \in tasks' : (u \in tasks /\ u # t) \/ u = [t EXCEPT !.jobs = jobs]
    BY <2>1 DEF Goes
  <2> QED BY <1>2, <2>2
<1>4. \A u \in tasks' : u.kind = t.kind
  BY <1>2, StepTasks
<1>5. \A u \in tasks' : \A j \in Range(u.jobs) : PlacedJob(u, j)
  <2> SUFFICES ASSUME NEW u \in tasks', NEW j \in Range(u.jobs) PROVE PlacedJob(u, j)
    OBVIOUS
  <2>1. CASE u \in tasks
    BY <1>2, <2>1
  <2>2. CASE u.id = t.id /\ u.logon = t.logon /\ NextJob(t, h, j)
    BY <1>1, <1>2, <2>2, NextJobPlaced
  <2> QED BY <2>1, <2>2, StepTasks
<1>6. ASSUME disk' = disk PROVE \A u \in tasks' : \A j \in Range(u.jobs) : PlacedJob(u, j)'
  BY <1>5, <1>6 DEF PlacedJob, Placed
<1>7. t.kind # "delete" => \A id \in Id, slot \in Slot : ~WillGo(id, slot)
  BY <1>2 DEF WillGo
<1>8. ASSUME disk' = disk, t.kind # "delete",
             \A id \in Id, slot \in Slot :
                chain'[<<id, slot>>] \in {Null, chain[<<id, slot>>]} \/ Placed(id, slot)
      PROVE  Filed'
  <2>1. Kept'
    BY <1>2, <1>7, <1>8 DEF Kept, Placed
  <2> QED BY <1>2, <1>3, <1>6, <1>8, <2>1 DEF Filed, Agree
<1>9. ASSUME t.kind = "delete", h.act \in Deletes, disk' = disk,
              NEW jobs \in Seq(Jobs), Goes(t, jobs),
              chain' = [chain EXCEPT ![<<h.id, h.slot>>] = Null],
              Range(Tail(t.jobs)) \subseteq Range(jobs),
              h.act = "forget" /\ h.slot = "pass" => DeleteIt(h.id, "keypass") \in Range(jobs)
       PROVE  Filed'
  <2>1. \A id \in Id, slot \in Slot : WillGo(id, slot) =>
            (id = h.id /\ slot = h.slot) \/ WillGo(id, slot)'
    <3> SUFFICES ASSUME NEW id \in Id, NEW slot \in Slot, WillGo(id, slot),
                        ~(id = h.id /\ slot = h.slot)
                 PROVE  WillGo(id, slot)'
      OBVIOUS
    <3>1. PICK j \in Range(t.jobs) : Covers(j, id, slot)
      BY <1>2 DEF WillGo
    <3>2. \E k \in Range(jobs) : Covers(k, id, slot)
      <4>1. CASE j \in Range(Tail(t.jobs))
        BY <1>9, <3>1, <4>1
      <4>2. CASE j = h
        <5>1. h.act = "forget" /\ h.slot = "pass" /\ slot = "keypass" /\ h.id = id
          BY <3>1, <4>2 DEF Covers
        <5>2. Covers(DeleteIt(h.id, "keypass"), id, slot)
          BY <5>1 DEF Covers, DeleteIt, Job, Deletes
        <5> QED BY <1>9, <5>1, <5>2
      <4> QED BY <1>1, <4>1, <4>2
    <3>3. jobs # <<>>
      BY <3>2, OneOrTwo
    <3>4. PICK u \in tasks' : u.kind = "delete" /\ u.jobs = jobs
      <4>1. [t EXCEPT !.jobs = jobs] \in tasks'
        BY <1>1, <1>9, <3>3, LeftToDo
      <4>2. [t EXCEPT !.jobs = jobs].kind = "delete" /\ [t EXCEPT !.jobs = jobs].jobs = jobs
        BY <1>1, <1>9 DEF Tasks
      <4> QED BY <4>1, <4>2
    <3> QED BY <3>2, <3>4 DEF WillGo, Covers
  <2>2. h.id \in Id /\ h.slot \in Slot
    BY <1>1, <1>9 DEF JobOK, Deletes, Jobs
  <2>3. \A id \in Id, slot \in Slot : chain'[<<id, slot>>] # Null =>
            chain[<<id, slot>>] # Null /\ ~(id = h.id /\ slot = h.slot)
    BY <1>9, <2>2 DEF Types
  <2>4. Kept'
    BY <1>2, <1>9, <2>1, <2>3 DEF Kept
  <2> QED BY <1>2, <1>3, <1>6, <1>9, <2>4 DEF Filed, Agree
<1>10. CASE h.act = "set" \/ h.act = "copy"
  <2>1. /\ t.kind # "delete" /\ disk' = disk /\ Placed(h.id, h.slot)
    BY <1>1, <1>2, <1>10 DEF Step, JobOK, Deletes, Closing, PlacedJob
  <2>2. chain' = chain \/ \E c : chain' = [chain EXCEPT ![<<h.id, h.slot>>] = c]
    BY <1>10 DEF Step, Sets
  <2>3. \A id \in Id, slot \in Slot :
            chain'[<<id, slot>>] \in {Null, chain[<<id, slot>>]} \/ Placed(id, slot)
    BY <2>1, <2>2 DEF Types
  <2> QED BY <1>8, <2>1, <2>3
<1>11. CASE h.act = "delete"
  <2>1. /\ disk' = disk /\ Goes(t, Tail(t.jobs))
        /\ chain' = [chain EXCEPT ![<<h.id, h.slot>>] = Null]
    BY <1>11, <1>15 DEF Step
  <2>2. CASE t.kind = "delete"
    BY <1>1, <1>9, <1>11, <2>1, <2>2 DEF Deletes
  <2>3. CASE t.kind # "delete"
    <3>1. \A id \in Id, slot \in Slot : chain'[<<id, slot>>] \in {Null, chain[<<id, slot>>]}
      BY <2>1 DEF Types
    <3> QED BY <1>8, <2>1, <2>3, <3>1
  <2> QED BY <2>2, <2>3
<1>12. CASE h.act = "forget"
  <2> DEFINE q == IF h.slot = "pass" THEN <<DeleteIt(h.id, "keypass")>> ELSE <<>>
             jobs == q \o Tail(t.jobs)
  <2>1. /\ disk' = disk /\ Goes(t, jobs)
        /\ chain' = [chain EXCEPT ![<<h.id, h.slot>>] = Null]
    BY <1>12, <1>15 DEF Step
  <2>2. t.kind = "delete" /\ h.act \in Deletes
    BY <1>1, <1>12 DEF JobOK, Deletes
  <2>3. DeleteIt(h.id, "keypass") \in Jobs
    BY <1>1 DEF DeleteIt, Job, Jobs, Acts, Slot, Whose
  <2>4. q \in Seq(Jobs) /\ (h.slot = "pass" => Range(q) = {DeleteIt(h.id, "keypass")})
    BY <2>3, OneOrTwo
  <2> HIDE DEF q
  <2>5. jobs \in Seq(Jobs) /\ Range(jobs) = Range(q) \cup Range(Tail(t.jobs))
    BY <1>1, <2>4, Joined
  <2> HIDE DEF jobs
  <2>6. /\ Range(Tail(t.jobs)) \subseteq Range(jobs)
        /\ h.act = "forget" /\ h.slot = "pass" => DeleteIt(h.id, "keypass") \in Range(jobs)
    BY <2>4, <2>5
  <2> QED BY <1>9, <2>1, <2>2, <2>5, <2>6
<1>13. CASE h.act \in {"read", "readkey", "select"}
  <2>1. t.kind # "delete" /\ disk' = disk /\ chain' = chain
    BY <1>1, <1>13 DEF Step, JobOK, Deletes, Closing
  <2> QED BY <1>8, <2>1
<1>14. CASE h.act \in Closing
  <2>1. \A id \in Id, slot \in Slot : ~WillGo(id, slot)
    BY <1>1, <1>2, <1>14 DEF WillGo, Covers, Deletes, Closing
  <2>2. disk' \in {disk, sites} /\ chain' = chain
    BY <1>14 DEF Step, Saves, Closing
  <2>3. \A u \in tasks' : \A j \in Range(u.jobs) : PlacedJob(u, j)'
    <3>1. t.kind = "delete"
      BY <1>1, <1>14 DEF JobOK
    <3>2. \A u \in tasks' : TaskOK(u)'
      BY KnownStep DEF Known
    <3> QED BY <1>4, <3>1, <3>2 DEF TaskOK, JobOK, PlacedJob, Deletes, Closing
  <2>4. Agree' /\ Kept'
    BY <1>2, <2>1, <2>2 DEF Agree, Kept, Fits
  <2> QED BY <1>3, <2>3, <2>4 DEF Filed
<1> QED BY <1>1, <1>10, <1>11, <1>12, <1>13, <1>14 DEF Jobs, Acts, Closing

(* A step keeps where the secrets are filed. *)
LEMMA FiledNext == ASSUME Types, Known, Filed, [Next]_vars PROVE Filed'
<1> SUFFICES ASSUME Alone' PROVE Filed'
  BY DEF Filed, Alone
<1>1. Alone
  BY OwnGrows DEF Alone
<1>2. /\ \A t, u \in tasks : t = u
      /\ Agree /\ Kept
      /\ \A t \in tasks : \A j \in Range(t.jobs) : PlacedJob(t, j)
  BY <1>1 DEF Filed, Alone
<1>3. ASSUME UNCHANGED <<disk, chain, sites, tasks>> PROVE Filed'
  BY <1>2, <1>3 DEF Filed, Agree, Kept, WillGo, PlacedJob, Placed
<1>4. CASE \/ Click \/ TypeInForm \/ OpenSites \/ CloseSites \/ ExportSites
  <2>1. UNCHANGED <<disk, chain, sites, tasks>>
    BY <1>4 DEF Click, TypeInForm, OpenSites, CloseSites, ExportSites
  <2> QED BY <1>3, <2>1
<1>5. CASE Loaded \/ Crash
  <2>1. disk' = disk /\ sites' = disk /\ chain' = chain /\ tasks' \in {tasks, {}}
    <3>1. tasks' \in {tasks, {}}
      BY <1>5 DEF Loaded, Crash
    <3> QED BY <1>5, <3>1, ReadAgain DEF Alone
  <2>2. Agree' /\ Kept'
    BY <1>2, <2>1 DEF Agree, Kept
  <2>3. \A t \in tasks' : \A j \in Range(t.jobs) : PlacedJob(t, j)'
    BY <1>2, <2>1 DEF PlacedJob, Placed
  <2> QED BY <1>2, <2>1, <2>2, <2>3 DEF Filed
<1>6. CASE NewSite
  <2>1. /\ HasFresh /\ sites' = With(sites, Fresh, Site("normal", Fresh))
        /\ UNCHANGED <<disk, chain, tasks>>
    BY <1>6 DEF NewSite
  <2>2. /\ DOMAIN sites' = DOMAIN sites \cup {Fresh}
        /\ \A i \in DOMAIN sites : i # Fresh => sites'[i] = sites[i]
    BY <2>1 DEF With
  <2>3. Fresh \notin DOMAIN disk /\ Fresh \notin DOMAIN sites
    BY <2>1, FreshIsFree DEF Known
  <2>4. Agree'
    BY <1>2, <2>1, <2>2, <2>3 DEF Agree
  <2>5. Kept' /\ \A t \in tasks' : \A j \in Range(t.jobs) : PlacedJob(t, j)'
    BY <1>2, <2>1, <2>2 DEF Kept, WillGo, PlacedJob, Placed
  <2> QED BY <1>2, <2>1, <2>4, <2>5 DEF Filed
<1>7. CASE SaveSite
  <2> PICK j : j = Job("read", sel, "pass", Null)
    OBVIOUS
  <2> PICK new : new = Task("save", sel, form.logon, <<j>>)
    OBVIOUS
  <2>1. /\ sel \in DOMAIN sites /\ DOMAIN sites' = DOMAIN sites
        /\ sites'[sel] = Site(form.logon, form.data)
        /\ \A i \in DOMAIN sites : i # sel => sites'[i] = sites[i]
        /\ odd \cup Overlap \cup Recast(sites[sel].logon, form.logon) \subseteq odd'
        /\ \/ disk' = sites' /\ tasks' = tasks \cup {new}
           \/ disk' = disk /\ tasks' = tasks
        /\ UNCHANGED chain
    BY <1>7, SiteSaved
  <2>2. tasks = {} /\ (sites[sel].logon = "cloud") = (form.logon = "cloud")
    BY <2>1 DEF Alone, Overlap, Recast
  <2>3. \A id \in DOMAIN sites : (sites[id].logon = "cloud") = (sites'[id].logon = "cloud")
    BY <2>1, <2>2 DEF Site
  <2>4. \A t \in tasks' : \A k \in Range(t.jobs) : PlacedJob(t, k)'
    <3>1. new.id = sel /\ new.logon = form.logon /\ new.jobs = <<j>> /\ Range(<<j>>) = {j}
      BY OneOrTwo DEF Task
    <3>2. disk' = sites' => PlacedJob(new, j)'
      BY <2>1, <3>1 DEF PlacedJob, Placed, Fits, Job, Site
    <3> QED BY <2>1, <2>2, <3>1, <3>2
  <2> QED BY <1>1, <2>1, <2>2, <2>3, <2>4, FiledAfterSave
<1>8. CASE DuplicateSite
  <2> PICK id \in DOMAIN sites, jobs \in Todo :
          /\ HasFresh /\ sites' = With(sites, Fresh, sites[id]) /\ disk' \in {disk, sites'}
          /\ tasks' = tasks \cup {Task("duplicate", Fresh, "none", jobs)}
          /\ \A j \in Range(jobs) :
                \/ j = Job("select", Fresh, "pass", Null)
                \/ /\ disk' = sites'
                   /\ \E slot \in Slot : /\ Fits(slot, sites[id].logon)
                                         /\ j = Job("copy", Fresh, slot, id)
          /\ odd' = odd \cup Overlap
          /\ UNCHANGED <<chain, selection, shown, backup>>
    BY <1>8, Duplicated
  <2> PICK new : new = Task("duplicate", Fresh, "none", jobs)
    OBVIOUS
  <2>1. tasks = {} /\ Fresh \notin DOMAIN disk /\ Fresh \notin DOMAIN sites
    BY NoOverlap, FreshIsFree DEF Known
  <2>2. /\ DOMAIN sites' = DOMAIN sites \cup {Fresh} /\ sites'[Fresh] = sites[id]
        /\ \A i \in DOMAIN sites : i # Fresh => sites'[i] = sites[i]
    BY DEF With
  <2>3. \A t \in tasks' : \A j \in Range(t.jobs) : PlacedJob(t, j)'
    <3>1. new.jobs = jobs
      BY DEF Task
    <3>2. \A j \in Range(jobs) : PlacedJob(new, j)'
      BY <2>2 DEF PlacedJob, Placed, Fits, Job
    <3> QED BY <2>1, <3>1, <3>2
  <2> QED BY <1>1, <2>1, <2>2, <2>3, FiledAfterSave
<1>9. CASE DeleteSite
  <2> PICK gone \in SUBSET (ticked \cap DOMAIN sites), jobs \in Todo :
          /\ Range(jobs) = {Forget(id) : id \in gone}
                \cup {Job("save", Null, "pass", Null), Job("blank", Null, "pass", Null)}
          /\ tasks' = tasks \cup {Task("delete", Null, "none", jobs)}
          /\ sites' = Without(sites, gone) /\ odd' = odd \cup Overlap
          /\ UNCHANGED <<disk, chain>>
    BY <1>9, Deleted
  <2> PICK new : new = Task("delete", Null, "none", jobs)
    OBVIOUS
  <2>1. tasks = {} /\ new.kind = "delete" /\ new.jobs = jobs
    BY NoOverlap DEF Task
  <2>2. DOMAIN sites' = DOMAIN sites \ gone /\ \A i \in DOMAIN sites' : sites'[i] = sites[i]
    BY DEF Without
  <2>3. \A id \in Id, slot \in Slot : chain[<<id, slot>>] # Null =>
            /\ id \in DOMAIN disk /\ Fits(slot, disk[id].logon)
            /\ id \in DOMAIN sites /\ Fits(slot, sites[id].logon)
    BY <1>2, <2>1, AtRest
  <2>4. ASSUME NEW id \in gone, NEW slot \in Slot, Fits(slot, sites[id].logon)
        PROVE  WillGo(id, slot)'
    <3>1. Forget(id) \in Range(jobs)
      OBVIOUS
    <3>2. Covers(Forget(id), id, slot)
      BY <2>4 DEF Covers, Forget, Job, Deletes, Fits, Slot
    <3> QED BY <2>1, <3>1, <3>2 DEF WillGo, Covers
  <2>5. Agree' /\ Kept'
    BY <1>2, <2>2, <2>3, <2>4 DEF Agree, Kept
  <2>6. \A j \in Range(jobs) : PlacedJob(new, j)'
    BY DEF PlacedJob, Forget, Job
  <2> QED BY <2>1, <2>5, <2>6 DEF Filed
<1>10. CASE ImportSites
  <2> PICK b \in backup, id \in Id :
          /\ b.site.logon # "cloud"
          /\ \/ id \in DOMAIN sites /\ sites[id].data = b.site.data
             \/ HasFresh /\ id = Fresh
          /\ sites' = With(sites, id, b.site)
          /\ odd' = odd \cup Overlap \cup (IF id \in DOMAIN sites
                                           THEN Replaced(sites[id].logon, b.site.logon) ELSE {})
          /\ disk' \in {disk, sites'}
          /\ \/ tasks' = tasks
             \/ /\ disk' = sites'
                /\ tasks' = tasks \cup {Task("import", id, "none", <<SetIt(id, "pass", b.secret)>>)}
          /\ UNCHANGED chain
    BY <1>10, Imported
  <2> PICK j : j = SetIt(id, "pass", b.secret)
    OBVIOUS
  <2> PICK new : new = Task("import", id, "none", <<j>>)
    OBVIOUS
  <2>1. /\ tasks = {}
        /\ id \in DOMAIN sites => (sites[id].logon = "cloud") = (b.site.logon = "cloud")
    BY DEF Alone, Overlap, Replaced, Recast
  <2>2. /\ DOMAIN sites' = DOMAIN sites \cup {id} /\ sites'[id] = b.site
        /\ \A i \in DOMAIN sites : i # id => sites'[i] = sites[i]
    BY DEF With
  <2>3. \A i \in DOMAIN sites : (sites[i].logon = "cloud") = (sites'[i].logon = "cloud")
    BY <2>1, <2>2
  <2>4. \A i \in DOMAIN disk : i \notin DOMAIN sites => i \notin DOMAIN sites'
    BY <2>2, FreshIsFree DEF Known
  <2>5. \A t \in tasks' : \A k \in Range(t.jobs) : PlacedJob(t, k)'
    <3>1. new.jobs = <<j>> /\ Range(<<j>>) = {j}
      BY OneOrTwo DEF Task
    <3>2. disk' = sites' => PlacedJob(new, j)'
      BY <2>2 DEF PlacedJob, Placed, Fits, SetIt, Job
    <3> QED BY <2>1, <3>1, <3>2
  <2> QED BY <1>1, <2>1, <2>2, <2>3, <2>4, <2>5, FiledAfterSave
<1>11. ASSUME NEW g \in gets, SecretCame(g) PROVE Filed'
  BY <1>3, <1>11 DEF SecretCame
<1>12. ASSUME NEW t \in tasks, Step(t), UNCHANGED <<sites, shown, backup, own, requests>> PROVE Filed'
  BY <1>1, <1>12, FiledStep
<1>13. CASE UNCHANGED vars
  BY <1>3, <1>13 DEF vars
<1> QED BY <1>4, <1>5, <1>6, <1>7, <1>8, <1>9, <1>10, <1>11, <1>12, <1>13 DEF Next

-----------------------------------------------------------------------------
(* Which secrets are in use. *)

Plain == odd \cap {"unread", "kept", "recast", "overlap", "cut", "replaced"} = {}

(* At first. *)
LEMMA UsedInit == ASSUME Init PROVE Used
<1>1. /\ tasks = {} /\ sites = disk /\ DOMAIN disk = DOMAIN Saved
      /\ \A i \in DOMAIN Saved : disk[i].logon = Saved[i]
  BY DEF Init, Site
<1>2. \A id \in Id, slot \in Slot : chain[<<id, slot>>] # Null =>
          id \in DOMAIN Saved /\ slot = SlotOf(Saved[id])
  BY DEF Init
<1> QED BY <1>1, <1>2 DEF Used

(* A save puts a secret in the slot of its logon type, and deletes the others. *)
LEMMA SecretsOfASave ==
    ASSUME NEW t \in Tasks, NEW s
    PROVE  LET jobs == SecretJobs(t, s) IN
           /\ \A j \in Range(jobs) :
                 /\ j.act \in {"set", "delete", "readkey"} /\ j.id = t.id
                 /\ j.act = "set" => j.slot = SlotOf(t.logon)
           /\ \A slot \in Slot : Fits(slot, t.logon) /\ slot # SlotOf(t.logon) =>
                 \E j \in Range(jobs) : j.act = "delete" /\ j.id = t.id /\ j.slot = slot
<1> DEFINE jobs == SecretJobs(t, s)
           d(slot) == DeleteIt(t.id, slot)
           set(slot) == SetIt(t.id, slot, s[slot])
           r == Job("readkey", t.id, "keypass", Null)
<1>1. \/ t.logon = "cloud" /\ (jobs = <<set("cloud")>> \/ jobs = <<d("cloud")>>)
      \/ t.logon = "normal" /\ jobs = <<set("pass"), d("keypass")>>
      \/ t.logon = "key" /\ jobs = <<d("pass"), r>>
      \/ t.logon # "cloud" /\ jobs = <<d("pass"), d("keypass")>>
  BY DEF SecretJobs, Put
<1>2. /\ \A slot : d(slot).act = "delete" /\ d(slot).id = t.id /\ d(slot).slot = slot
      /\ \A slot : set(slot).act = "set" /\ set(slot).id = t.id /\ set(slot).slot = slot
      /\ r.act = "readkey" /\ r.id = t.id
  BY DEF DeleteIt, SetIt, Job
<1>3. SlotOf("cloud") = "cloud" /\ SlotOf("normal") = "pass" /\ SlotOf("key") = "keypass"
  BY DEF SlotOf
<1>4. \A slot \in Slot : Fits(slot, t.logon) =>
          IF t.logon = "cloud" THEN slot = "cloud" ELSE slot \in {"pass", "keypass"}
  BY DEF Fits, Slot
<1> HIDE DEF jobs, d, set, r
<1>5. CASE t.logon = "cloud" /\ (jobs = <<set("cloud")>> \/ jobs = <<d("cloud")>>)
  <2>1. Range(jobs) = {set("cloud")} \/ Range(jobs) = {d("cloud")}
    BY <1>5, OneOrTwo
  <2> QED BY <1>2, <1>3, <1>4, <1>5, <2>1 DEF jobs
<1>6. CASE t.logon = "normal" /\ jobs = <<set("pass"), d("keypass")>>
  <2>1. Range(jobs) = {set("pass"), d("keypass")}
    BY <1>6, OneOrTwo
  <2>2. t.logon # "cloud"
    BY <1>6
  <2> QED BY <1>2, <1>3, <1>4, <1>6, <2>1, <2>2 DEF jobs
<1>7. CASE t.logon = "key" /\ jobs = <<d("pass"), r>>
  <2>1. Range(jobs) = {d("pass"), r}
    BY <1>7, OneOrTwo
  <2>2. t.logon # "cloud"
    BY <1>7
  <2> QED BY <1>2, <1>3, <1>4, <1>7, <2>1, <2>2 DEF jobs
<1>8. CASE t.logon # "cloud" /\ jobs = <<d("pass"), d("keypass")>>
  <2>1. Range(jobs) = {d("pass"), d("keypass")}
    BY <1>8, OneOrTwo
  <2> QED BY <1>2, <1>4, <1>8, <2>1 DEF jobs
<1> QED BY <1>1, <1>5, <1>6, <1>7, <1>8

(* A step of a task. *)
LEMMA UsedStep ==
    ASSUME Types, Known, Filed, Used, Plain, Plain', NEW t \in tasks, Step(t),
           UNCHANGED <<sites, shown, backup, own, requests>>
    PROVE  Used'
<1> DEFINE h == Head(t.jobs)
           InUse(id, slot) == slot = SlotOf(disk[id].logon)
           Erases_(jobs, id, slot) ==
              \E j \in Range(jobs) : \/ j.act = "read"
                                     \/ j.act = "delete" /\ j.id = id /\ j.slot = slot
<1>1. /\ t \in Tasks /\ t.jobs \in Seq(Jobs) /\ Tail(t.jobs) \in Seq(Jobs) /\ <<>> \in Seq(Jobs)
      /\ h \in Range(t.jobs) /\ JobOK(t.kind, t.logon, h) /\ h \in Jobs
      /\ Range(Tail(t.jobs)) \subseteq Range(t.jobs)
      /\ \A x \in Range(t.jobs) : x = h \/ x \in Range(Tail(t.jobs))
      /\ h.act \in Closing => \A x \in Range(Tail(t.jobs)) : x.act = "blank"
      /\ t.jobs[Len(t.jobs)] \in Range(t.jobs)
  <2>1. t \in Tasks /\ t.jobs \in Seq(Jobs) /\ t.jobs # <<>>
    BY DEF Types, Tasks, Todo
  <2>2. TaskOK(t)
    BY DEF Known
  <2>3. Len(t.jobs) \in DOMAIN t.jobs
    BY <2>1
  <2>4. t.jobs[Len(t.jobs)] \in Range(t.jobs)
    BY <2>3 DEF Range
  <2> QED BY <2>1, <2>2, <2>4, HeadOrTail, OrderKept DEF TaskOK
<1>2. /\ \A u \in tasks : u = t
      /\ Kept /\ \A j \in Range(t.jobs) : PlacedJob(t, j)
      /\ \A j \in Range(t.jobs) : Suits(t, j)
      /\ \A id \in DOMAIN sites \cap DOMAIN disk : sites[id].logon = disk[id].logon
  BY DEF Filed, Used, Plain
<1>3. \A id \in Id, slot \in Slot : chain[<<id, slot>>] # Null =>
          InUse(id, slot) \/ (t.kind = "save" /\ t.id = id /\ Erases_(t.jobs, id, slot))
  BY <1>2 DEF Used, Plain, WillErase
<1>4. ASSUME NEW jobs \in Seq(Jobs), Goes(t, jobs), disk' = disk,
             \A j \in Range(jobs) : Suits(t, j),
             \A id \in Id, slot \in Slot : chain'[<<id, slot>>] # Null =>
                InUse(id, slot) \/ (t.kind = "save" /\ t.id = id /\ Erases_(jobs, id, slot))
      PROVE  Used'
  <2> DEFINE v == [t EXCEPT !.jobs = jobs]
  <2>5. tasks' = (tasks \ {t}) \cup (IF jobs = <<>> THEN {} ELSE {v})
    BY <1>4 DEF Goes
  <2>6. v.kind = t.kind /\ v.id = t.id /\ v.logon = t.logon /\ v.jobs = jobs
    BY <1>1 DEF Tasks, Todo
  <2> HIDE DEF v, Erases_
  <2>1. /\ \A u \in tasks' : /\ u.kind = t.kind /\ u.id = t.id /\ u.logon = t.logon /\ u.jobs = jobs
        /\ jobs # <<>> => \E u \in tasks' : u.kind = t.kind /\ u.id = t.id /\ u.jobs = jobs
    BY <1>2, <2>5, <2>6
  <2> USE DEF Erases_
  <2>2. \A u \in tasks' : \A j \in Range(u.jobs) : Suits(u, j)'
    BY <1>4, <2>1 DEF Suits
  <2>3. \A id, slot : t.kind = "save" /\ t.id = id /\ Erases_(jobs, id, slot) => WillErase(id, slot)'
    <3>1. \A id, slot : Erases_(jobs, id, slot) => jobs # <<>>
      BY OneOrTwo
    <3> QED BY <2>1, <3>1 DEF WillErase
  <2> HIDE DEF Erases_
  <2> QED BY <1>2, <1>4, <2>2, <2>3 DEF Used
<1>5. ASSUME NEW jobs \in Seq(Jobs), Goes(t, jobs), disk' = disk, t.kind # "save",
             \A j \in Range(jobs) : j \in Range(t.jobs) \/ j.act = "delete",
             \A id \in Id, slot \in Slot : chain'[<<id, slot>>] # Null =>
                chain[<<id, slot>>] # Null \/ InUse(id, slot)
      PROVE  Used'
  <2>1. \A j \in Range(jobs) : Suits(t, j)
    BY <1>2, <1>5 DEF Suits
  <2> HIDE DEF InUse, Erases_
  <2> QED BY <1>3, <1>4, <1>5, <2>1
<1>6. ASSUME NEW q \in Seq(Jobs), Goes(t, q \o Tail(t.jobs)), disk' = disk, h.act # "read",
             \A j \in Range(q) : Suits(t, j),
             \A id \in Id, slot \in Slot : chain'[<<id, slot>>] # Null =>
                \/ InUse(id, slot)
                \/ chain[<<id, slot>>] # Null /\ ~(h.act = "delete" /\ h.id = id /\ h.slot = slot)
      PROVE  Used'
  <2>1. q \o Tail(t.jobs) \in Seq(Jobs) /\ Range(q \o Tail(t.jobs)) = Range(q) \cup Range(Tail(t.jobs))
    BY <1>1, <1>6, Joined
  <2> PICK jobs \in Seq(Jobs) : jobs = q \o Tail(t.jobs)
    BY <2>1
  <2>2. Goes(t, jobs) /\ \A j \in Range(jobs) : Suits(t, j)
    BY <1>1, <1>2, <1>6, <2>1
  <2>3. \A id, slot : Erases_(t.jobs, id, slot) /\ ~(h.act = "delete" /\ h.id = id /\ h.slot = slot)
            => Erases_(jobs, id, slot)
    BY <1>1, <1>6, <2>1
  <2> HIDE DEF InUse, Erases_, h
  <2>4. ASSUME NEW id \in Id, NEW slot \in Slot, chain'[<<id, slot>>] # Null
        PROVE  InUse(id, slot) \/ (t.kind = "save" /\ t.id = id /\ Erases_(jobs, id, slot))
    BY <1>3, <1>6, <2>3, <2>4
  <2>5. disk' = disk
    BY <1>6
  <2> QED BY <1>4, <2>2, <2>4, <2>5
<1>7. ASSUME Goes(t, Tail(t.jobs)), disk' = disk, h.act # "read",
             \A id \in Id, slot \in Slot : chain'[<<id, slot>>] # Null =>
                \/ InUse(id, slot)
                \/ chain[<<id, slot>>] # Null /\ ~(h.act = "delete" /\ h.id = id /\ h.slot = slot)
      PROVE  Used'
  <2>1. <<>> \o Tail(t.jobs) = Tail(t.jobs)
    BY <1>1
  <2> HIDE DEF InUse
  <2> QED BY <1>1, <1>6, <1>7, <2>1, OneOrTwo
<1>8. ASSUME Fault, Goes(t, Ends(t, TRUE)), UNCHANGED <<disk, chain>>,
             odd' = odd \cup (IF t.kind = "save" THEN {"cut"} ELSE {}), h.act \in {"set", "copy"}
      PROVE  Used'
  <2>1. t.kind # "save"
    BY <1>8 DEF Plain
  <2>2. CASE t.kind = "duplicate"
    <3> PICK last \in Range(t.jobs) : last = t.jobs[Len(t.jobs)]
      BY <1>1
    <3>1. Goes(t, <<last>>) /\ last \in Jobs
      <4>1. Range(t.jobs) \subseteq Jobs
        BY <1>1 DEF Range
      <4> QED BY <1>8, <2>2, <4>1 DEF Ends
    <3>2. <<last>> \in Seq(Jobs) /\ Range(<<last>>) = {last}
      BY <3>1, OneOrTwo
    <3> HIDE DEF InUse
    <3> QED BY <1>5, <1>8, <2>1, <3>1, <3>2
  <2>3. CASE t.kind # "duplicate"
    <3>1. Goes(t, Tail(t.jobs))
      BY <1>8, <2>1, <2>3 DEF Ends
    <3> HIDE DEF InUse
    <3> QED BY <1>7, <1>8, <3>1
  <2> QED BY <2>2, <2>3
<1>9. CASE h.act = "set"
  <2>1. CASE chain' = [chain EXCEPT ![<<h.id, h.slot>>] = h.whose] /\ Goes(t, Tail(t.jobs))
    <3>1. InUse(h.id, h.slot) /\ disk' = disk
      BY <1>1, <1>2, <1>9 DEF Suits, Step
    <3>2. \A id \in Id, slot \in Slot :
              chain'[<<id, slot>>] = chain[<<id, slot>>] \/ (id = h.id /\ slot = h.slot)
      BY <2>1 DEF Types
    <3> HIDE DEF InUse
    <3> QED BY <1>7, <1>9, <2>1, <3>1, <3>2
  <2>2. CASE /\ Fault /\ Goes(t, Ends(t, TRUE)) /\ UNCHANGED chain
             /\ odd' = odd \cup (IF t.kind = "save" THEN {"cut"} ELSE {})
    BY <1>8, <1>9, <2>2 DEF Step
  <2> QED BY <1>9, <2>1, <2>2 DEF Step, Sets
<1>10. CASE h.act = "copy"
  <2>1. CASE chain' = chain /\ Goes(t, Tail(t.jobs))
    <3>1. disk' = disk
      BY <1>10 DEF Step
    <3> HIDE DEF InUse
    <3> QED BY <1>7, <1>10, <2>1, <3>1
  <2>2. CASE /\ chain' = [chain EXCEPT ![<<h.id, h.slot>>] = chain[<<h.whose, h.slot>>]]
             /\ Goes(t, Tail(t.jobs)) /\ chain[<<h.whose, h.slot>>] # Null
    <3>1. h.whose \in Id /\ h.slot \in Slot /\ t.kind = "duplicate" /\ disk' = disk
      BY <1>1, <1>10 DEF JobOK, Jobs, Step
    <3>2. InUse(h.whose, h.slot)
      BY <1>3, <2>2, <3>1
    <3>3. InUse(h.id, h.slot)
      BY <1>1, <1>2, <1>10, <3>2 DEF Suits
    <3>4. \A id \in Id, slot \in Slot :
              chain'[<<id, slot>>] = chain[<<id, slot>>] \/ (id = h.id /\ slot = h.slot)
      BY <2>2 DEF Types
    <3> HIDE DEF InUse
    <3> QED BY <1>7, <1>10, <2>2, <3>1, <3>3, <3>4
  <2>3. CASE /\ Fault /\ Goes(t, Ends(t, TRUE)) /\ UNCHANGED chain
             /\ odd' = odd \cup (IF t.kind = "save" THEN {"cut"} ELSE {})
    BY <1>8, <1>10, <2>3 DEF Step
  <2> QED BY <1>10, <2>1, <2>2, <2>3 DEF Step, Sets
<1>11. ASSUME h.act \in {"delete", "forget"}
       PROVE  /\ disk' = disk
              /\ \A id \in Id, slot \in Slot : chain'[<<id, slot>>] # Null =>
                    chain[<<id, slot>>] # Null /\ ~(h.id = id /\ h.slot = slot)
  <2>1. disk' = disk /\ chain' = [chain EXCEPT ![<<h.id, h.slot>>] = Null]
    BY <1>11 DEF Step, Erases, Plain
  <2>2. h.id \in Id /\ h.slot \in Slot
    BY <1>1, <1>11 DEF JobOK, Jobs
  <2> QED BY <2>1, <2>2 DEF Types
<1>12. CASE h.act = "delete"
  <2>1. Goes(t, Tail(t.jobs))
    BY <1>12 DEF Step
  <2> HIDE DEF InUse
  <2> QED BY <1>7, <1>11, <1>12, <2>1
<1>13. CASE h.act = "forget"
  <2> DEFINE q == IF h.slot = "pass" THEN <<DeleteIt(h.id, "keypass")>> ELSE <<>>
  <2>1. Goes(t, q \o Tail(t.jobs))
    BY <1>13 DEF Step
  <2>2. DeleteIt(h.id, "keypass") \in Jobs /\ DeleteIt(h.id, "keypass").act = "delete"
    BY <1>1 DEF DeleteIt, Job, Jobs, Acts, Slot, Whose
  <2>3. q \in Seq(Jobs) /\ Range(q) \subseteq {DeleteIt(h.id, "keypass")}
    BY <2>2, OneOrTwo
  <2>4. \A j \in Range(q) : Suits(t, j)
    BY <2>2, <2>3 DEF Suits
  <2> HIDE DEF q, InUse
  <2> QED BY <1>6, <1>11, <1>13, <2>1, <2>3, <2>4
<1>14. CASE h.act = "read"
  <2> DEFINE q == SecretJobs(t, form.secrets)
  <2>1. Goes(t, q \o Tail(t.jobs)) /\ UNCHANGED <<disk, chain>>
    BY <1>14 DEF Step
  <2>2. t.kind = "save" /\ t.logon = disk[t.id].logon
    BY <1>1, <1>2, <1>14 DEF JobOK, Suits
  <2>3. /\ \A j \in Range(q) :
              /\ j.act \in {"set", "delete", "readkey"} /\ j.id = t.id
              /\ j.act = "set" => j.slot = SlotOf(t.logon)
        /\ \A slot \in Slot : Fits(slot, t.logon) /\ slot # SlotOf(t.logon) =>
              \E j \in Range(q) : j.act = "delete" /\ j.id = t.id /\ j.slot = slot
    BY <1>1, SecretsOfASave
  <2>4. q \in Seq(Jobs)
    BY <1>1, <1>14, SecretsToPut DEF Types
  <2> HIDE DEF q
  <2>5. \A j \in Range(q) : Suits(t, j)
    BY <2>2, <2>3 DEF Suits
  <2>6. q \o Tail(t.jobs) \in Seq(Jobs) /\ Range(q \o Tail(t.jobs)) = Range(q) \cup Range(Tail(t.jobs))
    BY <1>1, <2>4, Joined
  <2> PICK jobs \in Seq(Jobs) : jobs = q \o Tail(t.jobs)
    BY <2>6
  <2>7. Goes(t, jobs) /\ \A j \in Range(jobs) : Suits(t, j)
    BY <1>1, <1>2, <2>1, <2>5, <2>6
  <2>8. \A id \in Id, slot \in Slot : chain[<<id, slot>>] # Null =>
            InUse(id, slot) \/ (t.id = id /\ Erases_(jobs, id, slot))
    <3> SUFFICES ASSUME NEW id \in Id, NEW slot \in Slot, chain[<<id, slot>>] # Null, ~InUse(id, slot)
                 PROVE  t.id = id /\ Erases_(jobs, id, slot)
      OBVIOUS
    <3>1. t.id = id
      BY <1>3
    <3>2. Fits(slot, disk[id].logon)
      BY <1>2 DEF Kept
    <3> QED BY <2>2, <2>3, <2>6, <3>1, <3>2
  <2> HIDE DEF InUse, Erases_
  <2> QED BY <1>4, <2>1, <2>2, <2>7, <2>8
<1>15. CASE h.act = "readkey"
  <2> DEFINE p == Put(t.id, "keypass", form.secrets["keypass"])
  <2>1. Goes(t, <<p>> \o Tail(t.jobs)) /\ UNCHANGED <<disk, chain>>
    BY <1>15 DEF Step
  <2>2. t.logon = "key" /\ t.logon = disk[t.id].logon
    BY <1>1, <1>2, <1>15 DEF JobOK, Suits
  <2>3. p \in Jobs
    BY <1>1, PutIt DEF Types, Slot
  <2>4. Suits(t, p)
    BY <2>2 DEF Suits, Put, SetIt, DeleteIt, Job, SlotOf
  <2> HIDE DEF p, InUse
  <2>5. <<p>> \in Seq(Jobs) /\ Range(<<p>>) = {p}
    BY <2>3, OneOrTwo
  <2> QED BY <1>6, <1>15, <2>1, <2>4, <2>5
<1>16. CASE h.act = "select"
  <2>1. t.kind # "save" /\ Goes(t, <<>>) /\ UNCHANGED <<disk, chain>>
    BY <1>1, <1>16 DEF Step, JobOK
  <2> HIDE DEF InUse
  <2> QED BY <1>1, <1>5, <2>1, OneOrTwo
<1>17. CASE h.act \in Closing
  <2>1. t.kind = "delete" /\ disk' \in {disk, sites} /\ chain' = chain
    BY <1>1, <1>17 DEF JobOK, Step, Saves, Closing
  <2>2. \A id \in Id, slot \in Slot : ~WillGo(id, slot)
    BY <1>1, <1>2, <1>17 DEF WillGo, Covers, Deletes, Closing
  <2>3. \A id \in Id, slot \in Slot : chain[<<id, slot>>] # Null =>
            InUse(id, slot) /\ disk'[id].logon = disk[id].logon
    BY <1>2, <1>3, <2>1, <2>2 DEF Kept
  <2>4. \A u \in tasks' : \A j \in Range(u.jobs) : Suits(u, j)'
    <3>1. \A u \in tasks' : u.kind = "delete"
      BY <1>2, <2>1, StepTasks
    <3>2. \A u \in tasks' : TaskOK(u)'
      BY KnownStep DEF Known
    <3> QED BY <3>1, <3>2 DEF TaskOK, JobOK, Suits, Deletes, Closing
  <2> QED BY <1>2, <2>1, <2>3, <2>4 DEF Used
<1> QED BY <1>1, <1>9, <1>10, <1>12, <1>13, <1>14, <1>15, <1>16, <1>17 DEF Jobs, Acts, Closing

(* What is noted of a step stays noted. *)
LEMMA PlainBefore == ASSUME Types, [Next]_vars, Plain' PROVE Plain
BY OwnGrows DEF Plain

(* A step keeps which secrets are in use. *)
LEMMA UsedNext == ASSUME Types, Known, Filed, Used, Backed, [Next]_vars PROVE Used'
<1> SUFFICES ASSUME Plain' PROVE Used'
  BY DEF Used, Plain
<1>1. Plain
  BY PlainBefore
<1>2. /\ Agree /\ Kept
      /\ \A id \in DOMAIN sites \cap DOMAIN disk : sites[id].logon = disk[id].logon
      /\ \A id \in Id, slot \in Slot :
            chain[<<id, slot>>] # Null => slot = SlotOf(disk[id].logon) \/ WillErase(id, slot)
      /\ \A t \in tasks : \A j \in Range(t.jobs) : Suits(t, j)
  BY <1>1 DEF Filed, Used, Plain
<1>3. ASSUME UNCHANGED <<disk, chain, sites, tasks>> PROVE Used'
  BY <1>2, <1>3 DEF Used, WillErase, Suits
<1>4. ASSUME odd \cup Overlap \subseteq odd' PROVE tasks = {}
  BY <1>4 DEF Plain, Overlap
<1>5. ASSUME tasks = {}, chain' = chain,
             \A id \in DOMAIN sites' \cap DOMAIN disk' : sites'[id].logon = disk'[id].logon,
             \A id \in DOMAIN sites \cap DOMAIN disk, slot \in Slot :
                slot = SlotOf(disk[id].logon) =>
                   slot = SlotOf(disk'[id].logon) \/ WillErase(id, slot)',
             \A t \in tasks' : \A j \in Range(t.jobs) : Suits(t, j)'
      PROVE  Used'
  <2>1. \A id \in Id, slot \in Slot : chain[<<id, slot>>] # Null =>
            id \in DOMAIN sites \cap DOMAIN disk /\ slot = SlotOf(disk[id].logon)
    BY <1>2, <1>5, AtRest DEF WillErase
  <2> QED BY <1>5, <2>1 DEF Used
<1>6. CASE \/ Click \/ TypeInForm \/ OpenSites \/ CloseSites \/ ExportSites
  <2>1. UNCHANGED <<disk, chain, sites, tasks>>
    BY <1>6 DEF Click, TypeInForm, OpenSites, CloseSites, ExportSites
  <2> QED BY <1>3, <2>1
<1>7. CASE Loaded \/ Crash
  <2>1. disk' = disk /\ sites' = disk /\ chain' = chain
    BY <1>7, ReadAgain DEF Plain
  <2>2. tasks' = tasks \/ (tasks' = {} /\ ~Saving)
    BY <1>7 DEF Loaded, Crash, Plain
  <2>3. \A id, slot : WillErase(id, slot) => WillErase(id, slot)'
    BY <2>2 DEF WillErase, Saving
  <2>4. \A t \in tasks' : \A j \in Range(t.jobs) : Suits(t, j)'
    BY <1>2, <2>1, <2>2 DEF Suits
  <2> QED BY <1>2, <2>1, <2>3, <2>4 DEF Used
<1>8. CASE NewSite
  <2>1. /\ HasFresh /\ sites' = With(sites, Fresh, Site("normal", Fresh))
        /\ UNCHANGED <<disk, chain, tasks>>
    BY <1>8 DEF NewSite
  <2>2. /\ DOMAIN sites' = DOMAIN sites \cup {Fresh}
        /\ \A i \in DOMAIN sites : i # Fresh => sites'[i] = sites[i]
    BY <2>1 DEF With
  <2>3. Fresh \notin DOMAIN disk
    BY <2>1, FreshIsFree DEF Known
  <2> QED BY <1>2, <2>1, <2>2, <2>3 DEF Used, WillErase, Suits
<1>9. CASE SaveSite
  <2> PICK j : j = Job("read", sel, "pass", Null)
    OBVIOUS
  <2> PICK new : new = Task("save", sel, form.logon, <<j>>)
    OBVIOUS
  <2>1. /\ sel \in DOMAIN sites /\ DOMAIN sites' = DOMAIN sites
        /\ sites'[sel] = Site(form.logon, form.data)
        /\ \A i \in DOMAIN sites : i # sel => sites'[i] = sites[i]
        /\ odd \cup Overlap \subseteq odd'
        /\ disk' = sites' /\ tasks' = tasks \cup {new}
        /\ UNCHANGED chain
    BY <1>9, SiteSaved DEF Plain
  <2>2. /\ j.act = "read" /\ new.kind = "save" /\ new.id = sel /\ new.logon = form.logon
        /\ new.jobs = <<j>> /\ Range(<<j>>) = {j}
    BY OneOrTwo DEF Task, Job
  <2>3. tasks = {}
    BY <1>4, <2>1
  <2> PICK it : it = sel
    OBVIOUS
  <2>4. \A slot \in Slot : WillErase(it, slot)'
    <3>1. j \in Range(new.jobs) /\ new \in tasks' /\ new.id = it
      BY <2>1, <2>2
    <3> QED BY <2>2, <3>1 DEF WillErase
  <2>5. \A t \in tasks' : \A k \in Range(t.jobs) : Suits(t, k)'
    BY <2>1, <2>2, <2>3 DEF Suits, Site
  <2>6. ASSUME NEW id \in DOMAIN sites \cap DOMAIN disk, NEW slot \in Slot,
               slot = SlotOf(disk[id].logon)
        PROVE  slot = SlotOf(disk'[id].logon) \/ WillErase(id, slot)'
    <3>1. CASE id = it
      BY <2>4, <3>1
    <3>2. CASE id # sel
      BY <1>2, <2>1, <2>6, <3>2
    <3> QED BY <3>1, <3>2
  <2> QED BY <1>5, <2>1, <2>3, <2>5, <2>6
<1>10. CASE DuplicateSite
  <2> PICK id \in DOMAIN sites, jobs \in Todo :
          /\ HasFresh /\ sites' = With(sites, Fresh, sites[id]) /\ disk' \in {disk, sites'}
          /\ tasks' = tasks \cup {Task("duplicate", Fresh, "none", jobs)}
          /\ \A j \in Range(jobs) :
                \/ j = Job("select", Fresh, "pass", Null)
                \/ /\ disk' = sites'
                   /\ \E slot \in Slot : /\ Fits(slot, sites[id].logon)
                                         /\ j = Job("copy", Fresh, slot, id)
          /\ odd' = odd \cup Overlap
          /\ UNCHANGED <<chain, selection, shown, backup>>
    BY <1>10, Duplicated
  <2> PICK new : new = Task("duplicate", Fresh, "none", jobs)
    OBVIOUS
  <2>1. tasks = {} /\ Fresh \notin DOMAIN disk /\ Fresh \notin DOMAIN sites
    BY <1>4, FreshIsFree DEF Known
  <2>2. /\ DOMAIN sites' = DOMAIN sites \cup {Fresh} /\ sites'[Fresh] = sites[id]
        /\ \A i \in DOMAIN sites : i # Fresh => sites'[i] = sites[i]
    BY DEF With
  <2>3. \A t \in tasks' : \A j \in Range(t.jobs) : Suits(t, j)'
    <3>1. new.jobs = jobs
      BY DEF Task
    <3>2. \A j \in Range(jobs) : Suits(new, j)'
      BY <2>1, <2>2 DEF Suits, Job
    <3> QED BY <2>1, <3>1, <3>2
  <2> QED BY <1>2, <1>5, <2>1, <2>2, <2>3
<1>11. CASE DeleteSite
  <2> PICK gone \in SUBSET (ticked \cap DOMAIN sites), jobs \in Todo :
          /\ Range(jobs) = {Forget(id) : id \in gone}
                \cup {Job("save", Null, "pass", Null), Job("blank", Null, "pass", Null)}
          /\ tasks' = tasks \cup {Task("delete", Null, "none", jobs)}
          /\ sites' = Without(sites, gone) /\ odd' = odd \cup Overlap
          /\ UNCHANGED <<disk, chain>>
    BY <1>11, Deleted
  <2> PICK new : new = Task("delete", Null, "none", jobs)
    OBVIOUS
  <2>1. tasks = {} /\ new.jobs = jobs
    BY <1>4 DEF Task
  <2>2. DOMAIN sites' = DOMAIN sites \ gone /\ \A i \in DOMAIN sites' : sites'[i] = sites[i]
    BY DEF Without
  <2>3. \A j \in Range(jobs) : Suits(new, j)'
    BY DEF Suits, Forget, Job
  <2> QED BY <1>2, <1>5, <2>1, <2>2, <2>3
<1>12. CASE ImportSites
  <2> PICK b \in backup, id \in Id :
          /\ b.site.logon # "cloud"
          /\ \/ id \in DOMAIN sites /\ sites[id].data = b.site.data
             \/ HasFresh /\ id = Fresh
          /\ sites' = With(sites, id, b.site)
          /\ odd' = odd \cup Overlap \cup (IF id \in DOMAIN sites
                                           THEN Replaced(sites[id].logon, b.site.logon) ELSE {})
          /\ disk' \in {disk, sites'}
          /\ \/ tasks' = tasks
             \/ /\ disk' = sites' /\ b.secret # Null
                /\ tasks' = tasks \cup {Task("import", id, "none", <<SetIt(id, "pass", b.secret)>>)}
          /\ UNCHANGED chain
    BY <1>12, Imported
  <2> PICK j : j = SetIt(id, "pass", b.secret)
    OBVIOUS
  <2> PICK new : new = Task("import", id, "none", <<j>>)
    OBVIOUS
  <2>1. tasks = {} /\ (id \in DOMAIN sites => sites[id].logon = b.site.logon)
    BY <1>4 DEF Plain, Replaced
  <2>2. /\ DOMAIN sites' = DOMAIN sites \cup {id} /\ sites'[id] = b.site
        /\ \A i \in DOMAIN sites : i # id => sites'[i] = sites[i]
    BY DEF With
  <2>3. \A i \in DOMAIN sites : sites'[i].logon = sites[i].logon
    BY <2>1, <2>2
  <2>4. \A i \in DOMAIN disk : i \notin DOMAIN sites => i \notin DOMAIN sites'
    BY <2>2, FreshIsFree DEF Known
  <2>5. \A t \in tasks' : \A k \in Range(t.jobs) : Suits(t, k)'
    <3>1. new.jobs = <<j>> /\ Range(<<j>>) = {j}
      BY OneOrTwo DEF Task
    <3>2. disk' = sites' /\ b.secret # Null => Suits(new, j)'
      BY <2>2 DEF Backed, Suits, SetIt, Job, SlotOf
    <3> QED BY <2>1, <3>1, <3>2
  <2> QED BY <1>2, <1>5, <2>1, <2>2, <2>3, <2>4, <2>5
<1>13. ASSUME NEW g \in gets, SecretCame(g) PROVE Used'
  BY <1>3, <1>13 DEF SecretCame
<1>14. ASSUME NEW t \in tasks, Step(t), UNCHANGED <<sites, shown, backup, own, requests>> PROVE Used'
  BY <1>1, <1>14, UsedStep
<1>15. CASE UNCHANGED vars
  BY <1>3, <1>15 DEF vars
<1> QED BY <1>6, <1>7, <1>8, <1>9, <1>10, <1>11, <1>12, <1>13, <1>14, <1>15 DEF Next

(* A backup holds the password of a site that logs on with one, or of an object store. *)
LEMMA BackedNext == ASSUME Types, Backed, [Next]_vars PROVE Backed'
<1>1. CASE ExportSites
  BY <1>1, Exported DEF Backed
<1>2. CASE ~ExportSites
  <2>1. backup' = backup
    BY <1>2 DEF Next, Click, TypeInForm, OpenSites, Loaded, CloseSites, NewSite, SaveSite,
                DuplicateSite, DeleteSite, DeletesIn, ImportSites, Crash, SecretCame, vars
  <2> QED BY <2>1 DEF Backed
<1> QED BY <1>1, <1>2

-----------------------------------------------------------------------------
(* Whatever the user does, types, list, file, keychain and tasks fit together. *)
THEOREM Invariance == Spec => []IInv
<1>1. Init => IInv
  <2>1. Init => Backed
    BY DEF Init, Backed
  <2> QED BY <2>1, TypesInit, KnownInit, DataInit, SecretsInit, FiledInit, UsedInit DEF IInv
<1>2. IInv /\ [Next]_vars => IInv'
  BY TypesNext, KnownNext, DataNext, SecretsNext, FiledNext, UsedNext, BackedNext DEF IInv
<1> QED BY <1>1, <1>2, PTL DEF Spec

(* No site is ever saved with a blank form or another site's data, unless one was   *)
(* selected while the list was being read again or others were still being deleted. *)
THEOREM DataStaysOwn == Spec => []DataIsOwn
<1>1. IInv => DataIsOwn
  BY DEF IInv, Data, DataIsOwn
<1> QED BY <1>1, Invariance, PTL

(* The secrets in the keychain under a site are its own, although the answers of    *)
(* secret_get come late and a save reads the form after an await.                   *)
THEOREM SecretsStayOwn == Spec => []SecretsAreOwn
<1>1. IInv => SecretsAreOwn
  BY DEF IInv, Types, IsList, Secrets, SecretsAreOwn
<1> QED BY <1>1, Invariance, PTL

(* At rest every secret in the keychain is one that a site on file uses, although   *)
(* the application may be killed between a secret and the list and either may fail  *)
(* to be saved: after a save cut short or an import over a site, it may be one that *)
(* the site used before.                                                            *)
THEOREM NoSecretIsLeft == Spec => []NoOrphanSecrets
<1>1. IInv => NoOrphanSecrets
  <2> SUFFICES ASSUME IInv, tasks = {}, Alone, NEW id \in Id, NEW slot \in Slot,
                      chain[<<id, slot>>] # Null
               PROVE  id \in DOMAIN disk /\ Uses(disk[id].logon, slot)
    BY DEF NoOrphanSecrets, Alone
  <2>1. id \in DOMAIN disk /\ Fits(slot, disk[id].logon)
    BY AtRest DEF IInv, Filed, Alone
  <2>2. CASE Plain
    <3>1. slot = SlotOf(disk[id].logon)
      BY <2>2 DEF IInv, Used, Plain, WillErase
    <3> QED BY <2>1, <3>1 DEF Uses
  <2>3. CASE ~Plain
    <3>1. odd \cap {"cut", "replaced"} # {}
      BY <2>3 DEF Plain, Alone
    <3>2. slot = "cloud" /\ disk[id].logon = "cloud" => slot = SlotOf(disk[id].logon)
      BY DEF SlotOf
    <3> QED BY <2>1, <3>1, <3>2 DEF Uses, Fits
  <2> QED BY <2>2, <2>3
<1> QED BY <1>1, Invariance, PTL

=============================================================================
