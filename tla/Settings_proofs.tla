-------------------------- MODULE Settings_proofs --------------------------
(***************************************************************************)
(* For any number of networks, forms, requests and events: a reset lasts   *)
(* until the restart.  While it is written, the mutex keeps every other    *)
(* writer out and each key it has passed is clean; once it has succeeded,  *)
(* reset_pending turns back whoever takes the mutex, and the page, the one *)
(* saver that does not look at it, has answered and takes no other form.   *)
(*                                                                         *)
(* Unless a save was cut or crossed, the record, the form laid over it and *)
(* NVS agree as far as the save and the copy have come, and each of them   *)
(* keeps every secret with what it opens.                                  *)
(***************************************************************************)
EXTENDS Settings, SequenceTheorems, TLAPS

Savers == {"nobody", "portal", "voice", "reset"}

Handler(page) == page = [pc |-> page.pc, next |-> page.next, copied |-> page.copied]

\* Who saves, and how far a reset has come.
ResetInv ==
  /\ nvs = [f \in Kept |-> nvs[f]]
  /\ Handler(portal)
  /\ reset_pending \in BOOLEAN
  /\ mutex \in [who : Savers, at : Nat \ {0}]
  /\ mutex.who = "nobody" => mutex = Free
  /\ mutex.who = "portal" => portal.pc = "saving"
  /\ mutex.who = "reset" =>
       /\ portal.pc = "resetting"
       /\ \A n \in 1..Len(ResetOrder) :
            n < mutex.at => nvs[ResetOrder[n]] = Clean[ResetOrder[n]]
  /\ reset_pending => mutex = Free /\ portal.pc = "answered" /\ nvs = Clean

USE DEF vars

LEMMA FreeMutex == Free \in [who : Savers, at : Nat \ {0}] /\ Free.who = "nobody"
  BY DEF Free, Savers

LEMMA IdleHandler == Handler(Idle) /\ Idle.pc = "idle"
  BY DEF Handler, Idle

LEMMA TakenMutex ==
  ASSUME NEW who \in {"portal", "voice", "reset"}
  PROVE  LET m == [who |-> who, at |-> 1] IN
         m \in [who : Savers, at : Nat \ {0}] /\ m.who = who /\ m.at = 1 /\ m # Free
  BY DEF Free, Savers

LEMMA SlotsNat == Slots \in Nat /\ Slots > 0
<1>1. Slots \in Nat \ {0}
  BY SettingsAssumption
<1> QED
  BY <1>1

\* The sequence of keys that a reset writes has a length.
LEMMA ResetLength == Len(ResetOrder) \in Nat
<1> DEFINE Names == {Profiles[n] : n \in 1..(2 * Slots)}
                    \cup {Key, Psk, Gateway, Token, Request, Turn, Sleep, On, Bright}
<1>1. Profiles \in Seq(Names)
  <2>1. 2 * Slots \in Nat /\ Profiles \in [1..(2 * Slots) -> {Profiles[n] : n \in 1..(2 * Slots)}]
    BY SlotsNat DEF Profiles
  <2>2. Profiles \in [1..(2 * Slots) -> Names]
    BY <2>1
  <2> QED
    BY <2>1, <2>2, SeqDef
<1>2. /\ << Key, Psk >> \in Seq(Names) /\ << Bright >> \in Seq(Names)
      /\ << Gateway, Token, Request, Turn, Sleep, On >> \in Seq(Names)
  OBVIOUS
<1> HIDE DEF Names
<1>3. ResetOrder \in Seq(Names)
  BY <1>1, <1>2 DEF ResetOrder, WriteOrder
<1> QED
  BY <1>3

LEMMA InitReset == Init => ResetInv
  BY FreeMutex, IdleHandler, SettingsAssumption DEF Init, ResetInv

\* One key more: the ones before it stay clean, for a key is written clean or
\* not at all.
LEMMA WriteReset ==
  ASSUME ResetInv, Write
  PROVE  ResetInv'
<1>1. mutex.who \in {"portal", "voice", "reset"} /\ ~reset_pending /\ mutex.at \in Nat \ {0}
  BY DEF ResetInv, Write, Savers
<1>2. mutex' \in [who : Savers, at : Nat \ {0}] /\ mutex'.who = mutex.who /\ mutex'.at = mutex.at + 1
  BY DEF ResetInv, Write
<1>3. nvs' = [f \in Kept |-> nvs'[f]]
  BY DEF ResetInv, Write
<1>4. ASSUME mutex.who = "reset", NEW n \in 1..Len(ResetOrder), n < mutex.at + 1
      PROVE  nvs'[ResetOrder[n]] = Clean[ResetOrder[n]]
  <2>1. nvs' = [nvs EXCEPT ![ResetOrder[mutex.at]] = Clean[ResetOrder[mutex.at]]]
    BY <1>4 DEF Write, Order, Source
  <2>2. ResetOrder[n] \in Kept
    BY DEF Kept
  <2>3. n = mutex.at \/ n < mutex.at
    BY <1>1, <1>4, ResetLength
  <2>4. nvs = [f \in Kept |-> nvs[f]]
    BY DEF ResetInv
  <2>5. n < mutex.at => nvs[ResetOrder[n]] = Clean[ResetOrder[n]]
    BY <1>4 DEF ResetInv
  <2> QED
    BY <2>1, <2>2, <2>3, <2>4, <2>5
<1>5. UNCHANGED <<portal, reset_pending>>
  BY DEF Write
<1> QED
  BY <1>1, <1>2, <1>3, <1>4, <1>5 DEF ResetInv

\* A reset that has written its last key has written them all.
LEMMA SavedReset ==
  ASSUME ResetInv, Saved
  PROVE  ResetInv'
<1>1. mutex' = Free /\ nvs' = nvs
  BY DEF Saved
<1>2. Handler(portal')
  BY DEF Saved, ResetInv, Handler
<1>3. CASE mutex.who = "reset"
  <2>1. portal'.pc = "answered"
    BY <1>3 DEF Saved, ResetInv, Handler
  <2>2. mutex.at > Len(ResetOrder) /\ mutex.at \in Nat
    BY <1>3 DEF Saved, Order, ResetInv
  <2>3. \A n \in 1..Len(ResetOrder) : nvs[ResetOrder[n]] = Clean[ResetOrder[n]]
    BY <1>3, <2>2, ResetLength DEF ResetInv
  <2>4. \A f \in Kept : nvs[f] = Clean[f]
    BY <2>3 DEF Kept
  <2>5. nvs = Clean
    BY <2>4 DEF ResetInv, Clean
  <2>6. reset_pending' \in BOOLEAN
    BY <1>3 DEF Saved, ResetInv
  <2>7. nvs' = [f \in Kept |-> nvs'[f]] /\ nvs' = Clean
    BY <1>1, <2>5 DEF ResetInv, Clean
  <2> QED
    BY <1>1, <1>2, <2>1, <2>6, <2>7, FreeMutex DEF ResetInv
<1>4. CASE mutex.who # "reset"
  <2>1. reset_pending' = reset_pending /\ ~reset_pending
    BY <1>4 DEF Saved, ResetInv
  <2> QED
    BY <1>1, <1>2, <2>1, FreeMutex DEF ResetInv
<1> QED
  BY <1>3, <1>4

LEMMA StepReset ==
  ASSUME ResetInv, [Next]_vars
  PROVE  ResetInv'
<1>1. ASSUME NEW form \in Forms, Post(form) PROVE ResetInv'
  BY <1>1 DEF Post, ResetInv, Handler
<1>2. CASE Reset
  BY <1>2, TakenMutex DEF Reset, ResetInv, Handler
<1>3. CASE PostSaves
  BY <1>3, TakenMutex DEF PostSaves, ResetInv, Handler
<1>4. CASE VoiceSaves
  BY <1>4, TakenMutex DEF VoiceSaves, ResetInv
<1>5. CASE WriteFails
  <2>1. Handler(portal') /\ ~reset_pending
    BY <1>5, IdleHandler DEF WriteFails, ResetInv
  <2>2. mutex' = Free /\ UNCHANGED <<nvs, reset_pending>>
    BY <1>5 DEF WriteFails
  <2> QED
    BY <2>1, <2>2, FreeMutex DEF ResetInv
<1>6. CASE Copy
  BY <1>6 DEF Copy, ResetInv, Handler
<1>7. CASE Answer
  BY <1>7 DEF Answer, ResetInv, Handler
<1>8. ASSUME NEW request, NEW turn, NEW task, Assigns(request, turn, task) PROVE ResetInv'
  BY <1>8 DEF Assigns, ResetInv
<1>9. CASE (\E r \in Requests : BeginTurnRequest(r)) \/ SaveTurnId \/ ClearIds
  BY <1>8, <1>9 DEF BeginTurnRequest, SaveTurnId, ClearIds
<1>10. CASE TurnFails
  BY <1>10 DEF TurnFails, ResetInv
<1>11. ASSUME NEW new \in 0..1, Dim(new) PROVE ResetInv'
  BY <1>11, FreeMutex DEF Dim, ResetInv
<1>12. CASE Restart \/ PowerCut
  BY <1>12, FreeMutex, IdleHandler DEF Restart, PowerCut, Boots, ResetInv
<1>13. CASE UNCHANGED vars
  BY <1>13 DEF ResetInv
<1> QED
  BY <1>1, <1>2, <1>3, <1>4, <1>5, <1>6, <1>7, <1>9, <1>10, <1>11, <1>12, <1>13,
     WriteReset, SavedReset DEF Next

\* Once a reset has succeeded NVS stays clean until the device restarts
\* (voice_settings.c:259).
THEOREM ResetLasts == Spec => []ResetSticks
<1>1. ResetInv => ResetSticks
  BY DEF ResetInv, ResetSticks
<1> QED
  BY InitReset, StepReset, <1>1, PTL DEF Spec

-----------------------------------------------------------------------------
(* The record and its copy.                                                *)

Texts == Fields \ {Sleep, On}

\* A record that a load brings back as it was saved.
Regular(s) ==
  /\ s = [f \in Fields |-> s[f]]
  /\ s[Sleep] \in SleepMin..SleepMax
  /\ s[Gateway] \notin DOMAIN Legacy
  /\ \A f \in Texts : s[f] # Unwritten

\* The places in which the page has a form laid over the record.
Laid == portal.pc \in {"post", "saving", "copying"}

\* Who holds the mutex is saving.
CallerInv ==
  /\ voice = [pc |-> voice.pc, task |-> voice.task]
  /\ voice.pc \in {"idle", "save", "saving"}
  /\ portal.pc \in {"idle", "post", "saving", "resetting", "copying", "answered"}
  /\ portal.copied \in Nat
  /\ portal.pc \in {"idle", "post", "saving", "resetting"} => portal.copied = 0
  /\ portal.pc = "saving" <=> mutex.who = "portal"
  /\ portal.pc = "resetting" <=> mutex.who = "reset"
  /\ voice.pc = "saving" <=> mutex.who = "voice"

RecordInv ==
  /\ Regular(ram) /\ voice.task # Unwritten
  /\ Laid => Regular(portal.next)

\* The open turn is the record's, and the form's.
IdInv == ~disturbed =>
  /\ voice.task \in {"", ram[Request]}
  /\ Laid => \A f \in Ids : portal.next[f] = ram[f]

\* Nothing is being written, and the last save came to its end.
Still == ~torn /\ mutex = Free

PairInv == ~disturbed =>
  /\ portal.pc # "copying" => Paired(ram)
  /\ Laid => Paired(portal.next)
  /\ Still => Paired(Loaded)

\* How far a save has come, and the copy of a form into the record.
SaveInv == ~disturbed =>
  /\ mutex.who = "portal" =>
       \A n \in 1..Len(WriteOrder) : n < mutex.at => nvs[WriteOrder[n]] = portal.next[WriteOrder[n]]
  /\ mutex.who = "voice" =>
       /\ portal.pc = "copying" => mutex.at = 1
       /\ \A n \in 1..Len(WriteOrder) : n < mutex.at => nvs[WriteOrder[n]] = ram[WriteOrder[n]]
  /\ portal.pc = "copying" =>
       \A n \in 1..Len(CopyOrder) : n <= portal.copied => ram[CopyOrder[n]] = portal.next[CopyOrder[n]]

\* Where the settings last saved for the page are: in NVS unless it is being
\* written, and in the record unless a form is being copied into it.
KeepInv == ~disturbed =>
  /\ Still => Config(Loaded) = promised
  /\ Still /\ portal.pc = "copying" => Loaded = portal.next
  /\ Still /\ portal.pc # "copying" /\ ~reset_pending /\ voice.pc = "idle" => Loaded = ram
  /\ portal.pc = "copying" => Config(portal.next) = promised
  /\ portal.pc # "copying" /\ ~reset_pending => Config(ram) = promised

IInv == ResetInv /\ CallerInv /\ RecordInv /\ IdInv /\ PairInv /\ SaveInv /\ KeepInv

\* What StepReset leaves to show.
Parts == CallerInv /\ RecordInv /\ IdInv /\ PairInv /\ SaveInv /\ KeepInv

-----------------------------------------------------------------------------
(* The keys, and the orders in which they are written and copied.          *)

LEMMA ProfileNames ==
  /\ 2 * Slots \in Nat
  /\ DOMAIN Profiles = 1..(2 * Slots)
  /\ \A i \in 1..Slots : /\ 2 * i - 1 \in 1..(2 * Slots) /\ Profiles[2 * i - 1] = Ssid(i)
                         /\ 2 * i \in 1..(2 * Slots) /\ Profiles[2 * i] = Pass(i)
  /\ \A n \in 1..(2 * Slots) : \E i \in 1..Slots : Profiles[n] \in {Ssid(i), Pass(i)}
<1>1. 2 * Slots \in Nat /\ DOMAIN Profiles = 1..(2 * Slots)
  BY SlotsNat DEF Profiles
<1>2. ASSUME NEW i \in 1..Slots
      PROVE  /\ 2 * i - 1 \in 1..(2 * Slots) /\ Profiles[2 * i - 1] = Ssid(i)
             /\ 2 * i \in 1..(2 * Slots) /\ Profiles[2 * i] = Pass(i)
  <2>1. 2 * i - 1 \in 1..(2 * Slots) /\ 2 * i \in 1..(2 * Slots)
    BY SlotsNat
  <2>2. (2 * i - 1) % 2 = 1 /\ (2 * i) % 2 # 1 /\ ((2 * i - 1) + 1) \div 2 = i /\ (2 * i) \div 2 = i
    BY SlotsNat
  <2> QED
    BY <2>1, <2>2 DEF Profiles
<1>3. ASSUME NEW n \in 1..(2 * Slots)
      PROVE  \E i \in 1..Slots : Profiles[n] \in {Ssid(i), Pass(i)}
  <2>1. CASE n % 2 = 1
    <3>1. (n + 1) \div 2 \in 1..Slots
      BY <2>1, SlotsNat
    <3>2. Profiles[n] = Ssid((n + 1) \div 2)
      BY <2>1 DEF Profiles
    <3> QED
      BY <3>1, <3>2
  <2>2. CASE n % 2 # 1
    <3>1. n \div 2 \in 1..Slots
      BY <2>2, SlotsNat
    <3>2. Profiles[n] = Pass(n \div 2)
      BY <2>2 DEF Profiles
    <3> QED
      BY <3>1, <3>2
  <2> QED
    BY <2>1, <2>2
<1> QED
  BY <1>1, <1>2, <1>3

\* Two fields are different if the first of their names is.
LEMMA FieldNames ==
  /\ \A i : Ssid(i)[1] = "ssid" /\ Pass(i)[1] = "password" /\ Ssid(i)[2] = i /\ Pass(i)[2] = i
  /\ Key[1] = "wg_key" /\ Psk[1] = "wg_psk" /\ On[1] = "wg_enabled" /\ Gateway[1] = "gateway_url"
  /\ Token[1] = "device_token" /\ Request[1] = "request_id" /\ Turn[1] = "turn_id"
  /\ Sleep[1] = "sleep_seconds" /\ Bright[1] = "lcd_brightness"
  BY DEF Ssid, Pass, Key, Psk, On, Gateway, Token, Request, Turn, Sleep, Bright

Has(s, x) == \E n \in 1..Len(s) : s[n] = x

LEMMA HasConcat ==
  ASSUME NEW S, NEW a \in Seq(S), NEW b \in Seq(S)
  PROVE  a \o b \in Seq(S) /\ \A x : Has(a \o b, x) <=> Has(a, x) \/ Has(b, x)
<1>1. /\ a \o b \in Seq(S) /\ Len(a) \in Nat /\ Len(b) \in Nat /\ Len(a \o b) = Len(a) + Len(b)
      /\ \A n \in 1..(Len(a) + Len(b)) : (a \o b)[n] = IF n <= Len(a) THEN a[n] ELSE b[n - Len(a)]
  BY ConcatProperties
<1>2. ASSUME NEW x, Has(a, x) PROVE Has(a \o b, x)
  <2>1. PICK n \in 1..Len(a) : a[n] = x
    BY <1>2 DEF Has
  <2>2. n \in 1..Len(a \o b) /\ (a \o b)[n] = x
    BY <1>1, <2>1
  <2> QED
    BY <2>2 DEF Has
<1>3. ASSUME NEW x, Has(b, x) PROVE Has(a \o b, x)
  <2>1. PICK n \in 1..Len(b) : b[n] = x
    BY <1>3 DEF Has
  <2>2. Len(a) + n \in 1..Len(a \o b) /\ (a \o b)[Len(a) + n] = x
    BY <1>1, <2>1
  <2> QED
    BY <2>2 DEF Has
<1>4. ASSUME NEW x, Has(a \o b, x) PROVE Has(a, x) \/ Has(b, x)
  <2>1. PICK n \in 1..Len(a \o b) : (a \o b)[n] = x
    BY <1>4 DEF Has
  <2>2. n \in 1..(Len(a) + Len(b))
    BY <1>1
  <2>3. CASE n <= Len(a)
    BY <1>1, <2>1, <2>2, <2>3 DEF Has
  <2>4. CASE ~(n <= Len(a))
    <3>1. n - Len(a) \in 1..Len(b) /\ b[n - Len(a)] = x
      BY <1>1, <2>1, <2>2, <2>4
    <3> QED
      BY <3>1 DEF Has
  <2> QED
    BY <2>3, <2>4
<1> QED
  BY <1>1, <1>2, <1>3, <1>4

Names == {Profiles[n] : n \in 1..(2 * Slots)}
           \cup {Key, Psk, Gateway, Token, Request, Turn, Sleep, On, Bright}

LEMMA ShortOrders ==
  /\ Profiles \in Seq(Names) /\ \A x : Has(Profiles, x) <=> \E i \in 1..Slots : x \in {Ssid(i), Pass(i)}
  /\ << Key, Psk >> \in Seq(Names) /\ \A x : Has(<< Key, Psk >>, x) <=> x \in {Key, Psk}
  /\ << On, Key, Psk >> \in Seq(Names) /\ \A x : Has(<< On, Key, Psk >>, x) <=> x \in {On, Key, Psk}
  /\ << Gateway, Token, Request, Turn, Sleep, On >> \in Seq(Names)
  /\ \A x : Has(<< Gateway, Token, Request, Turn, Sleep, On >>, x)
              <=> x \in {Gateway, Token, Request, Turn, Sleep, On}
  /\ << Gateway, Token, Sleep, Request, Turn >> \in Seq(Names)
  /\ \A x : Has(<< Gateway, Token, Sleep, Request, Turn >>, x)
              <=> x \in {Gateway, Token, Sleep, Request, Turn}
  /\ << Bright >> \in Seq(Names) /\ \A x : Has(<< Bright >>, x) <=> x = Bright
<1>1. Profiles \in Seq(Names) /\ Len(Profiles) = 2 * Slots
  <2>1. Profiles \in [1..(2 * Slots) -> Names]
    BY DEF Profiles, Names
  <2>2. 2 * Slots \in Nat
    BY ProfileNames
  <2>3. Profiles \in Seq(Names)
    BY <2>1, <2>2, SeqDef
  <2>4. Len(Profiles) \in Nat /\ DOMAIN Profiles = 1..Len(Profiles)
    BY <2>3, LenProperties
  <2>5. 1..Len(Profiles) = 1..(2 * Slots)
    BY <2>4, ProfileNames
  <2>6. \A n \in Nat : n \in 1..Len(Profiles) <=> n \in 1..(2 * Slots)
    BY <2>5
  <2>7. Len(Profiles) <= 2 * Slots /\ 2 * Slots <= Len(Profiles)
    BY <2>2, <2>4, <2>6
  <2> QED
    BY <2>2, <2>3, <2>4, <2>7
<1>2. ASSUME NEW x PROVE Has(Profiles, x) <=> \E i \in 1..Slots : x \in {Ssid(i), Pass(i)}
  BY <1>1, ProfileNames DEF Has
<1>3. /\ {Key, Psk, Gateway, Token, Request, Turn, Sleep, On, Bright} \subseteq Names
  BY DEF Names
<1> HIDE DEF Names
<1>4. /\ << Key, Psk >> \in Seq(Names) /\ << On, Key, Psk >> \in Seq(Names) /\ << Bright >> \in Seq(Names)
      /\ << Gateway, Token, Request, Turn, Sleep, On >> \in Seq(Names)
      /\ << Gateway, Token, Sleep, Request, Turn >> \in Seq(Names)
  BY <1>3
<1>5. \A x : Has(<< Key, Psk >>, x) <=> x \in {Key, Psk}
  BY DEF Has
<1>6. \A x : Has(<< On, Key, Psk >>, x) <=> x \in {On, Key, Psk}
  BY DEF Has
<1>7. \A x : Has(<< Gateway, Token, Request, Turn, Sleep, On >>, x)
              <=> x \in {Gateway, Token, Request, Turn, Sleep, On}
  BY DEF Has
<1>8. \A x : Has(<< Gateway, Token, Sleep, Request, Turn >>, x)
              <=> x \in {Gateway, Token, Sleep, Request, Turn}
  BY DEF Has
<1>9. \A x : Has(<< Bright >>, x) <=> x = Bright
  BY DEF Has
<1> QED
  BY <1>1, <1>2, <1>4, <1>5, <1>6, <1>7, <1>8, <1>9

LEMMA WriteKeys ==
  /\ WriteOrder \in Seq(Names)
  /\ \A x : Has(WriteOrder, x) <=>
       \/ \E i \in 1..Slots : x \in {Ssid(i), Pass(i)}
       \/ x \in {Key, Psk, Gateway, Token, Request, Turn, Sleep, On}
<1> DEFINE a == << Key, Psk >>
           c == << Gateway, Token, Request, Turn, Sleep, On >>
<1>1. a \in Seq(Names) /\ Profiles \in Seq(Names) /\ c \in Seq(Names)
  BY ShortOrders
<1>2. \A x : Has(a, x) <=> x \in {Key, Psk}
  BY ShortOrders
<1>3. \A x : Has(c, x) <=> x \in {Gateway, Token, Request, Turn, Sleep, On}
  BY ShortOrders
<1>4. WriteOrder = (a \o Profiles) \o c
  BY DEF WriteOrder
<1> HIDE DEF a, c
<1>5. a \o Profiles \in Seq(Names) /\ \A x : Has(a \o Profiles, x) <=> Has(a, x) \/ Has(Profiles, x)
  BY <1>1, HasConcat
<1>6. WriteOrder \in Seq(Names) /\ \A x : Has(WriteOrder, x) <=> Has(a \o Profiles, x) \/ Has(c, x)
  BY <1>1, <1>4, <1>5, HasConcat
<1>7. \A x : Has(Profiles, x) <=> \E i \in 1..Slots : x \in {Ssid(i), Pass(i)}
  BY ShortOrders
<1> QED
  BY <1>2, <1>3, <1>5, <1>6, <1>7

\* Every field is written by a save and copied from a form.
LEMMA Orders ==
  /\ Len(WriteOrder) \in Nat /\ Len(CopyOrder) \in Nat
  /\ \A f \in Fields : Has(WriteOrder, f) /\ Has(CopyOrder, f)
  /\ \A n \in 1..Len(WriteOrder) : WriteOrder[n] \in Kept
  /\ \A n \in 1..Len(CopyOrder) : CopyOrder[n] \in Fields
  /\ \A i \in 1..Slots : Ssid(i) \in Fields /\ Pass(i) \in Fields
  /\ {Key, Psk, On, Gateway, Token, Request, Turn, Sleep} \subseteq Fields
<1>1. /\ WriteOrder \in Seq(Names)
      /\ \A x : Has(WriteOrder, x) <=>
           \/ \E i \in 1..Slots : x \in {Ssid(i), Pass(i)}
           \/ x \in {Key, Psk, Gateway, Token, Request, Turn, Sleep, On}
  BY WriteKeys
<1>2. /\ CopyOrder \in Seq(Names)
      /\ \A x : Has(CopyOrder, x) <=>
           \/ \E i \in 1..Slots : x \in {Ssid(i), Pass(i)}
           \/ x \in {Key, Psk, Gateway, Token, Request, Turn, Sleep, On}
  <2> DEFINE a == << On, Key, Psk >>
             c == << Gateway, Token, Sleep, Request, Turn >>
  <2>1. a \in Seq(Names) /\ Profiles \in Seq(Names) /\ c \in Seq(Names)
    BY ShortOrders
  <2>2. \A x : Has(a, x) <=> x \in {On, Key, Psk}
    BY ShortOrders
  <2>3. \A x : Has(c, x) <=> x \in {Gateway, Token, Sleep, Request, Turn}
    BY ShortOrders
  <2>4. CopyOrder = (a \o Profiles) \o c
    BY DEF CopyOrder
  <2> HIDE DEF a, c
  <2>5. a \o Profiles \in Seq(Names) /\ \A x : Has(a \o Profiles, x) <=> Has(a, x) \/ Has(Profiles, x)
    BY <2>1, HasConcat
  <2>6. CopyOrder \in Seq(Names) /\ \A x : Has(CopyOrder, x) <=> Has(a \o Profiles, x) \/ Has(c, x)
    BY <2>1, <2>4, <2>5, HasConcat
  <2>7. \A x : Has(Profiles, x) <=> \E i \in 1..Slots : x \in {Ssid(i), Pass(i)}
    BY ShortOrders
  <2> QED
    BY <2>2, <2>3, <2>5, <2>6, <2>7
<1>3. \A x : Has(ResetOrder, x) <=> Has(WriteOrder, x) \/ x = Bright
  BY <1>1, ShortOrders, HasConcat DEF ResetOrder
<1>4. \A x : x \in Kept <=> Has(ResetOrder, x)
  BY DEF Kept, Has
<1>5. ~Has(WriteOrder, Bright)
  BY <1>1, FieldNames
<1>6. \A x : x \in Fields <=> Has(WriteOrder, x)
  BY <1>3, <1>4, <1>5 DEF Fields
<1>7. /\ \A n \in 1..Len(WriteOrder) : Has(WriteOrder, WriteOrder[n])
      /\ \A n \in 1..Len(CopyOrder) : Has(CopyOrder, CopyOrder[n])
  BY DEF Has
<1> QED
  BY <1>1, <1>2, <1>3, <1>4, <1>6, <1>7

-----------------------------------------------------------------------------
(* Loads and forms.                                                        *)

LEMMA KeptFields == Fields \subseteq Kept /\ Bright \notin Fields /\ Kept = Fields \cup {Bright}
<1>1. Has(ResetOrder, Bright)
  <2>1. WriteOrder \in Seq(Names) /\ << Bright >> \in Seq(Names)
    BY WriteKeys, ShortOrders
  <2>2. Has(<< Bright >>, Bright)
    BY ShortOrders
  <2> QED
    BY <2>1, <2>2, HasConcat DEF ResetOrder
<1>2. Bright \in Kept
  BY <1>1 DEF Has, Kept
<1> QED
  BY <1>2 DEF Fields

\* A field at a time: what is not a text, an address or the number.
LEMMA LoadedFields ==
  ASSUME NEW keys
  PROVE  /\ Load(keys) = [f \in Fields |-> Load(keys)[f]]
         /\ \A f \in Texts \ {Gateway} :
              Load(keys)[f] = IF keys[f] = Unwritten THEN "" ELSE keys[f]
         /\ Load(keys)[Gateway] =
              Migrated(IF keys[Gateway] = Unwritten THEN Factory ELSE keys[Gateway])
         /\ keys[Sleep] \in SleepMin..SleepMax => Load(keys)[Sleep] = keys[Sleep]
         /\ Load(keys)[Sleep] \in SleepMin..SleepMax
         /\ Load(keys)[On] = IF keys[On] = FALSE THEN FALSE ELSE keys[On]
<1> DEFINE read == [f \in Fields |-> IF keys[f] = Unset[f] THEN Defaults[f] ELSE keys[f]]
<1>1. {Gateway, Sleep, On} \subseteq Fields /\ Gateway # Sleep /\ Gateway # On /\ On # Sleep
  BY Orders, FieldNames
<1>2. Load(keys) = [read EXCEPT ![Gateway] = Migrated(@),
                               ![Sleep] = IF @ \in SleepMin..SleepMax THEN @ ELSE SleepDefault]
  BY DEF Load
<1>3. read = [f \in Fields |-> read[f]]
  OBVIOUS
<1>4. \A f \in Fields : read[f] = IF keys[f] = Unset[f] THEN Defaults[f] ELSE keys[f]
  OBVIOUS
<1>5. \A f \in Texts : Unset[f] = Unwritten
  BY KeptFields, FieldNames DEF Unset, Texts
<1>6. Unset[Sleep] = 0 /\ Unset[On] = FALSE
  BY <1>1, KeptFields DEF Unset
<1>7. /\ \A f \in Texts \ {Gateway} : Defaults[f] = ""
      /\ Defaults[Gateway] = Factory /\ Defaults[Sleep] = SleepDefault /\ Defaults[On] = FALSE
  BY <1>1 DEF Defaults, Empty, Texts
<1> HIDE DEF read
<1>8. /\ Load(keys) = [f \in Fields |-> Load(keys)[f]]
      /\ Load(keys)[Gateway] = Migrated(read[Gateway])
      /\ Load(keys)[Sleep] = IF read[Sleep] \in SleepMin..SleepMax THEN read[Sleep] ELSE SleepDefault
      /\ \A f \in Fields \ {Gateway, Sleep} : Load(keys)[f] = read[f]
  BY <1>1, <1>2, <1>3
<1>9. ASSUME NEW f \in Texts \ {Gateway}
      PROVE  Load(keys)[f] = IF keys[f] = Unwritten THEN "" ELSE keys[f]
  BY <1>4, <1>5, <1>7, <1>8 DEF Texts
<1>10. Load(keys)[Gateway] = Migrated(IF keys[Gateway] = Unwritten THEN Factory ELSE keys[Gateway])
  BY <1>1, <1>4, <1>5, <1>7, <1>8 DEF Texts
<1>11. keys[Sleep] \in SleepMin..SleepMax => Load(keys)[Sleep] = keys[Sleep]
  <2>1. 0 \notin SleepMin..SleepMax
    BY DEF SleepMin, SleepMax
  <2>2. keys[Sleep] # 0 => read[Sleep] = keys[Sleep]
    BY <1>1, <1>4, <1>6
  <2> QED
    BY <1>8, <2>1, <2>2
<1>12. Load(keys)[Sleep] \in SleepMin..SleepMax
  <2>1. SleepDefault \in SleepMin..SleepMax
    BY DEF SleepMin, SleepMax, SleepDefault
  <2> QED
    BY <1>8, <2>1
<1>13. Load(keys)[On] = IF keys[On] = FALSE THEN FALSE ELSE keys[On]
  BY <1>1, <1>4, <1>6, <1>7, <1>8
<1> QED
  BY <1>8, <1>9, <1>10, <1>11, <1>12, <1>13

\* A load of what a save has written brings the record back.
LEMMA LoadsSaved ==
  ASSUME NEW s, Regular(s), NEW keys, \A f \in Fields : keys[f] = s[f]
  PROVE  Load(keys) = s
<1>1. {Gateway, Sleep, On} \subseteq Fields /\ Gateway \in Texts
  BY Orders, FieldNames DEF Texts
<1>2. \A f \in Texts \ {Gateway} : Load(keys)[f] = s[f]
  BY LoadedFields DEF Regular, Texts
<1>3. Load(keys)[Gateway] = s[Gateway]
  BY <1>1, LoadedFields DEF Regular, Migrated
<1>4. Load(keys)[Sleep] = s[Sleep] /\ Load(keys)[On] = s[On]
  BY <1>1, LoadedFields DEF Regular
<1>5. \A f \in Fields : Load(keys)[f] = s[f]
  BY <1>2, <1>3, <1>4 DEF Texts
<1>6. Load(keys) = [f \in Fields |-> Load(keys)[f]] /\ s = [f \in Fields |-> s[f]]
  BY LoadedFields DEF Regular
<1> QED
  BY <1>5, <1>6

\* Whatever NVS holds, a load gives a record that a save keeps.
LEMMA LoadRegular == ASSUME NEW keys PROVE Regular(Load(keys))
<1>1. Unwritten # "" /\ Factory # Unwritten
  BY SettingsAssumption DEF Unwritten
<1>2. \A url : url # Unwritten => Migrated(url) \notin DOMAIN Legacy /\ Migrated(url) # Unwritten
  BY SettingsAssumption DEF Migrated
<1>3. Load(keys)[Gateway] \notin DOMAIN Legacy /\ Load(keys)[Gateway] # Unwritten
  <2> DEFINE url == IF keys[Gateway] = Unwritten THEN Factory ELSE keys[Gateway]
  <2>1. Load(keys)[Gateway] = Migrated(url)
    BY LoadedFields
  <2>2. url # Unwritten
    BY <1>1
  <2> HIDE DEF url
  <2> QED
    BY <1>2, <2>1, <2>2
<1>4. ASSUME NEW f \in Texts PROVE Load(keys)[f] # Unwritten
  <2>1. f # Gateway => Load(keys)[f] = IF keys[f] = Unwritten THEN "" ELSE keys[f]
    BY LoadedFields
  <2> QED
    BY <1>1, <1>3, <2>1
<1> QED
  BY <1>3, <1>4, LoadedFields DEF Regular

LEMMA EmptyRecord ==
  /\ Regular(Empty) /\ Paired(Empty)
  /\ \A f \in Fields : Clean[f] = Empty[f]
  /\ Config(Clean) = Config(Empty)
<1>1. \A f \in Fields : Clean[f] = Empty[f]
  BY KeptFields DEF Clean
<1>2. /\ Empty = [f \in Fields |-> Empty[f]] /\ Empty[Sleep] = SleepDefault
      /\ \A f \in Texts : Empty[f] = ""
  <2>1. Empty = [f \in Fields |-> Empty[f]]
    BY DEF Empty
  <2>2. Empty[Sleep] = SleepDefault
    <3>1. Sleep \in Fields
      BY Orders
    <3> QED
      BY <3>1, FieldNames DEF Empty
  <2>3. ASSUME NEW f \in Texts PROVE Empty[f] = ""
    BY DEF Empty, Texts
  <2> QED
    BY <2>1, <2>2, <2>3
<1>3. /\ Gateway \in Texts /\ Token \in Texts /\ Turn \in Texts
      /\ \A i \in 1..Slots : Pass(i) \in Texts
  BY Orders, FieldNames DEF Texts
<1>4. Regular(Empty)
  <2>1. "" # Unwritten /\ "" \notin DOMAIN Legacy
    BY SettingsAssumption DEF Unwritten
  <2>2. SleepDefault \in SleepMin..SleepMax
    BY DEF SleepDefault, SleepMin, SleepMax
  <2> QED
    BY <1>2, <1>3, <2>1, <2>2 DEF Regular
<1>5. Paired(Empty)
  BY <1>2, <1>3 DEF Paired
<1>6. Config(Clean) = Config(Empty)
  BY <1>1 DEF Config
<1> QED
  BY <1>1, <1>4, <1>5, <1>6

\* The page has no field for the request and the turn.
LEMMA FilledIds ==
  ASSUME NEW s, NEW form, NEW f \in Ids
  PROVE  Filled(s, form)[f] = s[f]
<1>1. CASE f = Request
  BY <1>1, Orders, FieldNames DEF Filled
<1>2. CASE f = Turn
  BY <1>2, Orders, FieldNames DEF Filled
<1> QED
  BY <1>1, <1>2 DEF Ids

\* What a form makes of a record.
LEMMA FilledFields ==
  ASSUME NEW s, NEW form
  PROVE  /\ Filled(s, form) = [f \in Fields |-> Filled(s, form)[f]]
         /\ \A i \in 1..Slots : /\ Filled(s, form)[Ssid(i)] = form.ssid[i]
                                /\ Filled(s, form)[Pass(i)] = Password(s, form, i)
         /\ Filled(s, form)[Key] = Typed(form.key, s[Key])
         /\ Filled(s, form)[Psk] = IF form.clear_psk THEN "" ELSE Typed(form.psk, s[Psk])
         /\ Filled(s, form)[Gateway] = Typed(form.gateway, s[Gateway])
         /\ Filled(s, form)[Token] = Typed(form.token, s[Token])
         /\ Filled(s, form)[Sleep] = form.sleep
         /\ \A f \in Ids : Filled(s, form)[f] = s[f]
<1>1. Filled(s, form) = [f \in Fields |-> Filled(s, form)[f]]
  BY DEF Filled
<1>2. ASSUME NEW i \in 1..Slots
      PROVE  /\ Filled(s, form)[Ssid(i)] = form.ssid[i]
             /\ Filled(s, form)[Pass(i)] = Password(s, form, i)
  <2>1. Ssid(i) \in Fields /\ Pass(i) \in Fields
    BY <1>2, Orders, FieldNames
  <2>2. Filled(s, form)[Ssid(i)] = form.ssid[i]
    BY <2>1, <1>2, FieldNames DEF Filled, Ssid
  <2>3. Filled(s, form)[Pass(i)] = Password(s, form, i)
    BY <2>1, <1>2, FieldNames DEF Filled, Pass
  <2> QED
    BY <2>2, <2>3
<1>3. Filled(s, form)[Key] = Typed(form.key, s[Key])
  BY Orders, FieldNames DEF Filled
<1>4. Filled(s, form)[Psk] = IF form.clear_psk THEN "" ELSE Typed(form.psk, s[Psk])
  BY Orders, FieldNames DEF Filled
<1>5. Filled(s, form)[Gateway] = Typed(form.gateway, s[Gateway])
  BY Orders, FieldNames DEF Filled
<1>6. Filled(s, form)[Token] = Typed(form.token, s[Token])
  BY Orders, FieldNames DEF Filled
<1>7. Filled(s, form)[Sleep] = form.sleep
  BY Orders, FieldNames DEF Filled
<1>8. ASSUME NEW f \in Ids PROVE Filled(s, form)[f] = s[f]
  BY <1>8, FilledIds
<1> QED
  BY <1>1, <1>2, <1>3, <1>4, <1>5, <1>6, <1>7, <1>8

\* The form keeps each secret with what it opens: who changes one types the
\* other.
LEMMA FilledPaired ==
  ASSUME NEW s, NEW form, Paired(s), Honest(s, form), Accepts(s, form)
  PROVE  Paired(Filled(s, form))
<1> DEFINE new == Filled(s, form)
<1>1. ASSUME NEW i \in 1..Slots PROVE new[Pass(i)] \in {"", new[Ssid(i)]}
  <2>1. new[Ssid(i)] = form.ssid[i] /\ new[Pass(i)] = Password(s, form, i)
    BY FilledFields
  <2>2. new[Pass(i)] # "short" /\ ~NeedsPassword(s, form, i)
    BY DEF Accepts, Valid, ProfilesValid
  <2>3. form.password[i] \in {"", "short", form.ssid[i]}
    BY DEF Honest
  <2>4. s[Pass(i)] \in {"", s[Ssid(i)]}
    BY DEF Paired
  <2> HIDE DEF new
  <2> QED
    BY <2>1, <2>2, <2>3, <2>4 DEF Password, NeedsPassword, Typed
<1>2. new[Token] \in {"", new[Gateway]}
  <2>1. new[Gateway] = Typed(form.gateway, s[Gateway]) /\ new[Token] = Typed(form.token, s[Token])
    BY FilledFields
  <2>2. form.gateway \notin {"", s[Gateway]} => form.token # ""
    BY DEF Accepts
  <2>3. form.token \in {"", Typed(form.gateway, s[Gateway])}
    BY DEF Honest
  <2>4. s[Token] \in {"", s[Gateway]}
    BY DEF Paired
  <2> HIDE DEF new
  <2> QED
    BY <2>1, <2>2, <2>3, <2>4 DEF Typed
<1>3. new[Turn] \in {"", new[Request]}
  <2>1. Request \in Ids /\ Turn \in Ids
    BY DEF Ids
  <2>2. new[Turn] = s[Turn] /\ new[Request] = s[Request]
    BY <2>1, FilledIds
  <2> HIDE DEF new
  <2> QED
    BY <2>2 DEF Paired
<1> QED
  BY <1>1, <1>2, <1>3 DEF Paired

LEMMA FilledRegular ==
  ASSUME NEW s, NEW form \in Forms, Regular(s), Honest(s, form), Accepts(s, form)
  PROVE  Regular(Filled(s, form))
<1> DEFINE new == Filled(s, form)
<1>0. form.sleep \in SleepMin..SleepMax
  BY DEF Accepts
<1>1. new = [f \in Fields |-> new[f]] /\ new[Sleep] = form.sleep
  BY FilledFields
<1>2. new[Gateway] \notin DOMAIN Legacy
  BY DEF Accepts, Valid
<1>3. ASSUME NEW f \in Texts PROVE new[f] # Unwritten
  <2>1. Has(WriteOrder, f) /\ f \notin {Sleep, On} /\ s[f] # Unwritten
    BY <1>3, Orders DEF Texts, Regular
  <2>2. \/ \E i \in 1..Slots : f \in {Ssid(i), Pass(i)}
        \/ f \in {Key, Psk, Gateway, Token, Request, Turn}
    BY <2>1, WriteKeys
  <2>3. Unwritten # "" /\ Unwritten # "short" /\ Unwritten \notin {form.gateway, form.key, form.psk}
        /\ \A i \in 1..Slots : form.ssid[i] # Unwritten
    BY SettingsAssumption DEF Unwritten
  <2>4. s[Gateway] # Unwritten
    BY Orders, FieldNames DEF Regular, Texts
  <2>5. CASE f \in {Key, Psk, Gateway}
    <3>1. /\ new[Key] = Typed(form.key, s[Key]) /\ new[Gateway] = Typed(form.gateway, s[Gateway])
          /\ new[Psk] = IF form.clear_psk THEN "" ELSE Typed(form.psk, s[Psk])
      BY FilledFields
    <3> HIDE DEF new
    <3> QED
      BY <2>1, <2>3, <2>5, <3>1 DEF Typed
  <2>6. CASE f = Token
    <3>1. new[Token] = Typed(form.token, s[Token])
      BY FilledFields
    <3>2. form.token \in {"", Typed(form.gateway, s[Gateway])}
      BY DEF Honest
    <3> HIDE DEF new
    <3> QED
      BY <2>1, <2>3, <2>4, <2>6, <3>1, <3>2 DEF Typed
  <2>7. CASE f \in Ids
    <3>1. new[f] = s[f]
      BY <2>7, FilledIds
    <3> HIDE DEF new
    <3> QED
      BY <2>1, <2>7, <3>1
  <2>8. ASSUME NEW i \in 1..Slots, f = Ssid(i) PROVE new[f] # Unwritten
    <3>1. new[Ssid(i)] = form.ssid[i] /\ new[Pass(i)] = Password(s, form, i)
      BY FilledFields
    <3> HIDE DEF new
    <3> QED
      BY <2>3, <2>8, <3>1
  <2>9. ASSUME NEW i \in 1..Slots, f = Pass(i) PROVE new[f] # Unwritten
    <3>1. new[f] = Password(s, form, i) /\ form.password[i] \in {"", "short", form.ssid[i]}
      BY <2>9, FilledFields DEF Honest
    <3> HIDE DEF new
    <3> QED
      BY <2>1, <2>3, <2>9, <3>1 DEF Password, Typed
  <2> QED
    BY <2>2, <2>5, <2>6, <2>7, <2>8, <2>9 DEF Ids
<1> QED
  BY <1>0, <1>1, <1>2, <1>3 DEF Regular

-----------------------------------------------------------------------------
(* The steps.                                                              *)

LEMMA LoadSame ==
  ASSUME NEW a, NEW b, \A f \in Fields : a[f] = b[f]
  PROVE  Load(a) = Load(b)
  BY Orders DEF Load

LEMMA InitParts == Init => CallerInv /\ RecordInv /\ IdInv /\ PairInv /\ SaveInv /\ KeepInv
<1> SUFFICES ASSUME Init
             PROVE  CallerInv /\ RecordInv /\ IdInv /\ PairInv /\ SaveInv /\ KeepInv
  OBVIOUS
<1>1. /\ nvs \in Stored /\ ram = Loaded /\ mutex = Free /\ reset_pending = FALSE /\ portal = Idle
      /\ voice = [pc |-> "idle", task |-> IF Valid(ram) THEN ram[Request] ELSE ""]
      /\ promised = Config(ram) /\ torn = FALSE /\ disturbed = FALSE
  BY DEF Init
<1>2. mutex.who = "nobody" /\ portal.pc = "idle" /\ portal.copied = 0 /\ voice.pc = "idle"
      /\ voice.task \in {"", ram[Request]}
  BY <1>1 DEF Free, Idle
<1>3. Regular(ram) /\ Paired(ram)
  BY <1>1, LoadRegular, StoredAssumption DEF Loaded
<1>4. voice.task # Unwritten
  <2>1. Request \in Texts
    BY Orders, FieldNames DEF Texts
  <2>2. "" # Unwritten
    BY DEF Unwritten
  <2> QED
    BY <1>2, <1>3, <2>1, <2>2 DEF Regular
<1>5. CallerInv
  <2>1. voice = [pc |-> voice.pc, task |-> voice.task]
    BY <1>1
  <2>2. 0 \in Nat
    OBVIOUS
  <2> QED
    BY <1>2, <2>1, <2>2 DEF CallerInv
<1>6. RecordInv /\ IdInv
  BY <1>1, <1>2, <1>3, <1>4 DEF RecordInv, IdInv, Laid
<1>7. PairInv /\ SaveInv /\ KeepInv
  BY <1>1, <1>2, <1>3 DEF PairInv, SaveInv, KeepInv, Laid
<1> QED
  BY <1>5, <1>6, <1>7
LEMMA StepPost ==
  ASSUME IInv, NEW form \in Forms, Post(form)
  PROVE  Parts'
<1>1. /\ portal.pc = "idle" /\ Honest(ram, form) /\ Accepts(ram, form)
      /\ portal' = [pc |-> "post", next |-> Filled(ram, form), copied |-> 0]
      /\ UNCHANGED << nvs, ram, mutex, reset_pending, voice, promised, torn, disturbed >>
  BY DEF Post
<1>2. portal'.pc = "post" /\ portal'.next = Filled(ram, form) /\ portal'.copied = 0
  BY <1>1
<1>3. CallerInv'
  BY <1>1, <1>2 DEF IInv, CallerInv
<1>4. mutex.who # "portal"
  BY <1>1 DEF IInv, CallerInv
<1>5. RecordInv'
  BY <1>1, <1>2, FilledRegular DEF IInv, RecordInv, Laid
<1>6. IdInv'
  <2>1. \A f \in Ids : Filled(ram, form)[f] = ram[f]
    BY FilledIds
  <2>2. \A f \in Ids : portal'.next[f] = ram[f]
    BY <1>2, <2>1
  <2> QED
    BY <1>1, <2>2 DEF IInv, IdInv, Ids
<1>7. PairInv'
  BY <1>1, <1>2, FilledPaired DEF IInv, PairInv, Laid, Still, Loaded
<1>8. SaveInv'
  BY <1>1, <1>2, <1>4 DEF IInv, SaveInv
<1>9. KeepInv'
  BY <1>1, <1>2 DEF IInv, KeepInv, Still, Loaded
<1> QED
  BY <1>3, <1>5, <1>6, <1>7, <1>8, <1>9 DEF Parts

\* A saver takes the mutex.
LEMMA StepTakes ==
  ASSUME IInv, Reset \/ PostSaves \/ (VoiceSaves /\ ~reset_pending)
  PROVE  Parts'
<1>1. /\ mutex = Free /\ UNCHANGED << nvs, ram, reset_pending, promised, torn, disturbed >>
      /\ mutex'.at = 1 /\ mutex' # Free /\ ~reset_pending
      /\ \/ /\ portal.pc = "idle" /\ portal' = [portal EXCEPT !.pc = "resetting"]
            /\ mutex'.who = "reset" /\ voice' = voice
         \/ /\ portal.pc = "post" /\ portal' = [portal EXCEPT !.pc = "saving"]
            /\ mutex'.who = "portal" /\ voice' = voice
         \/ /\ voice.pc = "save" /\ voice' = [voice EXCEPT !.pc = "saving"]
            /\ mutex'.who = "voice" /\ portal' = portal
  BY TakenMutex DEF Reset, PostSaves, VoiceSaves, IInv, ResetInv
<1>2. Handler(portal) /\ mutex.who = "nobody"
  BY <1>1, FreeMutex DEF IInv, ResetInv
<1>3. /\ portal'.next = portal.next /\ portal'.copied = portal.copied /\ voice'.task = voice.task
      /\ voice' = [pc |-> voice'.pc, task |-> voice'.task]
      /\ \/ portal.pc = "idle" /\ portal'.pc = "resetting" /\ mutex'.who = "reset" /\ voice'.pc = voice.pc
         \/ portal.pc = "post" /\ portal'.pc = "saving" /\ mutex'.who = "portal" /\ voice'.pc = voice.pc
         \/ portal'.pc = portal.pc /\ voice.pc = "save" /\ voice'.pc = "saving" /\ mutex'.who = "voice"
  BY <1>1, <1>2 DEF Handler, IInv, CallerInv
<1>4. CallerInv'
  BY <1>2, <1>3 DEF IInv, CallerInv
<1>5. RecordInv' /\ IdInv'
  BY <1>1, <1>3 DEF IInv, RecordInv, IdInv, Laid
<1>6. PairInv'
  BY <1>1, <1>3 DEF IInv, PairInv, Laid, Still
<1>7. SaveInv'
  BY <1>1, <1>3, Orders DEF IInv, SaveInv
<1>8. KeepInv'
  BY <1>1, <1>3 DEF IInv, KeepInv, Still
<1> QED
  BY <1>4, <1>5, <1>6, <1>7, <1>8 DEF Parts

\* After a reset the voice task is turned back.
LEMMA StepTurnedBack ==
  ASSUME IInv, VoiceSaves, reset_pending
  PROVE  Parts'
<1>1. /\ voice.pc = "save" /\ mutex = Free /\ voice' = [pc |-> "idle", task |-> ""]
      /\ UNCHANGED << nvs, ram, mutex, reset_pending, portal, promised, torn, disturbed >>
  BY DEF VoiceSaves
<1>2. voice'.pc = "idle" /\ voice'.task = "" /\ portal.pc = "answered"
  BY <1>1 DEF IInv, ResetInv
<1>3. CallerInv' /\ RecordInv' /\ IdInv'
  BY <1>1, <1>2 DEF IInv, CallerInv, RecordInv, IdInv, Laid, Unwritten
<1>4. PairInv' /\ SaveInv' /\ KeepInv'
  BY <1>1, <1>2 DEF IInv, PairInv, SaveInv, KeepInv, Laid, Still, Loaded
<1> QED
  BY <1>3, <1>4 DEF Parts

\* One key more.
LEMMA StepWrite ==
  ASSUME IInv, Write
  PROVE  Parts'
<1>1. /\ mutex # Free /\ mutex.at <= Len(Order)
      /\ nvs' = [nvs EXCEPT ![Order[mutex.at]] = Source[Order[mutex.at]]]
      /\ mutex' = [mutex EXCEPT !.at = @ + 1]
      /\ disturbed' = (disturbed \/ (mutex.who = "voice" /\ portal.pc = "copying"))
      /\ UNCHANGED << ram, reset_pending, portal, voice, promised, torn >>
  BY DEF Write
<1>2. /\ mutex.at \in Nat \ {0} /\ mutex'.at = mutex.at + 1 /\ mutex'.who = mutex.who /\ mutex' # Free
      /\ nvs = [f \in Kept |-> nvs[f]]
  BY <1>1 DEF IInv, ResetInv, Free
<1>3. CallerInv' /\ RecordInv'
  BY <1>1, <1>2 DEF IInv, CallerInv, RecordInv, Laid
<1>4. IdInv'
  BY <1>1 DEF IInv, IdInv, Laid
<1>5. PairInv'
  BY <1>1, <1>2 DEF IInv, PairInv, Laid, Still
<1>6. KeepInv'
  BY <1>1, <1>2 DEF IInv, KeepInv, Still
<1>7. ASSUME NEW from, mutex.who \in {"portal", "voice"}, Source = from,
             \A n \in 1..Len(WriteOrder) : n < mutex.at => nvs[WriteOrder[n]] = from[WriteOrder[n]],
             NEW n \in 1..Len(WriteOrder), n < mutex.at + 1
      PROVE  nvs'[WriteOrder[n]] = from[WriteOrder[n]]
  <2>1. Order = WriteOrder
    BY <1>7 DEF Order
  <2>2. n = mutex.at \/ n < mutex.at
    BY <1>2, <1>7, Orders
  <2>3. WriteOrder[n] \in Kept
    BY Orders
  <2>4. nvs'[WriteOrder[n]] = IF WriteOrder[n] = WriteOrder[mutex.at] THEN from[WriteOrder[mutex.at]]
                                                                  ELSE nvs[WriteOrder[n]]
    BY <1>1, <1>2, <1>7, <2>1, <2>3
  <2> QED
    BY <1>7, <2>2, <2>4
<1>8. SaveInv'
  <2> SUFFICES ASSUME ~disturbed' PROVE SaveInv'
    BY DEF SaveInv
  <2>1. ~disturbed /\ ~(mutex.who = "voice" /\ portal.pc = "copying")
    BY <1>1
  <2>2. mutex.who = "portal" => Source = portal.next
    BY DEF Source
  <2>3. mutex.who = "voice" => Source = ram
    BY DEF Source
  <2>4. mutex.who = "portal" => \A n \in 1..Len(WriteOrder) :
          n < mutex.at + 1 => nvs'[WriteOrder[n]] = portal.next[WriteOrder[n]]
    BY <1>7, <2>1, <2>2 DEF IInv, SaveInv
  <2>5. mutex.who = "voice" => \A n \in 1..Len(WriteOrder) :
          n < mutex.at + 1 => nvs'[WriteOrder[n]] = ram[WriteOrder[n]]
    BY <1>7, <2>1, <2>3 DEF IInv, SaveInv
  <2>6. portal.pc = "copying" => \A n \in 1..Len(CopyOrder) :
          n <= portal.copied => ram[CopyOrder[n]] = portal.next[CopyOrder[n]]
    BY <2>1 DEF IInv, SaveInv
  <2> QED
    BY <1>1, <1>2, <2>1, <2>4, <2>5, <2>6 DEF SaveInv
<1> QED
  BY <1>3, <1>4, <1>5, <1>6, <1>8 DEF Parts

\* A save that has written its last key has left the record in NVS.
LEMMA SavedAll ==
  ASSUME NEW s, Regular(s), NEW keys, NEW at \in Nat, at > Len(WriteOrder),
         \A n \in 1..Len(WriteOrder) : n < at => keys[WriteOrder[n]] = s[WriteOrder[n]]
  PROVE  Load(keys) = s
<1>1. ASSUME NEW f \in Fields PROVE keys[f] = s[f]
  <2>1. PICK n \in 1..Len(WriteOrder) : WriteOrder[n] = f
    BY Orders DEF Has
  <2>2. n < at
    BY Orders
  <2> QED
    BY <2>1, <2>2
<1> QED
  BY <1>1, LoadsSaved

LEMMA StepSaved ==
  ASSUME IInv, Saved
  PROVE  Parts'
<1>1. /\ mutex # Free /\ mutex.at > Len(Order) /\ mutex' = Free /\ torn' = FALSE
      /\ UNCHANGED << nvs, ram, disturbed >>
  BY DEF Saved
<1>2. /\ mutex.who \in {"portal", "voice", "reset"} /\ mutex.at \in Nat /\ ~reset_pending
      /\ Handler(portal) /\ mutex'.who = "nobody"
  BY <1>1, FreeMutex DEF IInv, ResetInv, Savers
<1>3. voice = [pc |-> voice.pc, task |-> voice.task] /\ portal.copied \in Nat
      /\ voice.pc \in {"idle", "save", "saving"}
      /\ portal.pc \in {"idle", "post", "saving", "resetting", "copying", "answered"}
  BY DEF IInv, CallerInv
<1>4. CASE mutex.who = "portal"
  <2>1. /\ portal' = [portal EXCEPT !.pc = "copying"] /\ voice' = voice
        /\ promised' = Config(portal.next)
    BY <1>2, <1>4 DEF Saved, Source
  <2>2. portal.pc = "saving" /\ voice.pc # "saving"
    BY <1>4 DEF IInv, CallerInv
  <2>3. portal'.pc = "copying" /\ portal'.next = portal.next /\ portal'.copied = portal.copied
    BY <1>2, <2>1 DEF Handler
  <2>4. CallerInv'
    BY <1>2, <1>3, <2>1, <2>2, <2>3 DEF CallerInv
  <2>5. RecordInv' /\ IdInv'
    BY <1>1, <2>1, <2>2, <2>3 DEF IInv, RecordInv, IdInv, Laid
  <2>6. ~disturbed => Load(nvs) = portal.next
    <3>1. Order = WriteOrder
      BY <1>4 DEF Order
    <3>2. Regular(portal.next)
      BY <2>2 DEF IInv, RecordInv, Laid
    <3>3. ~disturbed => \A n \in 1..Len(WriteOrder) :
            n < mutex.at => nvs[WriteOrder[n]] = portal.next[WriteOrder[n]]
      BY <1>4 DEF IInv, SaveInv
    <3> QED
      BY <1>1, <1>2, <3>1, <3>2, <3>3, SavedAll
  <2>7. PairInv'
    BY <1>1, <2>2, <2>3, <2>6 DEF IInv, PairInv, Laid, Still, Loaded
  <2>8. portal'.copied = 0
    BY <2>2, <2>3 DEF IInv, CallerInv
  <2>9. SaveInv'
    BY <1>1, <1>2, <2>3, <2>8, Orders DEF SaveInv
  <2>10. KeepInv'
    BY <1>1, <2>1, <2>3, <2>6 DEF KeepInv, Still, Loaded
  <2> QED
    BY <2>4, <2>5, <2>7, <2>9, <2>10 DEF Parts
<1>5. CASE mutex.who = "voice"
  <2>1. /\ voice' = [voice EXCEPT !.pc = "idle"] /\ UNCHANGED portal
        /\ promised' = promised
    BY <1>2, <1>5 DEF Saved
  <2>2. voice.pc = "saving" /\ portal.pc \notin {"saving", "resetting"}
    BY <1>5 DEF IInv, CallerInv
  <2>3. voice'.pc = "idle" /\ voice'.task = voice.task
        /\ voice' = [pc |-> voice'.pc, task |-> voice'.task]
    BY <1>3, <2>1
  <2>4. Order = WriteOrder
    BY <1>5 DEF Order
  <2>5. ~disturbed => portal.pc # "copying"
    <3>1. Len(WriteOrder) \in Nat /\ Len(WriteOrder) >= 1
      BY Orders DEF Has
    <3>2. mutex.at # 1
      BY <1>1, <2>4, <3>1
    <3> QED
      BY <1>5, <3>2 DEF IInv, SaveInv
  <2>6. ~disturbed => Load(nvs) = ram
    <3>1. Regular(ram)
      BY DEF IInv, RecordInv
    <3>2. ~disturbed => \A n \in 1..Len(WriteOrder) :
            n < mutex.at => nvs[WriteOrder[n]] = ram[WriteOrder[n]]
      BY <1>5 DEF IInv, SaveInv
    <3> QED
      BY <1>1, <1>2, <2>4, <3>1, <3>2, SavedAll
  <2>7. CallerInv'
    BY <1>2, <1>3, <2>1, <2>2, <2>3 DEF IInv, CallerInv
  <2>8. RecordInv' /\ IdInv'
    BY <1>1, <2>1, <2>3 DEF IInv, RecordInv, IdInv, Laid
  <2>9. PairInv'
    BY <1>1, <2>1, <2>5, <2>6 DEF IInv, PairInv, Laid, Still, Loaded
  <2>10. SaveInv'
    BY <1>1, <1>2, <2>1, <2>5 DEF SaveInv
  <2>11. KeepInv'
    BY <1>1, <1>2, <2>1, <2>5, <2>6 DEF IInv, KeepInv, Still, Loaded
  <2> QED
    BY <2>7, <2>8, <2>9, <2>10, <2>11 DEF Parts
<1>6. CASE mutex.who = "reset"
  <2>1. /\ portal' = [portal EXCEPT !.pc = "answered"] /\ UNCHANGED voice
        /\ promised' = Config(Empty) /\ reset_pending'
    BY <1>2, <1>6, EmptyRecord DEF Saved, Source
  <2>2. portal.pc = "resetting" /\ voice.pc # "saving"
    BY <1>6 DEF IInv, CallerInv
  <2>3. portal'.pc = "answered" /\ portal'.copied = portal.copied
    BY <1>2, <2>1 DEF Handler
  <2>4. Load(nvs) = Empty
    <3>1. mutex.at > Len(ResetOrder)
      BY <1>1, <1>6 DEF Order
    <3>2. \A n \in 1..Len(ResetOrder) : nvs[ResetOrder[n]] = Clean[ResetOrder[n]]
      BY <1>2, <1>6, <3>1, ResetLength DEF IInv, ResetInv
    <3>3. \A f \in Fields : nvs[f] = Empty[f]
      BY <3>2, EmptyRecord, KeptFields DEF Kept
    <3> QED
      BY <3>3, LoadsSaved, EmptyRecord
  <2>5. CallerInv'
    BY <1>2, <1>3, <2>1, <2>2, <2>3 DEF CallerInv
  <2>6. RecordInv' /\ IdInv'
    BY <1>1, <2>1, <2>3 DEF IInv, RecordInv, IdInv, Laid
  <2>7. PairInv'
    BY <1>1, <2>1, <2>2, <2>3, <2>4, EmptyRecord DEF IInv, PairInv, Laid, Still, Loaded
  <2>8. SaveInv'
    BY <1>1, <1>2, <2>3 DEF SaveInv
  <2>9. KeepInv'
    BY <1>1, <2>1, <2>3, <2>4 DEF KeepInv, Still, Loaded
  <2> QED
    BY <2>5, <2>6, <2>7, <2>8, <2>9 DEF Parts
<1> QED
  BY <1>2, <1>4, <1>5, <1>6

\* A save is cut: its caller gives up.
LEMMA StepWriteFails ==
  ASSUME IInv, WriteFails
  PROVE  Parts'
<1>1. /\ mutex # Free /\ mutex' = Free /\ torn' = TRUE
      /\ UNCHANGED << nvs, ram, reset_pending, promised, disturbed >>
      /\ \/ /\ mutex.who = "voice" /\ voice' = [pc |-> "idle", task |-> ""] /\ portal' = portal
         \/ /\ mutex.who # "voice" /\ portal' = Idle /\ voice' = voice
  BY DEF WriteFails
<1>2. mutex.who \in {"portal", "voice", "reset"} /\ mutex'.who = "nobody" /\ ~reset_pending
  BY <1>1, FreeMutex DEF IInv, ResetInv, Savers
<1>3. /\ mutex.who = "portal" <=> portal.pc = "saving"
      /\ mutex.who = "reset" <=> portal.pc = "resetting"
      /\ mutex.who = "voice" <=> voice.pc = "saving"
  BY DEF IInv, CallerInv
<1>4. /\ voice' = [pc |-> voice'.pc, task |-> voice'.task] /\ voice'.pc \in {"idle", "save"}
      /\ voice'.task \in {"", voice.task} /\ voice'.task # Unwritten
  <2>1. /\ voice = [pc |-> voice.pc, task |-> voice.task] /\ voice.task # Unwritten
        /\ voice.pc \in {"idle", "save", "saving"}
    BY DEF IInv, CallerInv, RecordInv
  <2>2. CASE mutex.who = "voice"
    <3>1. voice' = [pc |-> "idle", task |-> ""]
      BY <1>1, <2>2
    <3> QED
      BY <3>1 DEF Unwritten
  <2>3. CASE mutex.who # "voice"
    <3>1. voice' = voice /\ voice.pc # "saving"
      BY <1>1, <1>3, <2>3
    <3> QED
      BY <2>1, <3>1
  <2> QED
    BY <2>2, <2>3
<1>5. \/ portal' = portal /\ portal.pc \notin {"saving", "resetting"}
      \/ portal'.pc = "idle" /\ portal'.copied = 0 /\ portal.pc \in {"saving", "resetting"}
  <2>1. Idle.pc = "idle" /\ Idle.copied = 0
    BY DEF Idle
  <2>2. CASE mutex.who = "voice"
    <3>1. mutex.who # "portal" /\ mutex.who # "reset"
      BY <2>2
    <3> QED
      BY <1>1, <1>3, <2>2, <3>1
  <2>3. CASE mutex.who # "voice"
    BY <1>1, <1>2, <1>3, <2>1, <2>3
  <2> QED
    BY <2>2, <2>3
<1>6. CallerInv'
  BY <1>2, <1>4, <1>5 DEF IInv, CallerInv
<1>7. RecordInv' /\ IdInv'
  BY <1>1, <1>4, <1>5 DEF IInv, RecordInv, IdInv, Laid
<1>8. PairInv' /\ KeepInv'
  BY <1>1, <1>2, <1>5 DEF IInv, PairInv, KeepInv, Laid, Still
<1>9. SaveInv'
  BY <1>1, <1>2, <1>5 DEF IInv, SaveInv
<1> QED
  BY <1>6, <1>7, <1>8, <1>9 DEF Parts


\* One field of the accepted form is copied into the record.
LEMMA StepCopy ==
  ASSUME IInv, Copy
  PROVE  Parts'
<1> DEFINE g == CopyOrder[portal.copied + 1]
<1>1. /\ portal.pc = "copying" /\ portal.copied < Len(CopyOrder)
      /\ ram' = [ram EXCEPT ![g] = portal.next[g]]
      /\ portal' = [portal EXCEPT !.copied = @ + 1]
      /\ UNCHANGED << nvs, mutex, reset_pending, voice, promised, torn, disturbed >>
  BY DEF Copy
<1>2. portal.copied \in Nat /\ Regular(ram) /\ Regular(portal.next) /\ Handler(portal)
  BY <1>1 DEF IInv, ResetInv, CallerInv, RecordInv, Laid
<1>3. portal'.pc = "copying" /\ portal'.next = portal.next /\ portal'.copied = portal.copied + 1
  BY <1>1, <1>2 DEF Handler
<1>4. ram = [f \in Fields |-> ram[f]] /\ portal.next = [f \in Fields |-> portal.next[f]]
  BY <1>2 DEF Regular
<1>5. /\ ram' = [f \in Fields |-> ram'[f]]
      /\ \A f \in Fields : ram'[f] \in {ram[f], portal.next[f]}
      /\ \A f \in Fields : ram[f] = portal.next[f] => ram'[f] = ram[f]
      /\ g \in Fields => ram'[g] = portal.next[g]
  BY <1>1, <1>4
<1> HIDE DEF g
<1>6. CallerInv'
  BY <1>1, <1>2, <1>3 DEF IInv, CallerInv
<1>7. RecordInv'
  <2>1. Gateway \in Fields /\ Sleep \in Fields
    BY Orders
  <2>2. Regular(ram')
    BY <1>2, <1>5, <2>1 DEF Regular, Texts
  <2> QED
    BY <1>1, <1>2, <1>3, <2>2 DEF IInv, RecordInv, Laid
<1>8. ~disturbed => \A f \in Ids : ram'[f] = ram[f] /\ portal.next[f] = ram[f]
  <2>1. Ids \subseteq Fields
    BY Orders DEF Ids
  <2>2. ~disturbed => \A f \in Ids : portal.next[f] = ram[f]
    BY <1>1 DEF IInv, IdInv, Laid
  <2> QED
    BY <1>5, <2>1, <2>2
<1>9. IdInv'
  BY <1>1, <1>3, <1>8 DEF IInv, IdInv, Ids
<1>10. PairInv'
  BY <1>1, <1>3 DEF IInv, PairInv, Laid, Still, Loaded
<1>11. SaveInv'
  <2> SUFFICES ASSUME ~disturbed PROVE SaveInv'
    BY <1>1 DEF SaveInv
  <2>1. mutex.who # "portal"
    BY <1>1 DEF IInv, CallerInv
  <2>2. mutex.who = "voice" => mutex.at = 1
    BY <1>1 DEF IInv, SaveInv
  <2>3. ASSUME NEW n \in 1..Len(CopyOrder), n <= portal.copied + 1
        PROVE  ram'[CopyOrder[n]] = portal.next[CopyOrder[n]]
    <3>1. CopyOrder[n] \in Fields
      BY Orders
    <3>2. CASE n = portal.copied + 1
      BY <1>5, <3>1, <3>2 DEF g
    <3>3. CASE n # portal.copied + 1
      <4>1. n <= portal.copied
        BY <1>2, <2>3, <3>3, Orders
      <4>2. ram[CopyOrder[n]] = portal.next[CopyOrder[n]]
        BY <1>1, <4>1 DEF IInv, SaveInv
      <4> QED
        BY <1>5, <3>1, <4>2
    <3> QED
      BY <3>2, <3>3
  <2> QED
    BY <1>1, <1>3, <2>1, <2>2, <2>3, Orders DEF SaveInv
<1>12. KeepInv'
  BY <1>1, <1>3 DEF IInv, KeepInv, Still, Loaded
<1> QED
  BY <1>6, <1>7, <1>9, <1>10, <1>11, <1>12 DEF Parts

\* The last field is copied: the record is the form.
LEMMA StepAnswer ==
  ASSUME IInv, Answer
  PROVE  Parts'
<1>1. /\ portal.pc = "copying" /\ portal.copied = Len(CopyOrder)
      /\ portal' = [portal EXCEPT !.pc = "answered"]
      /\ UNCHANGED << nvs, ram, mutex, reset_pending, voice, promised, torn, disturbed >>
  BY DEF Answer
<1>2. portal.copied \in Nat /\ Regular(ram) /\ Regular(portal.next) /\ Handler(portal)
  BY <1>1 DEF IInv, ResetInv, CallerInv, RecordInv, Laid
<1>3. portal'.pc = "answered" /\ portal'.copied = portal.copied
  BY <1>1, <1>2 DEF Handler
<1>4. ~disturbed => ram = portal.next
  <2>1. ASSUME ~disturbed, NEW f \in Fields PROVE ram[f] = portal.next[f]
    <3>1. PICK n \in 1..Len(CopyOrder) : CopyOrder[n] = f
      BY Orders DEF Has
    <3> QED
      BY <1>1, <2>1, <3>1, Orders DEF IInv, SaveInv
  <2> QED
    BY <1>2, <2>1 DEF Regular
<1>5. CallerInv'
  BY <1>1, <1>2, <1>3 DEF IInv, CallerInv
<1>6. RecordInv' /\ IdInv'
  BY <1>1, <1>3 DEF IInv, RecordInv, IdInv, Laid
<1>7. PairInv'
  BY <1>1, <1>3, <1>4 DEF IInv, PairInv, Laid, Still, Loaded
<1>8. SaveInv'
  BY <1>1, <1>3 DEF IInv, CallerInv, SaveInv
<1>9. KeepInv'
  BY <1>1, <1>3, <1>4 DEF IInv, KeepInv, Still, Loaded
<1> QED
  BY <1>5, <1>6, <1>7, <1>8, <1>9 DEF Parts

\* An id changes: the settings stay, and the turn stands for its request.
LEMMA StepAssigns ==
  ASSUME IInv, NEW request, NEW turn, NEW task, Assigns(request, turn, task),
         voice.pc = "idle", Unwritten \notin {request, turn, task},
         ~disturbed => turn \in {"", request} /\ task \in {"", request}
  PROVE  Parts'
<1>1. /\ ram' = [ram EXCEPT ![Request] = request, ![Turn] = turn]
      /\ voice' = [pc |-> "save", task |-> task]
      /\ disturbed' = (disturbed \/ Laid)
      /\ UNCHANGED << nvs, mutex, reset_pending, portal, promised, torn >>
  BY DEF Assigns, Laid
<1>2. voice'.pc = "save" /\ voice'.task = task /\ voice' = [pc |-> voice'.pc, task |-> voice'.task]
  BY <1>1
<1>3. Regular(ram) /\ ram = [f \in Fields |-> ram[f]]
  BY DEF IInv, RecordInv, Regular
<1>4. Request \in Fields /\ Turn \in Fields /\ Request # Turn
  BY Orders, FieldNames
<1>5. /\ ram' = [f \in Fields |-> ram'[f]] /\ ram'[Request] = request /\ ram'[Turn] = turn
      /\ \A f \in Fields \ Ids : ram'[f] = ram[f]
  BY <1>1, <1>3, <1>4 DEF Ids
<1>6. Config(ram') = Config(ram)
  BY <1>5 DEF Config
<1>7. /\ {Gateway, Token, Sleep} \subseteq Fields \ Ids
      /\ \A i \in 1..Slots : Ssid(i) \in Fields \ Ids /\ Pass(i) \in Fields \ Ids
  BY Orders, FieldNames DEF Ids
<1>8. Regular(ram')
  <2>1. \A f \in Texts : ram'[f] # Unwritten
    BY <1>3, <1>5 DEF Regular, Texts, Ids
  <2> QED
    BY <1>3, <1>5, <1>7, <2>1 DEF Regular
<1>9. CallerInv'
  BY <1>1, <1>2 DEF IInv, CallerInv
<1>10. RecordInv'
  BY <1>1, <1>2, <1>8 DEF IInv, RecordInv, Laid, Unwritten
<1>11. IdInv'
  BY <1>1, <1>2, <1>5 DEF IdInv, Laid
<1>12. PairInv'
  <2>1. ~disturbed /\ portal.pc # "copying" => Paired(ram')
    BY <1>5, <1>7 DEF IInv, PairInv, Paired
  <2> QED
    BY <1>1, <2>1 DEF IInv, PairInv, Laid, Still, Loaded
<1>13. SaveInv'
  BY <1>1 DEF IInv, CallerInv, SaveInv, Laid
<1>14. KeepInv'
  BY <1>1, <1>2, <1>6 DEF IInv, KeepInv, Still, Loaded, Laid
<1> QED
  BY <1>9, <1>10, <1>11, <1>12, <1>13, <1>14 DEF Parts


LEMMA StepIds ==
  ASSUME IInv, (\E r \in Requests : BeginTurnRequest(r)) \/ SaveTurnId \/ ClearIds
  PROVE  Parts'
<1>1. "" # Unwritten
  BY DEF Unwritten
<1>2. CASE \E r \in Requests : BeginTurnRequest(r)
  <2>1. PICK r \in Requests : BeginTurnRequest(r)
    BY <1>2
  <2>2. voice.pc = "idle" /\ Assigns(r, "", r) /\ r # Unwritten
    BY <2>1, SettingsAssumption DEF BeginTurnRequest
  <2> QED
    BY <1>1, <2>2, StepAssigns
<1>3. CASE SaveTurnId
  <2>1. /\ voice.pc = "idle" /\ voice.task # "" /\ voice.task # Unwritten
        /\ Assigns(ram[Request], voice.task, voice.task)
    BY <1>3 DEF SaveTurnId, IInv, RecordInv
  <2>2. ram[Request] # Unwritten
    <3>1. Request \in Texts
      BY Orders, FieldNames DEF Texts
    <3> QED
      BY <3>1 DEF IInv, RecordInv, Regular
  <2>3. ~disturbed => voice.task = ram[Request]
    BY <2>1 DEF IInv, IdInv
  <2> QED
    BY <1>1, <2>1, <2>2, <2>3, StepAssigns
<1>4. CASE ClearIds
  <2>1. voice.pc = "idle" /\ Assigns("", "", "")
    BY <1>4 DEF ClearIds
  <2> QED
    BY <1>1, <2>1, StepAssigns
<1> QED
  BY <1>2, <1>3, <1>4

LEMMA StepTurnFails ==
  ASSUME IInv, TurnFails
  PROVE  Parts'
<1>1. /\ voice.pc = "idle" /\ voice' = [voice EXCEPT !.task = ""]
      /\ UNCHANGED << nvs, ram, mutex, reset_pending, portal, promised, torn, disturbed >>
      /\ voice = [pc |-> voice.pc, task |-> voice.task]
  BY DEF TurnFails, IInv, CallerInv
<1>2. voice'.pc = "idle" /\ voice'.task = "" /\ voice' = [pc |-> voice'.pc, task |-> voice'.task]
  BY <1>1
<1>3. CallerInv' /\ RecordInv' /\ IdInv'
  BY <1>1, <1>2 DEF IInv, CallerInv, RecordInv, IdInv, Laid, Unwritten
<1>4. PairInv' /\ SaveInv' /\ KeepInv'
  BY <1>1, <1>2 DEF IInv, PairInv, SaveInv, KeepInv, Laid, Still, Loaded
<1> QED
  BY <1>3, <1>4 DEF Parts

\* The brightness is no field of the record.
LEMMA StepDim ==
  ASSUME IInv, NEW new \in 0..1, Dim(new)
  PROVE  Parts'
<1>1. /\ mutex = Free /\ nvs' = [nvs EXCEPT ![Bright] = new]
      /\ UNCHANGED << ram, mutex, reset_pending, portal, voice, promised, torn, disturbed >>
      /\ nvs = [f \in Kept |-> nvs[f]]
  BY DEF Dim, IInv, ResetInv
<1>2. \A f \in Fields : nvs'[f] = nvs[f]
  BY <1>1, KeptFields
<1>3. Load(nvs') = Load(nvs)
  BY <1>2, LoadSame
<1>4. CallerInv' /\ RecordInv' /\ IdInv'
  BY <1>1 DEF IInv, CallerInv, RecordInv, IdInv, Laid
<1>5. PairInv' /\ KeepInv'
  BY <1>1, <1>3 DEF IInv, PairInv, KeepInv, Laid, Still, Loaded
<1>6. SaveInv'
  BY <1>1, FreeMutex DEF IInv, SaveInv
<1> QED
  BY <1>4, <1>5, <1>6 DEF Parts

\* A boot that meets no save under way finds what the last one left.
LEMMA StepBoots ==
  ASSUME IInv, Restart \/ PowerCut
  PROVE  Parts'
<1>1. /\ ram' = Loaded /\ mutex' = Free /\ reset_pending' = FALSE /\ portal' = Idle
      /\ voice' = [pc |-> "idle", task |-> IF Valid(Loaded) THEN Loaded[Request] ELSE ""]
      /\ torn' = FALSE /\ disturbed' = (disturbed \/ torn \/ mutex # Free)
      /\ UNCHANGED << nvs, promised >>
  BY DEF Restart, PowerCut, Boots
<1>2. portal'.pc = "idle" /\ portal'.copied = 0 /\ mutex'.who = "nobody"
  BY <1>1, FreeMutex DEF Idle
<1>3. voice'.pc = "idle" /\ voice'.task \in {"", ram'[Request]}
      /\ voice' = [pc |-> voice'.pc, task |-> voice'.task]
  BY <1>1
<1>4. Regular(ram')
  BY <1>1, LoadRegular DEF Loaded
<1>5. voice'.task # Unwritten
  <2>1. Request \in Texts
    BY Orders, FieldNames DEF Texts
  <2> QED
    BY <1>3, <1>4, <2>1 DEF Regular, Unwritten
<1>6. ~disturbed' => ~disturbed /\ Still
  BY <1>1 DEF Still
<1>7. CallerInv'
  <2>1. 0 \in Nat
    OBVIOUS
  <2> QED
    BY <1>2, <1>3, <2>1 DEF CallerInv
<1>8. RecordInv' /\ IdInv'
  BY <1>2, <1>3, <1>4, <1>5 DEF RecordInv, IdInv, Laid
<1>9. PairInv' /\ KeepInv'
  BY <1>1, <1>2, <1>6 DEF IInv, PairInv, KeepInv, Laid, Still, Loaded
<1>10. SaveInv'
  BY <1>2 DEF SaveInv
<1> QED
  BY <1>7, <1>8, <1>9, <1>10 DEF Parts

LEMMA StepIInv ==
  ASSUME IInv, [Next]_vars
  PROVE  IInv'
<1>1. ResetInv'
  BY StepReset DEF IInv
<1>2. ASSUME UNCHANGED vars PROVE Parts'
  <2>1. CallerInv' /\ RecordInv' /\ IdInv'
    BY <1>2 DEF IInv, CallerInv, RecordInv, IdInv, Laid
  <2>2. PairInv' /\ SaveInv' /\ KeepInv'
    BY <1>2 DEF IInv, PairInv, SaveInv, KeepInv, Laid, Still, Loaded
  <2> QED
    BY <2>1, <2>2 DEF Parts
<1>3. ASSUME Next PROVE Parts'
  <2>1. CASE \E form \in Forms : Post(form)
    BY <2>1, StepPost
  <2>2. CASE Reset \/ PostSaves \/ VoiceSaves
    BY <2>2, StepTakes, StepTurnedBack
  <2>3. CASE Write \/ Saved \/ WriteFails
    BY <2>3, StepWrite, StepSaved, StepWriteFails
  <2>4. CASE Copy \/ Answer
    BY <2>4, StepCopy, StepAnswer
  <2>5. CASE (\E r \in Requests : BeginTurnRequest(r)) \/ SaveTurnId \/ ClearIds
    BY <2>5, StepIds
  <2>6. CASE TurnFails
    BY <2>6, StepTurnFails
  <2>7. CASE \E new \in 0..1 : Dim(new)
    BY <2>7, StepDim
  <2>8. CASE Restart \/ PowerCut
    BY <2>8, StepBoots
  <2> QED
    BY <1>3, <2>1, <2>2, <2>3, <2>4, <2>5, <2>6, <2>7, <2>8 DEF Next
<1> QED
  BY <1>1, <1>2, <1>3 DEF IInv, Parts

LEMMA Always == Spec => []IInv
<1>1. Init => IInv
  BY InitReset, InitParts DEF IInv, Parts
<1> QED
  BY <1>1, StepIInv, PTL DEF Spec

(* What the next boot will load is what the device works with, and apart   *)
(* from the ids it is what the page last saved, when nobody saves and no   *)
(* save was cut or crossed (voice_settings.c:166-220).                     *)
THEOREM NothingIsLost == Spec => []NothingLost
<1>1. IInv => NothingLost
  <2> SUFFICES ASSUME IInv, Quiet, ~torn, ~disturbed
               PROVE  Loaded = ram /\ Config(ram) = promised
    BY DEF NothingLost
  <2>1. Still /\ portal.pc # "copying" /\ ~reset_pending /\ voice.pc = "idle"
    BY DEF Quiet, Still, IInv, ResetInv
  <2> QED
    BY <2>1 DEF IInv, KeepInv
<1> QED
  BY <1>1, Always, PTL

(* Each password stays with its network, the token with its gateway and    *)
(* the turn with its request, in the record and in NVS                     *)
(* (voice_config_form.c:106-111, main.c:317-318).                          *)
THEOREM SecretsKeepTheirPairs == Spec => []SecretsStayPaired
<1>1. IInv => SecretsStayPaired
  BY DEF IInv, PairInv, SecretsStayPaired, Still
<1> QED
  BY <1>1, Always, PTL

-----------------------------------------------------------------------------
(* Types.                                                                  *)

Known == {""} \cup Requests \cup {old[Request] : old \in Stored}

\* Wherever a request is kept it was made here or by an older firmware, and a save
\* stops behind its last key.
KnownInv ==
  /\ mutex.at <= Len(ResetOrder) + 1
  /\ nvs[Request] \in Known /\ ram[Request] \in Known /\ voice.task \in Known
  /\ Laid => portal.next[Request] \in Known

LEMMA KnownLoad ==
  ASSUME NEW keys, keys[Request] \in Known
  PROVE  Load(keys)[Request] \in Known
<1>1. Request \in Texts \ {Gateway}
  BY Orders, FieldNames DEF Texts
<1>2. Load(keys)[Request] \in {"", keys[Request]}
  BY <1>1, LoadedFields
<1> QED
  BY <1>2 DEF Known

LEMMA InitKnown == Init => KnownInv
<1> SUFFICES ASSUME Init PROVE KnownInv
  OBVIOUS
<1>1. nvs \in Stored /\ ram = Loaded /\ voice.task \in {"", ram[Request]}
  BY DEF Init
<1>2. nvs[Request] \in Known
  BY <1>1 DEF Known
<1>3. ram[Request] \in Known
  BY <1>1, <1>2, KnownLoad DEF Loaded
<1>4. mutex.at = 1 /\ ~Laid
  BY DEF Init, Free, Idle, Laid
<1>5. voice.task \in Known
  BY <1>1, <1>3 DEF Known
<1> QED
  BY <1>2, <1>3, <1>4, <1>5, ResetLength DEF KnownInv

\* What a key is written with is known where it is kept.
LEMMA WriteKnown ==
  ASSUME IInv, KnownInv, Write
  PROVE  KnownInv'
<1>1. Request \in Kept /\ Request \in Fields
  BY Orders, KeptFields
<1>2. Source[Request] \in Known
  <2>1. CASE mutex.who = "portal"
    BY <2>1 DEF Source, KnownInv, IInv, CallerInv, Laid
  <2>2. CASE mutex.who = "voice"
    BY <2>2 DEF Source, KnownInv
  <2>3. CASE mutex.who \notin {"portal", "voice"}
    <3>1. Clean[Request] = ""
      BY <1>1, KeptFields, Orders, FieldNames DEF Clean, Empty
    <3> QED
      BY <2>3, <3>1 DEF Source, Known
  <2> QED
    BY <2>1, <2>2, <2>3
<1>3. nvs'[Request] \in Known
  <2>1. nvs' = [nvs EXCEPT ![Order[mutex.at]] = Source[Order[mutex.at]]]
    BY DEF Write
  <2>2. nvs'[Request] \in {nvs[Request], Source[Request]}
    BY <1>1, <2>1 DEF IInv, ResetInv
  <2> QED
    BY <1>2, <2>2 DEF KnownInv
<1>4. mutex'.at <= Len(ResetOrder) + 1
  <2>1. mutex.at \in Nat /\ mutex'.at = mutex.at + 1
    BY DEF Write, IInv, ResetInv
  <2>2. Len(Order) <= Len(ResetOrder) /\ Len(Order) \in Nat
    <3>1. WriteOrder \in Seq(Names) /\ << Bright >> \in Seq(Names) /\ Len(<< Bright >>) = 1
      BY WriteKeys, ShortOrders
    <3>2. Len(ResetOrder) = Len(WriteOrder) + 1
      BY <3>1 DEF ResetOrder
    <3> QED
      BY <3>2, Orders, ResetLength DEF Order
  <2>3. mutex.at <= Len(Order)
    BY DEF Write
  <2> QED
    BY <2>1, <2>2, <2>3, ResetLength
<1>5. UNCHANGED << ram, portal, voice >>
  BY DEF Write
<1> QED
  BY <1>3, <1>4, <1>5 DEF KnownInv, Laid

LEMMA StepKnown ==
  ASSUME IInv, KnownInv, [Next]_vars
  PROVE  KnownInv'
<1>0. /\ mutex.at <= Len(ResetOrder) + 1 /\ Free.at <= Len(ResetOrder) + 1
      /\ nvs[Request] \in Known /\ ram[Request] \in Known /\ voice.task \in Known /\ "" \in Known
      /\ Laid => portal.next[Request] \in Known
      /\ Handler(portal) /\ voice = [pc |-> voice.pc, task |-> voice.task]
      /\ ram = [f \in Fields |-> ram[f]] /\ nvs = [f \in Kept |-> nvs[f]]
  <2>1. Free.at <= Len(ResetOrder) + 1
    BY ResetLength DEF Free
  <2>2. "" \in Known
    BY DEF Known
  <2>3. /\ Handler(portal) /\ voice = [pc |-> voice.pc, task |-> voice.task]
        /\ ram = [f \in Fields |-> ram[f]] /\ nvs = [f \in Kept |-> nvs[f]]
    BY DEF IInv, ResetInv, CallerInv, RecordInv, Regular
  <2> QED
    BY <2>1, <2>2, <2>3 DEF KnownInv
<1>1. Request \in Fields /\ Turn \in Fields /\ Request # Turn /\ Request \in Kept /\ Request # Bright
  BY Orders, FieldNames, KeptFields
<1>2. CASE UNCHANGED vars
  BY <1>0, <1>2 DEF KnownInv, Laid
<1>3. ASSUME NEW form \in Forms, Post(form) PROVE KnownInv'
  <2>1. /\ portal' = [pc |-> "post", next |-> Filled(ram, form), copied |-> 0]
        /\ UNCHANGED << nvs, ram, mutex, voice >>
    BY <1>3 DEF Post
  <2>2. Filled(ram, form)[Request] = ram[Request]
    BY FilledFields DEF Ids
  <2>3. portal'.next[Request] \in Known
    BY <1>0, <2>1, <2>2
  <2> QED
    BY <1>0, <2>1, <2>3 DEF KnownInv
<1>4. CASE Reset \/ PostSaves \/ VoiceSaves
  <2>1. UNCHANGED << nvs, ram >> /\ (mutex' = mutex \/ mutex'.at = 1)
    <3>1. ASSUME NEW who, mutex' = [who |-> who, at |-> 1] PROVE mutex'.at = 1
      BY <3>1
    <3> QED
      BY <1>4, <3>1 DEF Reset, PostSaves, VoiceSaves
  <2>2. voice'.task \in Known
    <3>1. CASE voice' = voice
      BY <1>0, <3>1
    <3>2. CASE voice' = [voice EXCEPT !.pc = "saving"]
      BY <1>0, <3>2
    <3>3. CASE voice' = [pc |-> "idle", task |-> ""]
      BY <1>0, <3>3
    <3> QED
      BY <1>4, <3>1, <3>2, <3>3 DEF Reset, PostSaves, VoiceSaves
  <2>3. Laid' => portal'.next[Request] \in Known
    <3>1. CASE portal' = portal
      BY <1>0, <3>1 DEF Laid
    <3>2. CASE Reset
      <4>1. portal' = [portal EXCEPT !.pc = "resetting"]
        BY <3>2 DEF Reset
      <4> QED
        BY <1>0, <4>1 DEF Laid, Handler
    <3>3. CASE PostSaves
      <4>1. portal.pc = "post" /\ portal' = [portal EXCEPT !.pc = "saving"]
        BY <3>3 DEF PostSaves
      <4> QED
        BY <1>0, <4>1 DEF Laid, Handler
    <3> QED
      BY <1>4, <3>1, <3>2, <3>3 DEF VoiceSaves
  <2>4. mutex'.at <= Len(ResetOrder) + 1
    <3>1. 1 <= Len(ResetOrder) + 1
      BY ResetLength
    <3> QED
      BY <1>0, <2>1, <3>1
  <2> QED
    BY <1>0, <2>1, <2>2, <2>3, <2>4 DEF KnownInv
<1>5. CASE Write
  BY <1>5, WriteKnown
<1>6. CASE Saved \/ WriteFails
  <2>1. UNCHANGED << nvs, ram >> /\ mutex' = Free
    BY <1>6 DEF Saved, WriteFails
  <2>2. voice'.task \in Known
    <3>1. CASE voice' = voice
      BY <1>0, <3>1
    <3>2. CASE voice' = [voice EXCEPT !.pc = "idle"]
      BY <1>0, <3>2
    <3>3. CASE voice' = [pc |-> "idle", task |-> ""]
      BY <1>0, <3>3
    <3> QED
      BY <1>6, <3>1, <3>2, <3>3 DEF Saved, WriteFails
  <2>3. Laid' => portal'.next[Request] \in Known
    <3>1. CASE portal' = portal
      BY <1>0, <3>1 DEF Laid
    <3>2. CASE portal' = [portal EXCEPT !.pc = "answered"]
      BY <1>0, <3>2 DEF Laid, Handler
    <3>3. CASE portal' = Idle
      BY <3>3 DEF Laid, Idle
    <3>4. CASE mutex.who = "portal" /\ portal' = [portal EXCEPT !.pc = "copying"]
      <4>1. Laid
        BY <3>4 DEF IInv, CallerInv, Laid
      <4>2. portal'.next = portal.next
        BY <1>0, <3>4 DEF Handler
      <4> QED
        BY <1>0, <4>1, <4>2
    <3> QED
      BY <1>6, <3>1, <3>2, <3>3, <3>4 DEF Saved, WriteFails
  <2> QED
    BY <1>0, <2>1, <2>2, <2>3 DEF KnownInv
<1>7. CASE Copy
  <2>1. PICK f : ram' = [ram EXCEPT ![f] = portal.next[f]]
    BY <1>7 DEF Copy
  <2>2. /\ portal.pc = "copying" /\ portal' = [portal EXCEPT !.copied = @ + 1]
        /\ UNCHANGED << nvs, mutex, voice >>
    BY <1>7 DEF Copy
  <2>3. ram'[Request] \in {ram[Request], portal.next[Request]}
    BY <1>0, <1>1, <2>1
  <2>4. portal'.next = portal.next
    BY <1>0, <2>2 DEF Handler
  <2> QED
    BY <1>0, <2>2, <2>3, <2>4 DEF KnownInv, Laid
<1>8. CASE Answer
  <2>1. portal' = [portal EXCEPT !.pc = "answered"] /\ UNCHANGED << nvs, ram, mutex, voice >>
    BY <1>8 DEF Answer
  <2>2. ~Laid'
    BY <1>0, <2>1 DEF Laid, Handler
  <2> QED
    BY <1>0, <2>1, <2>2 DEF KnownInv
<1>9. ASSUME NEW request \in Known, NEW turn, NEW task \in Known, Assigns(request, turn, task)
      PROVE  KnownInv'
  <2>1. /\ ram' = [ram EXCEPT ![Request] = request, ![Turn] = turn]
        /\ voice' = [pc |-> "save", task |-> task] /\ UNCHANGED << nvs, mutex, portal >>
    BY <1>9 DEF Assigns
  <2>2. ram'[Request] = request /\ voice'.task = task
    BY <1>0, <1>1, <2>1
  <2> QED
    BY <1>0, <1>9, <2>1, <2>2 DEF KnownInv, Laid
<1>10. CASE (\E r \in Requests : BeginTurnRequest(r)) \/ SaveTurnId \/ ClearIds
  <2>1. Requests \subseteq Known
    BY DEF Known
  <2> QED
    BY <1>0, <1>9, <1>10, <2>1 DEF BeginTurnRequest, SaveTurnId, ClearIds
<1>11. CASE TurnFails
  <2>1. voice' = [voice EXCEPT !.task = ""] /\ UNCHANGED << nvs, ram, mutex, portal >>
    BY <1>11 DEF TurnFails
  <2>2. voice'.task = ""
    BY <1>0, <2>1
  <2> QED
    BY <1>0, <2>1, <2>2 DEF KnownInv, Laid
<1>12. ASSUME NEW new \in 0..1, Dim(new) PROVE KnownInv'
  <2>1. nvs' = [nvs EXCEPT ![Bright] = new] /\ UNCHANGED << ram, mutex, portal, voice >>
    BY <1>12 DEF Dim
  <2>2. nvs'[Request] = nvs[Request]
    BY <1>1, <2>1
  <2> QED
    BY <1>0, <2>1, <2>2 DEF KnownInv, Laid
<1>13. CASE Restart \/ PowerCut
  <2>1. /\ ram' = Loaded /\ mutex' = Free /\ portal' = Idle /\ nvs' = nvs
        /\ voice' = [pc |-> "idle", task |-> IF Valid(Loaded) THEN Loaded[Request] ELSE ""]
    BY <1>13 DEF Restart, PowerCut, Boots
  <2>2. Loaded[Request] \in Known
    BY <1>0, KnownLoad DEF Loaded
  <2>3. ~Laid' /\ voice'.task \in Known
    BY <1>0, <2>1, <2>2 DEF Laid, Idle
  <2> QED
    BY <1>0, <2>1, <2>2, <2>3 DEF KnownInv
<1> QED
  BY <1>2, <1>3, <1>4, <1>5, <1>6, <1>7, <1>8, <1>10, <1>11, <1>12, <1>13 DEF Next

(* The record always has its fields, a sleep time in its range and a base  *)
(* address; a save in progress has its caller and stops behind its last    *)
(* key; the request of a turn was made here or by an older firmware        *)
(* (voice_settings.c:107-263, main.c:313-320).                             *)
THEOREM SettingsTypeCorrect == Spec => []SettingsTypeOK
<1>1. IInv /\ KnownInv => SettingsTypeOK
  <2> SUFFICES ASSUME IInv, KnownInv PROVE SettingsTypeOK
    OBVIOUS
  <2>1. mutex.at \in Nat \ {0} /\ mutex.at <= Len(ResetOrder) + 1 /\ mutex.who \in Savers
    BY DEF IInv, ResetInv, KnownInv
  <2>2. mutex.at \in 1..(Len(ResetOrder) + 1)
    BY <2>1, ResetLength
  <2>3. DOMAIN nvs = Kept /\ DOMAIN ram = Fields
    BY DEF IInv, ResetInv, RecordInv, Regular
  <2> QED
    BY <2>1, <2>2, <2>3 DEF SettingsTypeOK, IInv, CallerInv, RecordInv, Regular, KnownInv, Known, Savers
<1> QED
  BY Always, InitKnown, StepKnown, <1>1, PTL DEF Spec
=============================================================================
