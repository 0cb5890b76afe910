------------------------------ MODULE Settings ------------------------------
(***************************************************************************)
(* The settings of the dictaphone: one record in RAM (voice_settings of    *)
(* main.c) that the main loop, the voice task and the configuration page   *)
(* share, and its copy in NVS, which voice_settings.c writes one key after *)
(* the other.  A power cut or a failed write may end a save after any key, *)
(* and the page copies an accepted form back into the shared record with   *)
(* no lock.                                                                *)
(*                                                                         *)
(* A settings value is a function of its fields.  A secret is named after  *)
(* what it opens: the password of a network is the network's name, the     *)
(* token of a gateway the gateway's.  The five WireGuard texts and the     *)
(* port, valid or not together, are the one field Key.                     *)
(***************************************************************************)
EXTENDS Naturals, Sequences

CONSTANTS
  Slots,          \* VOICE_WIFI_PROFILE_COUNT
  Legacy,         \* an old full address |-> its base address
  Factory,        \* the compiled-in VOICE_GATEWAY_URL
  Requests,       \* UUIDs that esp_fill_random may give
  Stored,         \* what NVS may hold when the device is first switched on
  Forms,          \* the forms a browser may send
  MaxEvents       \* bound: forms, resets, power cuts and failed writes

VARIABLES
  nvs,            \* the keys of namespace "hermes"
  ram,            \* voice_settings
  mutex,          \* settings_mutex: who saves, and the key it writes next
  reset_pending,
  portal,         \* the configuration page's handler: pc, next, copied
  voice,          \* main loop and voice task: pc, request of the open turn
  used, events,
  promised,       \* history: the settings that were last saved for the page
  torn,           \* history: the last save has failed
  disturbed       \* history: a boot has met a torn save, or two saves crossed

vars == << nvs, ram, mutex, reset_pending, portal, voice, 
           used, events, promised, torn, disturbed >>

SleepDefault == 30
SleepMin == 5
SleepMax == 3600

Ssid(i) == << "ssid", i >>
Pass(i) == << "password", i >>
Key == << "wg_key" >>
Psk == << "wg_psk" >>
On == << "wg_enabled" >>
Gateway == << "gateway_url" >>
Token == << "device_token" >>
Request == << "request_id" >>
Turn == << "turn_id" >>
Sleep == << "sleep_seconds" >>
Bright == << "lcd_brightness" >>

Profiles == [n \in 1..(2 * Slots) |-> IF n % 2 = 1 THEN Ssid((n + 1) \div 2)
                                                   ELSE Pass(n \div 2)]

WriteOrder == << Key, Psk >> \o Profiles
              \o << Gateway, Token, Request, Turn, Sleep, On >>

ResetOrder == WriteOrder \o << Bright >>

CopyOrder == << On, Key, Psk >> \o Profiles
             \o << Gateway, Token, Sleep, Request, Turn >>

Kept == {ResetOrder[n] : n \in 1..Len(ResetOrder)}
Fields == Kept \ {Bright}

Ids == {Request, Turn}

Unwritten == "unset"

\* Unwritten is no text, and no address is stored with two of the old paths: a
\* migrated one is a base address.
ASSUME SettingsAssumption ==
  /\ Slots \in Nat \ {0}
  /\ \A old \in Stored : old = [f \in Kept |-> old[f]]
  /\ Unwritten \notin Requests \cup {Factory}
  /\ \A form \in Forms :
       /\ Unwritten \notin {form.gateway, form.key, form.psk}
       /\ \A i \in 1..Slots : form.ssid[i] # Unwritten
  /\ "" \notin DOMAIN Legacy
  /\ \A url \in DOMAIN Legacy : Legacy[url] \notin DOMAIN Legacy \cup {Unwritten}

-----------------------------------------------------------------------------
\* What the code computes from one settings value.

Empty == [f \in Fields |-> CASE f = Sleep -> SleepDefault
                             [] f = On -> FALSE
                             [] OTHER -> ""]

Defaults == [Empty EXCEPT ![Gateway] = Factory]

Clean == [f \in Kept |-> IF f = Bright THEN 0 ELSE Empty[f]]

\* A key that no save has written yet.
Unset == [f \in Kept |-> CASE f \in {Sleep, Bright} -> 0
                           [] f = On -> FALSE
                           [] OTHER -> Unwritten]

Migrated(url) == IF url \in DOMAIN Legacy THEN Legacy[url] ELSE url

Load(keys) ==
  LET read == [f \in Fields |-> IF keys[f] = Unset[f] THEN Defaults[f] ELSE keys[f]]
  IN  [read EXCEPT ![Gateway] = Migrated(@),
                   ![Sleep] = IF @ \in SleepMin..SleepMax THEN @ ELSE SleepDefault]

Loaded == Load(nvs)

Paired(s) ==
  /\ \A i \in 1..Slots : s[Pass(i)] \in {"", s[Ssid(i)]}
  /\ s[Token] \in {"", s[Gateway]}
  /\ s[Turn] \in {"", s[Request]}

\* An older firmware has left every secret with what it opens.
ASSUME StoredAssumption == \A old \in Stored : Paired(Load(old))

\* voice_wireguard_valid: the settings of a VPN that is off are not looked at.
WireguardValid(s) == s[On] => s[Key] = "key" /\ s[Psk] \in {"", "psk"}

ProfilesValid(s) ==
  /\ \E i \in 1..Slots : s[Ssid(i)] # ""
  /\ \A i \in 1..Slots : /\ s[Ssid(i)] = "" => s[Pass(i)] = ""
                         /\ s[Pass(i)] # "short"
  /\ \A i, j \in 1..Slots : s[Ssid(i)] = s[Ssid(j)] /\ s[Ssid(i)] # "" => i = j

\* The gateway's address is a base address: voice_turn_build_upload_url takes no
\* other.
Valid(s) ==
  /\ WireguardValid(s)
  /\ ProfilesValid(s)
  /\ s[Gateway] \notin {""} \cup DOMAIN Legacy
  /\ s[Token] # ""

\* An empty input leaves the field as it is; an empty SSID forgets the network.
Typed(new, old) == IF new = "" THEN old ELSE new

Password(s, form, i) ==
  IF form.ssid[i] = "" \/ form.open[i] THEN ""
  ELSE Typed(form.password[i], s[Pass(i)])

Filled(s, form) ==
  [f \in Fields |->
     CASE f[1] = "ssid" -> form.ssid[f[2]]
       [] f[1] = "password" -> Password(s, form, f[2])
       [] f = Key -> Typed(form.key, s[Key])
       [] f = Psk -> IF form.clear_psk THEN "" ELSE Typed(form.psk, s[Psk])
       [] f = On -> form.on
       [] f = Gateway -> Typed(form.gateway, s[Gateway])
       [] f = Token -> Typed(form.token, s[Token])
       [] f = Sleep -> form.sleep
       [] OTHER -> s[f]]

\* Slip: a password is asked for only where no network was.
AsksOnce(s, form, i) ==
  /\ form.ssid[i] # "" /\ s[Ssid(i)] = ""
  /\ ~form.open[i]
  /\ form.password[i] = ""

\* A network that changes its name needs its password, a gateway its token.
NeedsPassword(s, form, i) ==
  /\ form.ssid[i] \notin {"", s[Ssid(i)]}
  /\ ~form.open[i]
  /\ form.password[i] = ""

Accepts(s, form) ==
  /\ form.sleep \in SleepMin..SleepMax
  /\ \A i \in 1..Slots : ~NeedsPassword(s, form, i)
  /\ form.gateway \notin {"", s[Gateway]} => form.token # ""
  /\ Valid(Filled(s, form))

Config(s) == [f \in Fields \ Ids |-> s[f]]

-----------------------------------------------------------------------------
Free == [who |-> "nobody", at |-> 1]
Idle == [pc |-> "idle", next |-> Empty, copied |-> 0]

\* voice_settings_load at boot; the voice task resumes a saved request.
Boots(mem) ==
  /\ ram' = mem
  /\ mutex' = Free
  /\ reset_pending' = FALSE
  /\ portal' = Idle
  /\ voice' = [pc |-> "idle", task |-> IF Valid(mem) THEN mem[Request] ELSE ""]
  /\ torn' = FALSE
  /\ disturbed' = (disturbed \/ torn \/ mutex # Free)

Init ==
  /\ nvs \in Stored
  /\ ram = Loaded
  /\ mutex = Free /\ reset_pending = FALSE /\ portal = Idle
  /\ voice = [pc |-> "idle", task |-> IF Valid(ram) THEN ram[Request] ELSE ""]
  /\ used = {} /\ events = 0
  /\ promised = Config(ram) /\ torn = FALSE /\ disturbed = FALSE

\* The user types the password of the network, the token of the gateway.
Honest(s, form) ==
  /\ \A i \in 1..Slots : form.password[i] \in {"", "short", form.ssid[i]}
  /\ form.token \in {"", Typed(form.gateway, s[Gateway])}

\* h_config_post up to the save: the form is laid over a copy of the record.
Post(form) ==
  /\ portal.pc = "idle" /\ events < MaxEvents
  /\ Honest(ram, form)
  /\ Accepts(ram, form)
  /\ portal' = [pc |-> "post", next |-> Filled(ram, form), copied |-> 0]
  /\ events' = events + 1
  /\ UNCHANGED << nvs, ram, mutex, reset_pending, voice,
                  used, promised, torn, disturbed >>

\* h_config_reset.
Reset ==
  /\ portal.pc = "idle" /\ events < MaxEvents
  /\ mutex = Free
  /\ mutex' = [who |-> "reset", at |-> 1]
  /\ portal' = [portal EXCEPT !.pc = "resetting"]
  /\ events' = events + 1
  /\ UNCHANGED << nvs, ram, reset_pending, voice,
                  used, promised, torn, disturbed >>

\* Slip: the record in RAM changes before the save has succeeded.
CopiesFirst ==
  /\ portal.pc = "post" /\ mutex = Free
  /\ mutex' = [who |-> "portal", at |-> 1]
  /\ portal' = [portal EXCEPT !.pc = "saving"]
  /\ ram' = portal.next
  /\ UNCHANGED << nvs, reset_pending, voice,
                  used, events, promised, torn, disturbed >>

\* voice_settings_save takes the mutex; no save follows a reset.
PostSaves ==
  /\ portal.pc = "post" /\ mutex = Free
  /\ mutex' = [who |-> "portal", at |-> 1]
  /\ portal' = [portal EXCEPT !.pc = "saving"]
  /\ UNCHANGED << nvs, ram, reset_pending, voice,
                  used, events, promised, torn, disturbed >>

\* Slip: a save after a reset goes through.
SavesAnyway ==
  /\ voice.pc = "save" /\ mutex = Free
  /\ mutex' = [who |-> "voice", at |-> 1]
  /\ voice' = [voice EXCEPT !.pc = "saving"]
  /\ UNCHANGED << nvs, ram, reset_pending, portal,
                  used, events, promised, torn, disturbed >>

VoiceSaves ==
  /\ voice.pc = "save" /\ mutex = Free
  /\ IF reset_pending
       THEN /\ voice' = [pc |-> "idle", task |-> ""]
            /\ UNCHANGED mutex
       ELSE /\ mutex' = [who |-> "voice", at |-> 1]
            /\ voice' = [voice EXCEPT !.pc = "saving"]
  /\ UNCHANGED << nvs, ram, reset_pending, portal,
                  used, events, promised, torn, disturbed >>

Source == CASE mutex.who = "portal" -> portal.next
            [] mutex.who = "voice" -> ram
            [] OTHER -> Clean

Order == IF mutex.who = "reset" THEN ResetOrder ELSE WriteOrder

\* save_unlocked: one nvs_set at a time.
Write ==
  /\ mutex # Free
  /\ mutex.at <= Len(Order)
  /\ nvs' = [nvs EXCEPT ![Order[mutex.at]] = Source[Order[mutex.at]]]
  /\ mutex' = [mutex EXCEPT !.at = @ + 1]
  /\ disturbed' = (disturbed \/ (mutex.who = "voice" /\ portal.pc = "copying"))
  /\ UNCHANGED << ram, reset_pending, portal, voice,
                  used, events, promised, torn >>

\* The save returns ESP_OK, and its caller goes on.
Saved ==
  /\ mutex # Free
  /\ mutex.at > Len(Order)
  /\ mutex' = Free
  /\ reset_pending' = (reset_pending \/ mutex.who = "reset")
  /\ promised' = IF mutex.who = "voice" THEN promised ELSE Config(Source)
  /\ CASE mutex.who = "voice" ->
            /\ voice' = [voice EXCEPT !.pc = "idle"]
            /\ UNCHANGED portal
       [] mutex.who = "portal" ->
            /\ portal' = [portal EXCEPT !.pc = "copying"]
            /\ UNCHANGED voice
       [] OTHER ->
            /\ portal' = [portal EXCEPT !.pc = "answered"]
            /\ UNCHANGED voice
  /\ torn' = FALSE
  /\ UNCHANGED << nvs, ram, used, events, disturbed >>

\* nvs_set or nvs_commit fails: the page answers 500, the turn ends in an error.
WriteFails ==
  /\ mutex # Free /\ events < MaxEvents
  /\ mutex' = Free
  /\ IF mutex.who = "voice"
       THEN /\ voice' = [pc |-> "idle", task |-> ""]
            /\ UNCHANGED portal
       ELSE /\ portal' = Idle
            /\ UNCHANGED voice
  /\ events' = events + 1
  /\ torn' = TRUE
  /\ UNCHANGED << nvs, ram, reset_pending, used, promised, disturbed >>

\* *s_settings = next, with no lock.
Copy ==
  /\ portal.pc = "copying"
  /\ portal.copied < Len(CopyOrder)
  /\ LET f == CopyOrder[portal.copied + 1] IN ram' = [ram EXCEPT ![f] = portal.next[f]]
  /\ portal' = [portal EXCEPT !.copied = @ + 1]
  /\ UNCHANGED << nvs, mutex, reset_pending, voice,
                  used, events, promised, torn, disturbed >>

\* 202: the page shows that the settings are saved.
Answer ==
  /\ portal.pc = "copying"
  /\ portal.copied = Len(CopyOrder)
  /\ portal' = [portal EXCEPT !.pc = "answered"]
  /\ UNCHANGED << nvs, ram, mutex, reset_pending, voice,
                  used, events, promised, torn, disturbed >>

\* An id changes in RAM: crossed if a form is already laid over its old value.
Assigns(request, turn, task) ==
  /\ ram' = [ram EXCEPT ![Request] = request, ![Turn] = turn]
  /\ voice' = [pc |-> "save", task |-> task]
  /\ disturbed' = (disturbed \/ portal.pc \in {"post", "saving", "copying"})
  /\ UNCHANGED << nvs, mutex, reset_pending, portal, events, promised, torn >>

\* begin_turn_request, when recording_start finds no open task.
BeginTurnRequest(r) ==
  /\ voice.pc = "idle" /\ voice.task = ""
  /\ Valid(ram)
  /\ r \notin used
  /\ Assigns(r, "", r)
  /\ used' = used \cup {r}

\* turn_save_id.
SaveTurnId ==
  /\ voice.pc = "idle" /\ voice.task # ""
  /\ ram[Turn] # voice.task
  /\ Assigns(ram[Request], voice.task, voice.task)
  /\ UNCHANGED used

\* turn_clear_ids.
ClearIds ==
  /\ voice.pc = "idle" /\ voice.task # ""
  /\ Assigns("", "", "")
  /\ UNCHANGED used

\* The turn fails and keeps its ids.
TurnFails ==
  /\ voice.pc = "idle" /\ voice.task # ""
  /\ voice' = [voice EXCEPT !.task = ""]
  /\ UNCHANGED << nvs, ram, mutex, reset_pending, portal,
                  used, events, promised, torn, disturbed >>

\* voice_settings_save_brightness, after a short click of KEY2.
Dim(new) ==
  /\ mutex = Free /\ ~reset_pending
  /\ nvs' = [nvs EXCEPT ![Bright] = new]
  /\ UNCHANGED << ram, mutex, reset_pending, portal, voice,
                  used, events, promised, torn, disturbed >>

\* esp_restart 250 ms after the answer; by then a save may be running.
Restart ==
  /\ portal.pc = "answered"
  /\ Boots(Loaded)
  /\ UNCHANGED << nvs, used, events, promised >>

PowerCut ==
  /\ events < MaxEvents
  /\ Boots(Loaded)
  /\ events' = events + 1
  /\ UNCHANGED << nvs, used, promised >>

Next ==
  \/ \E form \in Forms : Post(form)
  \/ Reset \/ PostSaves \/ VoiceSaves \/ Write \/ Saved \/ WriteFails
  \/ Copy \/ Answer
  \/ \E r \in Requests : BeginTurnRequest(r)
  \/ SaveTurnId \/ ClearIds \/ TurnFails
  \/ \E new \in 0..1 : Dim(new)
  \/ Restart \/ PowerCut

Spec == Init /\ [][Next]_vars

-----------------------------------------------------------------------------
\* Every variable keeps to its type, a save in progress has its caller, and the
\* request of a turn was made here or by an older firmware.
SettingsTypeOK ==
  /\ DOMAIN nvs = Kept /\ DOMAIN ram = Fields
  /\ ram[Sleep] \in SleepMin..SleepMax
  /\ ram[Gateway] \notin DOMAIN Legacy
  /\ mutex.who \in {"nobody", "portal", "voice", "reset"}
  /\ mutex.at \in 1..(Len(ResetOrder) + 1)
  /\ portal.pc \in {"idle", "post", "saving", "resetting", "copying", "answered"}
  /\ voice.pc \in {"idle", "save", "saving"}
  /\ mutex.who = "portal" <=> portal.pc = "saving"
  /\ mutex.who = "reset" <=> portal.pc = "resetting"
  /\ mutex.who = "voice" <=> voice.pc = "saving"
  /\ voice.task \in {""} \cup Requests \cup {old[Request] : old \in Stored}

(* Once a reset has succeeded nothing brings an old value back before the  *)
(* restart, whatever the voice task and KEY2 still try to save: the        *)
(* credentials, the turn and the brightness stay at their clean values     *)
(* (voice_settings.c:259, reset_pending).                                  *)
ResetSticks == reset_pending => nvs = Clean

Quiet == mutex = Free /\ portal.pc = "idle" /\ voice.pc = "idle"

(* What the next boot will load is what the device works with, and apart   *)
(* from the ids it is what the page last saved: the page and the voice     *)
(* task, which save the whole record by turns, lose neither a setting nor  *)
(* an id, unless a save was cut or an id changed while a form was being    *)
(* saved (voice_settings.c:166-220, voice_config_httpd.c:439-448).         *)
NothingLost ==
  Quiet /\ ~torn /\ ~disturbed => Loaded = ram /\ Config(ram) = promised

(* No password is used for another network than its own, no token is sent  *)
(* to another gateway and no turn id stands for another request, over any  *)
(* forms that keep some secrets and replace others                         *)
(* (voice_config_form.c:106-111, main.c:317-318).                          *)
SecretsStayPaired ==
  ~torn /\ ~disturbed /\ mutex = Free /\ portal.pc # "copying" => Paired(ram) /\ Paired(Loaded)
=============================================================================
