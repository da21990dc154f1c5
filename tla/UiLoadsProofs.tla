---------------------------- MODULE UiLoadsProofs ----------------------------
(***************************************************************************)
(* Theorems about UiLoads: what a detail page shows is of the id in its    *)
(* URL, for any ids, any of the loads and any bounds.                      *)
(***************************************************************************)
EXTENDS UiLoads, TLAPS

\* The load of a root certificate is the only one whose id is the settings' root;
\* it drops what is of another id, keeps it after an error, and no write puts
\* content there.  A load that is only read has its id from the URL.
LEMMA LoadKinds ==
  ASSUME NEW l \in AllLoads
  PROVE  /\ l.via \in {"url", "object", "root", "cert"}
         /\ l.via = "root" => /\ l.cancels /\ l.begin = "foreign" /\ l.fail = "keep"
                              /\ l.writes = "settings" /\ l.polls = "no"
         /\ l.via = "cert" => l.polls = "no"
         /\ l.writes \in {"no", "own", "refetch", "settings", "none"}
         /\ l.via = "object" => l.writes = "own"
         /\ l.polls # "no" /\ l.cancels => l.writes = "refetch"
  <1>1. CASE l \in {networkInfo, connectionOptions, journal, certMaterialSummary}
    BY <1>1 DEF networkInfo, connectionOptions, journal, certMaterialSummary
  <1>2. CASE l \in {openvpnSettings, rawConfig, openvpnMaterials}
    <2>1. CASE l = openvpnSettings
      BY <2>1 DEF networkInfo, connectionOptions, openvpnSettings
    <2>2. CASE l = rawConfig
      BY <2>2 DEF networkInfo, connectionOptions, rawConfig
    <2>3. CASE l = openvpnMaterials
      BY <2>3 DEF networkInfo, connectionOptions, openvpnMaterials
    <2>4. QED
      BY <1>2, <2>1, <2>2, <2>3
  <1>3. CASE l \in {servicesAndDns, serverFirewall, userSessions}
    BY <1>3 DEF networkInfo, connectionOptions, servicesAndDns, serverFirewall, userSessions
  <1>4. CASE l \in {tasks, backups, adminProfile}
    BY <1>4 DEF networkInfo, connectionOptions, tasks, backups, adminProfile
  <1>5. CASE l = rootCaSummary
    BY <1>5 DEF networkInfo, rootCaSummary
  <1>6. CASE l = serverCertMaterials
    BY <1>6 DEF networkInfo, connectionOptions, serverCertMaterials
  <1>7. QED
    BY <1>1, <1>2, <1>3, <1>4, <1>5, <1>6 DEF AllLoads

\* The versions an answer can have.
LEMMA Versions == 0 \in 0..MaxVersion /\ 1..MaxVersion \subseteq 0..MaxVersion
                  /\ 1 \in 1..MaxVersion
  BY LoadsAssumption

LEMMA InitLoadInv == Init => LoadInv
  <1> SUFFICES ASSUME Init PROVE LoadInv
    OBVIOUS
  <1>1. db \in [Subjects -> 1..MaxVersion]
    BY Versions DEF Init
  <1>2. moves \in 0..MaxMoves /\ fails \in 0..MaxFails
    BY LoadsAssumption DEF Init
  <1>3. box \in Content
    BY Versions DEF Init, Content, Empty
  <1>4. open \in BOOLEAN /\ misdirected \in BOOLEAN /\ hidden \in BOOLEAN
    BY DEF Init
  <1>5. settings \in Settings
    BY DEF Init, Settings
  <1>6. TypeOK
    BY <1>1, <1>2, <1>3, <1>4, <1>5 DEF Init, TypeOK
  <1>7. QED
    BY <1>6 DEF Init, LoadInv, LiveIsWanted, ReadsOnly, AskedIsSelected, SettingsAreOfSelected,
                RootIsOfSettings, AnswerIsOfSelected

\* A GET that is sent is a live one, for s.
LEMMA SendGetAdds ==
  ASSUME NEW gs \in SUBSET Get, NEW s \in Subjects, NEW by \in {"effect", "write"},
         SendGet(gs, s, by)
  PROVE  /\ gets' \in SUBSET Get
         /\ \A g \in gets' : g \in gs \/ g.of = s
  <1>1. PICK i \in FreeIds(gs) :
           gets' = gs \cup {[id |-> i, of |-> s, ver |-> 0, by |-> by, live |-> TRUE]}
    BY DEF SendGet
  <1>2. i \in 1..MaxGets
    BY DEF FreeIds
  <1>3. [id |-> i, of |-> s, ver |-> 0, by |-> by, live |-> TRUE] \in Get
    BY <1>2, Versions DEF Get
  <1>4. gets' \in SUBSET Get
    BY <1>1, <1>3
  <1>5. \A g \in gets' : g \in gs \/ g.of = s
    BY <1>1
  <1>6. QED
    BY <1>4, <1>5

\* A GET that the effect sends is the effect's.
LEMMA EffectGet ==
  ASSUME NEW gs \in SUBSET Get, NEW s, SendGet(gs, s, "effect")
  PROVE  \A g \in gets' : g \in gs \/ g.by = "effect"
  BY DEF SendGet

\* The cleanup leaves GETs of the same kind, and of a load whose GETs are all
\* the effect's no live one.
LEMMA CleanupKills ==
  ASSUME TypeOK, LiveIsWanted
  PROVE  /\ Cleanup \in SUBSET Get
         /\ Cancelling => \A g \in Cleanup : g.by = "effect" /\ ~g.live
  <1>1. \A g \in gets : g \in Get /\ [g EXCEPT !.live = FALSE] \in Get
    BY DEF TypeOK, Get
  <1>2. Cleanup \in SUBSET Get
    BY <1>1 DEF Cleanup
  <1>3. ASSUME Cancelling, NEW h \in Cleanup PROVE h.by = "effect" /\ ~h.live
    <2>1. PICK g \in gets : h = [g EXCEPT !.live = FALSE] /\ g.by = "effect"
      BY <1>3 DEF Cleanup, Cancelling, LiveIsWanted
    <2>2. h.by = g.by /\ h.live = FALSE
      BY <1>1, <2>1 DEF Get
    <2>3. QED
      BY <2>1, <2>2
  <1>4. QED
    BY <1>2, <1>3

\* The id the effect asks for.
LEMMA WantedKinds ==
  ASSUME TypeOK, NEW k \in Subjects \cup {NoSubject}, NEW s \in Subjects
  PROVE  /\ Wanted(k, s) \in Subjects \cup {NoSubject}
         /\ load.via = "root" => Wanted(k, s) = k
         /\ load.via # "root" => Wanted(k, s) \in {s, NoSubject}
  BY DEF Wanted

\* The start of a load, beside GETs none of which is live.
LEMMA BeginInv ==
  ASSUME TypeOK, NEW gs \in SUBSET Get, Begin(gs, Wanted(settings'.of, subj')),
         Cancelling => \A g \in gs : g.by = "effect" /\ ~g.live,
         subj' \in Subjects, open' = TRUE, settings' \in Settings, load' = load,
         writes' \in SUBSET WriteReq, db' \in [Subjects -> 1..MaxVersion],
         hidden' \in BOOLEAN, moves' \in 0..MaxMoves, fails' \in 0..MaxFails,
         misdirected' \in BOOLEAN,
         ReadsOnly', AskedIsSelected', SettingsAreOfSelected'
  PROVE  LoadInv'
  <1> DEFINE s == Wanted(settings'.of, subj')
  <1>1. /\ s \in Subjects \cup {NoSubject}
        /\ load.via = "root" => s = settings'.of
        /\ load.via # "root" => s \in {subj', NoSubject}
    BY WantedKinds DEF Settings
  <1>2. Wanted(settings.of, subj)' = s
    BY DEF Wanted
  <1>3. load \in AllLoads
    BY LoadsAssumption DEF TypeOK
  <1> HIDE DEF s
  <1>4. CASE s = NoSubject
    <2>1. gets' = gs /\ status' = "idle" /\ box' = Empty
      BY <1>4 DEF Begin, s
    <2>2. TypeOK'
      BY <2>1, Versions DEF TypeOK, Content, Empty
    <2>3. LiveIsWanted'
      BY <2>1 DEF LiveIsWanted, Cancelling
    <2>4. RootIsOfSettings' /\ AnswerIsOfSelected'
      BY <2>1 DEF RootIsOfSettings, AnswerIsOfSelected, Empty
    <2>5. QED
      BY <2>2, <2>3, <2>4 DEF LoadInv
  <1>5. CASE s # NoSubject
    <2>1. /\ SendGet(gs, s, "effect") /\ status' = "loading"
          /\ box' = IF load.begin = "foreign" /\ box.of # s THEN Empty ELSE box
      BY <1>5 DEF Begin, s
    <2>2. /\ gets' \in SUBSET Get
          /\ \A g \in gets' : g \in gs \/ (g.by = "effect" /\ g.of = s)
      BY <1>1, <1>5, <2>1, SendGetAdds, EffectGet
    <2>3. TypeOK'
      BY <2>1, <2>2, Versions DEF TypeOK, Content, Empty
    <2>4. LiveIsWanted'
      BY <1>2, <2>2 DEF LiveIsWanted, Cancelling
    <2>5. AnswerIsOfSelected'
      BY <2>1 DEF AnswerIsOfSelected
    <2>6. RootIsOfSettings'
      BY <1>1, <1>3, <1>5, <2>1, LoadKinds DEF RootIsOfSettings
    <2>7. QED
      BY <2>3, <2>4, <2>5, <2>6 DEF LoadInv
  <1>6. QED
    BY <1>4, <1>5

\* A step that leaves page, settings and content alone, and adds no GET to a
\* load without one after writes but one of the effect.
LEMMA QuietInv ==
  ASSUME LoadInv, TypeOK', UNCHANGED <<load, open, subj, box, status, settings>>, ReadsOnly',
         Cancelling => \A g \in gets' : /\ g.by = "effect"
                                        /\ g.live => open /\ g.of = Wanted(settings.of, subj)
  PROVE  LoadInv'
  BY DEF LoadInv, LiveIsWanted, AskedIsSelected, SettingsAreOfSelected, RootIsOfSettings,
         AnswerIsOfSelected, Cancelling, Wanted

\* New settings: the effect runs again, or asks for the same id as before.
LEMMA SetSettingsInv ==
  ASSUME LoadInv, NEW new \in Settings, SetSettings(new), UNCHANGED <<load, open, subj>>,
         load.via # "url" /\ open => new.asked \in {subj, NoSubject},
         load.via # "url" /\ open /\ new.asked = NoSubject /\ ~new.stray =>
           new.of \in {subj, NoSubject},
         writes' \in SUBSET WriteReq, db' \in [Subjects -> 1..MaxVersion],
         hidden' \in BOOLEAN, moves' \in 0..MaxMoves, fails' \in 0..MaxFails,
         misdirected' \in BOOLEAN, ReadsOnly'
  PROVE  LoadInv'
  <1>1. TypeOK /\ LiveIsWanted /\ settings' = new
    BY DEF LoadInv, SetSettings
  <1>2. AskedIsSelected' /\ SettingsAreOfSelected'
    BY <1>1 DEF AskedIsSelected, SettingsAreOfSelected
  <1>3. CASE open /\ DependsOn(new)
    <2>1. Begin(Cleanup, Wanted(settings'.of, subj')) /\ open' = TRUE /\ subj' \in Subjects
      BY <1>1, <1>3 DEF SetSettings, TypeOK
    <2>2. /\ Cleanup \in SUBSET Get
          /\ Cancelling => \A g \in Cleanup : g.by = "effect" /\ ~g.live
      BY <1>1, CleanupKills
    <2>3. QED
      BY <1>1, <1>2, <2>1, <2>2, BeginInv
  <1>4. CASE ~(open /\ DependsOn(new))
    <2>1. UNCHANGED <<box, status, gets>>
      BY <1>4 DEF SetSettings
    <2>2. TypeOK'
      BY <1>1, <2>1 DEF TypeOK
    <2>3. open => Wanted(settings.of, subj)' = Wanted(settings.of, subj)
      BY <1>1, <1>4 DEF DependsOn, Wanted
    <2>4. LiveIsWanted'
      BY <1>1, <2>1, <2>3 DEF LiveIsWanted, Cancelling
    <2>5. open /\ load.via = "root" => settings'.of = settings.of
      BY <1>1, <1>4 DEF DependsOn
    <2>6. RootIsOfSettings' /\ AnswerIsOfSelected'
      BY <2>1, <2>5 DEF LoadInv, RootIsOfSettings, AnswerIsOfSelected, Cancelling
    <2>7. QED
      BY <1>2, <2>2, <2>4, <2>6 DEF LoadInv
  <1>5. QED
    BY <1>3, <1>4

\* What the effect of the settings asks for.
LEMMA AskSettingsKeeps ==
  ASSUME TypeOK, NEW s \in Subjects \cup {NoSubject}, AskSettings(s)
  PROVE  /\ settings' \in Settings
         /\ settings'.of = settings.of
         /\ load.via # "url" => settings'.asked = s
  BY DEF TypeOK, AskSettings, Settings

\* Every step keeps the invariant.
LEMMA NextLoadInv == ASSUME LoadInv, [Next]_vars PROVE LoadInv'
  <1> USE DEF Move, rest
  <1>1. /\ TypeOK /\ LiveIsWanted /\ ReadsOnly /\ load \in AllLoads
        /\ settings \in Settings /\ settings.of \in Subjects \cup {NoSubject}
    BY LoadsAssumption DEF LoadInv, TypeOK, Settings
  <1>2. Move => moves' \in 0..MaxMoves
    BY <1>1, LoadsAssumption DEF TypeOK
  <1>3. fails < MaxFails => fails + 1 \in 0..MaxFails
    BY <1>1, LoadsAssumption DEF TypeOK
  <1>4. ASSUME NEW s \in Subjects, Enter(s) \/ Switch(s) PROVE LoadInv'
    <2>1. /\ open' = TRUE /\ subj' = s /\ UNCHANGED rest /\ moves' \in 0..MaxMoves
          /\ settings' \in Settings /\ settings'.of = settings.of
          /\ load.via # "url" => settings'.asked = s
      BY <1>1, <1>2, <1>4, AskSettingsKeeps DEF Enter, Switch, TypeOK
    <2>2. AskedIsSelected' /\ SettingsAreOfSelected' /\ ReadsOnly'
      BY <1>1, <2>1, LoadsAssumption DEF AskedIsSelected, SettingsAreOfSelected, ReadsOnly
    <2>3. PICK gs \in SUBSET Get :
            /\ Begin(gs, Wanted(settings'.of, subj'))
            /\ Cancelling => \A g \in gs : g.by = "effect" /\ ~g.live
      <3>1. CASE Enter(s)
        <4>1. gets \in SUBSET Get /\ (Cancelling => \A g \in gets : g.by = "effect" /\ ~g.live)
          BY <1>1, <3>1 DEF Enter, TypeOK, LiveIsWanted
        <4>2. QED
          BY <2>1, <3>1, <4>1 DEF Enter
      <3>2. CASE Switch(s)
        BY <1>1, <2>1, <3>2, CleanupKills DEF Switch
      <3>3. QED
        BY <1>4, <3>1, <3>2
    <2>4. QED
      BY <1>1, <2>1, <2>2, <2>3, BeginInv DEF TypeOK
  <1>5. ASSUME NEW s \in Subjects, Elsewhere(s) PROVE LoadInv'
    <2>1. TypeOK' /\ ReadsOnly'
      BY <1>1, <1>5, LoadsAssumption DEF Elsewhere, TypeOK, ReadsOnly
    <2>2. QED
      BY <1>1, <1>5, <2>1, QuietInv DEF Elsewhere, LiveIsWanted
  <1>6. CASE Leave
    <2>1. /\ open' = FALSE /\ gets' = Cleanup /\ UNCHANGED <<subj, box, status, rest>>
          /\ settings' \in Settings
      BY <1>1, <1>6, AskSettingsKeeps DEF Leave
    <2>2. TypeOK'
      BY <1>1, <1>2, <1>6, <2>1, CleanupKills DEF Leave, TypeOK
    <2>3. Cancelling => \A g \in gets' : g.by = "effect" /\ ~g.live
      BY <1>1, <2>1, CleanupKills
    <2>4. QED
      BY <1>1, <2>1, <2>2, <2>3 DEF LoadInv, LiveIsWanted, ReadsOnly, AskedIsSelected,
         SettingsAreOfSelected, RootIsOfSettings, AnswerIsOfSelected, Cancelling
  <1>7. CASE SettingsArrive
    <2>1. PICK k \in {settings.asked, NoSubject} :
            SetSettings([of |-> k, asked |-> NoSubject, stray |-> FALSE])
      BY <1>7 DEF SettingsArrive
    <2>2. k \in Subjects \cup {NoSubject} /\ settings.asked # NoSubject
          /\ UNCHANGED <<open, subj, moves, rest>>
      BY <1>1, <1>7 DEF SettingsArrive, Settings
    <2>3. [of |-> k, asked |-> NoSubject, stray |-> FALSE] \in Settings
      BY <2>2 DEF Settings
    <2>4. load.via # "url" /\ open => k \in {subj, NoSubject}
      BY DEF LoadInv, AskedIsSelected
    <2>5. ReadsOnly'
      BY <1>1, <2>2 DEF ReadsOnly
    <2>6. QED
      BY <1>1, <2>1, <2>2, <2>3, <2>4, <2>5, SetSettingsInv DEF TypeOK
  <1>8. CASE Poll
    <2>1. ~Cancelling \/ load.via = "url"
      BY <1>1, <1>8, LoadKinds DEF Poll, Cancelling
    <2>2. /\ gets' \in SUBSET Get
          /\ \A g \in gets' : g \in gets \/ (g.by = "effect" /\ g.of = subj)
      BY <1>1, <1>8, SendGetAdds, EffectGet DEF Poll, TypeOK
    <2>3. TypeOK' /\ ReadsOnly'
      BY <1>1, <1>8, <2>2 DEF Poll, TypeOK, ReadsOnly
    <2>4. load.via = "url" => Wanted(settings.of, subj) = subj
      BY DEF Wanted
    <2>5. open /\ UNCHANGED <<load, open, subj, box, status, settings>>
      BY <1>8 DEF Poll
    <2>6. QED
      BY <1>1, <2>1, <2>2, <2>3, <2>4, <2>5, QuietInv DEF LiveIsWanted
  <1>9. CASE Hide \/ Unhide
    <2>1. hidden' \in BOOLEAN /\ UNCHANGED gets
      BY <1>9 DEF Hide, Unhide
    <2>2. TypeOK' /\ ReadsOnly'
      BY <1>1, <1>2, <1>9, <2>1 DEF Hide, Unhide, TypeOK, ReadsOnly
    <2>3. QED
      BY <1>1, <1>9, <2>1, <2>2, QuietInv DEF Hide, Unhide, LiveIsWanted
  <1>10. ASSUME NEW g \in gets, Serve(g) PROVE LoadInv'
    <2> DEFINE h == [g EXCEPT !.ver = db[g.of]]
    <2>1. g \in Get /\ g.of \in Subjects /\ db[g.of] \in 0..MaxVersion
      BY <1>1, Versions DEF TypeOK, Get
    <2>2. h \in Get /\ h.live = g.live /\ h.of = g.of /\ h.by = g.by
      BY <2>1 DEF Get
    <2>3. TypeOK' /\ ReadsOnly'
      BY <1>1, <1>10, <2>2 DEF Serve, TypeOK, ReadsOnly
    <2>4. Cancelling => \A f \in gets' : /\ f.by = "effect"
                                         /\ f.live => open /\ f.of = Wanted(settings.of, subj)
      BY <1>1, <1>10, <2>2 DEF Serve, LiveIsWanted
    <2>5. QED
      BY <1>10, <2>3, <2>4, QuietInv DEF Serve
  <1>11. ASSUME NEW g \in gets, Deliver(g) PROVE LoadInv'
    <2>1. g \in Get /\ gets' \subseteq gets /\ UNCHANGED <<open, subj, settings, moves, rest>>
      BY <1>1, <1>11 DEF TypeOK, Deliver
    <2>2. [of |-> g.of, ver |-> g.ver] \in Content
      BY <2>1 DEF Get, Content
    <2>3. TypeOK' /\ ReadsOnly'
      BY <1>1, <1>11, <2>1, <2>2 DEF Deliver, TypeOK, ReadsOnly
    <2>4. LiveIsWanted' /\ AskedIsSelected' /\ SettingsAreOfSelected'
      BY <1>1, <2>1 DEF LoadInv, LiveIsWanted, AskedIsSelected, SettingsAreOfSelected,
                        Cancelling, Wanted
    <2>5. CASE ~g.live
      BY <1>11, <2>1, <2>3, <2>4, <2>5 DEF Deliver, LoadInv, AnswerIsOfSelected, RootIsOfSettings,
                                     Cancelling
    <2>6. CASE g.live
      <3>1. box'.of = g.of /\ g.of \in Subjects
        BY <1>11, <2>1, <2>6 DEF Deliver, Get
      <3>2. Cancelling => g.of = Wanted(settings.of, subj)
        BY <1>1, <2>6 DEF LiveIsWanted
      <3>3. /\ load.via = "root" => Wanted(settings.of, subj) = settings.of
            /\ load.via # "root" => Wanted(settings.of, subj) \in {subj, NoSubject}
        BY <1>1, WantedKinds DEF TypeOK
      <3>4. load.via = "root" => Cancelling
        BY <1>1, LoadKinds DEF Cancelling
      <3>5. AnswerIsOfSelected' /\ RootIsOfSettings'
        BY <2>1, <3>1, <3>2, <3>3, <3>4, LoadsAssumption
           DEF AnswerIsOfSelected, RootIsOfSettings, Cancelling
      <3>6. QED
        BY <2>3, <2>4, <3>5 DEF LoadInv
    <2>7. QED
      BY <2>5, <2>6
  <1>12. ASSUME NEW g \in gets, GetFails(g) PROVE LoadInv'
    <2>1. /\ gets' \subseteq gets
          /\ UNCHANGED <<load, open, subj, writes, settings, db, hidden, moves, misdirected>>
      BY <1>12 DEF GetFails
    <2>2. TypeOK' /\ ReadsOnly'
      BY <1>1, <1>3, <1>12, <2>1, Versions DEF GetFails, TypeOK, Content, Empty, ReadsOnly
    <2>3. LiveIsWanted' /\ AskedIsSelected' /\ SettingsAreOfSelected'
      BY <1>1, <2>1 DEF LoadInv, LiveIsWanted, AskedIsSelected, SettingsAreOfSelected,
                        Cancelling, Wanted
    <2>4. box' \in {box, Empty} /\ (status' = "ok" => UNCHANGED <<box, status>>)
      BY <1>12 DEF GetFails
    <2>5. AnswerIsOfSelected' /\ RootIsOfSettings'
      BY <2>1, <2>4 DEF LoadInv, AnswerIsOfSelected, RootIsOfSettings, Cancelling
    <2>6. QED
      BY <2>2, <2>3, <2>5 DEF LoadInv
  <1>13. CASE Write
    <2>1. load.writes # "no"
      BY <1>13 DEF Write, Usable
    <2>2. [to |-> subj, of |-> box.of, done |-> FALSE] \in WriteReq
      BY <1>1 DEF TypeOK, WriteReq, Content
    <2>3. misdirected' \in BOOLEAN
      BY <1>13 DEF Write
    <2>4. TypeOK' /\ ReadsOnly'
      BY <1>1, <1>2, <1>13, <2>1, <2>2, <2>3 DEF Write, TypeOK, ReadsOnly
    <2>5. QED
      BY <1>1, <1>13, <2>4, QuietInv DEF Write, LiveIsWanted
  <1>14. ASSUME NEW w \in writes, Execute(w) \/ Refused(w) PROVE LoadInv'
    <2>1. load.writes # "no" /\ w \in WriteReq /\ w.to \in Subjects
      BY <1>1 DEF ReadsOnly, TypeOK, WriteReq
    <2>2. db' \in [Subjects -> 1..MaxVersion] /\ writes' \in SUBSET WriteReq
      <3>1. CASE Execute(w)
        <4>1. [w EXCEPT !.done = TRUE] \in WriteReq
          BY <2>1 DEF WriteReq
        <4>2. QED
          BY <1>1, <2>1, <3>1, <4>1, LoadsAssumption DEF Execute, TypeOK
      <3>2. CASE Refused(w)
        BY <1>1, <3>2 DEF Refused, TypeOK
      <3>3. QED
        BY <1>14, <3>1, <3>2
    <2>3. /\ UNCHANGED <<load, open, subj, box, status, gets, settings, hidden, moves, fails,
                        misdirected>>
      BY <1>14 DEF Execute, Refused
    <2>4. TypeOK' /\ ReadsOnly'
      BY <1>1, <2>1, <2>2, <2>3 DEF TypeOK, ReadsOnly
    <2>5. QED
      BY <1>1, <2>3, <2>4, QuietInv DEF LiveIsWanted
  <1>15. ASSUME NEW w \in writes, Written(w) PROVE LoadInv'
    <2>1. /\ load.writes # "no" /\ w \in WriteReq /\ w.to \in Subjects
          /\ writes' = {} /\ UNCHANGED <<load, open, subj, db, hidden, moves, fails, misdirected>>
      BY <1>1, <1>15 DEF ReadsOnly, TypeOK, WriteReq, Written
    <2>2. ReadsOnly'
      BY <2>1 DEF ReadsOnly
    <2>3. CASE load.writes \in {"own", "refetch"}
      <3>1. /\ gets' \in SUBSET Get /\ box' \in Content
            /\ status' \in {"idle", "loading", "ok", "failed"} /\ settings' = settings
        <4>1. CASE load.writes = "refetch"
          BY <1>1, <1>15, <2>1, <4>1, SendGetAdds DEF Written, TypeOK
        <4>2. CASE load.writes = "own" /\ open /\ load.via = "object"
          <5>1. PutAnswer(w)
            BY <1>15, <4>2 DEF Written
          <5>2. gets' \in SUBSET Get
            BY <1>1, <4>2, <5>1, CleanupKills, SendGetAdds DEF PutAnswer, TypeOK
          <5>3. QED
            BY <1>1, <2>1, <4>2, <5>1, <5>2, Versions DEF PutAnswer, TypeOK, Content
        <4>3. CASE load.writes = "own" /\ ~(open /\ load.via = "object")
          BY <1>1, <1>15, <2>1, <4>3, Versions DEF Written, PutAnswer, TypeOK, Content
        <4>4. QED
          BY <2>3, <4>1, <4>2, <4>3
      <3>2. TypeOK'
        BY <1>1, <2>1, <3>1 DEF TypeOK
      <3>3. load.via # "root" /\ ~Cancelling
        BY <1>1, <2>3, LoadKinds DEF Cancelling
      <3>4. QED
        BY <2>1, <2>2, <3>1, <3>2, <3>3 DEF LoadInv, LiveIsWanted, AskedIsSelected,
           SettingsAreOfSelected, RootIsOfSettings, AnswerIsOfSelected, Cancelling
    <2>4. CASE load.writes = "none"
      <3>1. UNCHANGED <<box, status, gets, settings>>
        BY <1>15, <2>4 DEF Written
      <3>2. TypeOK'
        BY <1>1, <2>1, <3>1 DEF TypeOK
      <3>3. QED
        BY <1>1, <2>1, <2>2, <3>1, <3>2, QuietInv DEF LiveIsWanted
    <2>5. CASE load.writes = "settings" /\ PutSettings(w)
      <3>1. ASSUME NEW k \in {settings.of, w.to, NoSubject},
                   SetSettings([settings EXCEPT !.of = k,
                     !.stray = IF k = settings.of THEN @ ELSE k \notin {subj, NoSubject}])
            PROVE  LoadInv'
        <4> DEFINE stray == IF k = settings.of THEN settings.stray ELSE k \notin {subj, NoSubject}
                   new == [settings EXCEPT !.of = k, !.stray = stray]
        <4>1. SetSettings(new)
          BY <3>1
        <4>2. stray \in BOOLEAN /\ k \in Subjects \cup {NoSubject}
          BY <1>1, <2>1 DEF Settings
        <4>3. /\ new \in Settings /\ new.of = k /\ new.asked = settings.asked
              /\ new.stray = stray
          BY <1>1, <4>2, ZenonT(40) DEF Settings
        <4>4. load.via # "url" /\ open => new.asked \in {subj, NoSubject}
          BY <4>3 DEF LoadInv, AskedIsSelected
        <4>5. load.via # "url" /\ open /\ new.asked = NoSubject /\ ~new.stray =>
                new.of \in {subj, NoSubject}
          BY <4>3 DEF LoadInv, SettingsAreOfSelected
        <4> HIDE DEF new
        <4>6. QED
          BY <1>1, <2>1, <2>2, <4>1, <4>3, <4>4, <4>5, SetSettingsInv DEF TypeOK
      <3>2. CASE box' = Empty /\ status' = "idle" /\ UNCHANGED <<gets, settings>>
        <4>1. TypeOK'
          BY <1>1, <2>1, <3>2, Versions DEF TypeOK, Content, Empty
        <4>2. QED
          BY <1>1, <2>1, <2>2, <3>2, <4>1 DEF LoadInv, LiveIsWanted, AskedIsSelected,
             SettingsAreOfSelected, RootIsOfSettings, AnswerIsOfSelected, Cancelling, Wanted
      <3>3. QED
        BY <2>5, <3>1, <3>2 DEF PutSettings
    <2>6. QED
      BY <1>15, <2>1, <2>3, <2>4, <2>5 DEF Written
  <1>16. CASE UNCHANGED vars
    BY <1>16 DEF vars, LoadInv, TypeOK, LiveIsWanted, ReadsOnly, AskedIsSelected,
                 SettingsAreOfSelected, RootIsOfSettings, AnswerIsOfSelected, Cancelling, Wanted
  <1>17. QED
    BY <1>4, <1>5, <1>6, <1>7, <1>8, <1>9, <1>10, <1>11, <1>12, <1>13, <1>14, <1>15, <1>16 DEF Next

\* In every state of every load: types; of a load with a cleanup whose content
\* no write replaces, answers that still count are for the id the effect would
\* ask for now; the root shown is the one the settings name; and settings that
\* were answered are those of the server in the URL, but for late writes.
\* (The `cancelled` flags of the effects at App.tsx:4408-4811; 2811.)
THEOREM LoadInvariant == Spec => []LoadInv
  BY InitLoadInv, NextLoadInv, PTL DEF Spec

\* After its last answer such a page, but for the root certificate's, shows the
\* data of the id in the URL, in whatever order the answers arrive.
\* (App.tsx:4408-4811.)
THEOREM AnswersAreOfSelected == Spec => []AnswerIsOfSelected
  <1>1. LoadInv => AnswerIsOfSelected
    BY DEF LoadInv
  <1>2. QED
    BY <1>1, LoadInvariant, PTL

\* Once the settings of the server in the URL are answered, the root on its page
\* is never another server's, not even while it loads, unless a write sent from
\* another server's page is answered after that.
\* (panelRootCaIdForServer, App.tsx:2811; setServerRootCaSummary, 4640-4644.)
THEOREM RootCasAreOfSelected == Spec => []RootCaIsOfSelected
  <1>1. LoadInv => RootCaIsOfSelected
    BY DEF LoadInv, RootIsOfSettings, SettingsAreOfSelected, RootCaIsOfSelected
  <1>2. QED
    BY <1>1, LoadInvariant, PTL
=============================================================================
