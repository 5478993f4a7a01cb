------------------------- MODULE DiscordCheck_proofs -------------------------
(***************************************************************************)
(* The gateway task's sessions, for every threshold, patience, number of   *)
(* events and faults, and whichever process runs it.                       *)
(***************************************************************************)
EXTENDS DiscordCheck, TLAPS

\* Where a connection is with its session.
LinkInv ==
  /\ gateway \notin {"handshake", "live"} => request = "none" /\ pos = 0
  /\ request = "none" => pos = 0
  /\ request = "identify" => ~cached /\ pos = 0
  /\ request = "resume" => cached /\ pos = 0
  /\ request = "done" => gateway = "live" /\ (pos = 0 <=> ~cached)

\* The cached sequence number is that of the connection, and stands right behind
\* what was dispatched.
SessionInv ==
  /\ saved \in 0 .. posted - base + 1
  /\ cached <=> saved > 0
  /\ request = "done" /\ cached => saved = pos
  /\ cached => \A m \in delivered \cup dropped : m < base + saved
  /\ request = "done" /\ ~cached => \A m \in delivered \cup dropped : m <= base
  /\ ResumeSkipsNothing

\* Silence has been reported, whether or not the provider is being stopped.
ReportInv ==
  /\ attempt >= Threshold => told # "nothing"
  /\ handle => ~shutdown
  /\ handle /\ gateway = "exited" => told = "fatal"

GatewayInv ==
  /\ GatewayTypeOK
  /\ LinkInv
  /\ SessionInv
  /\ ReportInv

\* The initial state satisfies the invariant.
LEMMA GatewayInitInv == GatewayInit => GatewayInv
<1> SUFFICES ASSUME GatewayInit PROVE GatewayInv
  OBVIOUS
<1> USE GatewayConstants DEF GatewayInit
<1>1. GatewayTypeOK
  <2>1. /\ posted \in 0 .. MaxMessages /\ base \in 0 .. posted
        /\ pos \in 0 .. posted - base + 1 /\ saved \in 0 .. MaxMessages + 1
        /\ attempt \in 0 .. Threshold /\ beats \in 0 .. Patience + 1
        /\ faults \in 0 .. MaxFaults
    OBVIOUS
  <2>2. /\ valid \in BOOLEAN /\ mute \in BOOLEAN /\ cached \in BOOLEAN
        /\ lastError \in BOOLEAN /\ handle \in BOOLEAN /\ shutdown \in BOOLEAN
        /\ healthy \in BOOLEAN
    BY Zenon
  <2> QED BY <2>1, <2>2 DEF GatewayTypeOK
<1>2. LinkInv /\ ReportInv
  BY DEF LinkInv, ReportInv
<1>3. SessionInv
  <2>1. ~cached /\ ~(saved > 0) /\ saved \in 0 .. posted - base + 1
    OBVIOUS
  <2>2. ~(request = "done")
    OBVIOUS
  <2> QED BY <2>1, <2>2 DEF SessionInv, ResumeSkipsNothing
<1> QED BY <1>1, <1>2, <1>3 DEF GatewayInv

\* A step of Discord's keeps the invariant.
LEMMA DiscordInv ==
  ASSUME GatewayInv, DiscordStep
  PROVE  GatewayInv'
<1> USE GatewayConstants DEF GatewayInv
<1>1. CASE Post
  <2>1. /\ posted' = posted + 1 /\ posted < MaxMessages
        /\ UNCHANGED <<base, valid, pos, request, mute, cached, saved, handle, shutdown,
                       gateway, beats, healthy, attempt, told, lastError, delivered,
                       dropped, faults>>
    BY <1>1 DEF Post, linkVars, sessionVars, taskVars, beatVars, reportVars, deliveryVars
  <2>2. GatewayTypeOK'
    BY <2>1 DEF GatewayTypeOK
  <2>3. LinkInv' /\ ReportInv'
    BY <2>1 DEF LinkInv, ReportInv
  <2>4. SessionInv'
    BY <2>1 DEF GatewayTypeOK, SessionInv, ResumeSkipsNothing
  <2> QED BY <2>2, <2>3, <2>4
<1>2. CASE Expire \/ GoesMute
  <2>1. /\ UNCHANGED <<posted, base, pos, request, cached, saved, handle, shutdown,
                       gateway, beats, healthy, attempt, told, lastError, delivered,
                       dropped>>
        /\ valid' \in BOOLEAN /\ mute' \in BOOLEAN
        /\ faults' = faults + 1 /\ faults < MaxFaults
    BY <1>2 DEF GatewayTypeOK, Expire, GoesMute, Fault, discordVars, linkVars,
                sessionVars, taskVars, beatVars, reportVars, deliveryVars
  <2>2. GatewayTypeOK'
    BY <2>1 DEF GatewayTypeOK
  <2>3. LinkInv' /\ ReportInv'
    BY <2>1 DEF LinkInv, ReportInv
  <2>4. SessionInv'
    BY <2>1 DEF SessionInv, ResumeSkipsNothing
  <2> QED BY <2>2, <2>3, <2>4
<1>3. CASE AcceptIdentify
  <2>1. /\ base' = posted /\ pos' = 0 /\ request' = "done" /\ valid' = TRUE
        /\ gateway = "live" /\ request = "identify"
        /\ UNCHANGED <<posted, mute, cached, saved, handle, shutdown,
                       gateway, beats, healthy, attempt, told, lastError, delivered,
                       dropped, faults>>
    BY <1>3 DEF AcceptIdentify, sessionVars, taskVars, beatVars, reportVars, deliveryVars
  <2>2. ~cached /\ saved = 0
    BY <2>1 DEF LinkInv, SessionInv, GatewayTypeOK
  <2>3. GatewayTypeOK'
    BY <2>1 DEF GatewayTypeOK
  <2>4. LinkInv' /\ ReportInv'
    BY <2>1, <2>2 DEF LinkInv, ReportInv
  <2>5. SessionInv'
    <3>1. \A m \in delivered \cup dropped : m <= posted
      BY DEF GatewayTypeOK
    <3> QED BY <2>1, <2>2, <3>1 DEF SessionInv, ResumeSkipsNothing, GatewayTypeOK
  <2> QED BY <2>3, <2>4, <2>5
<1>4. CASE AcceptResume
  <2>1. /\ pos' = saved /\ request' = "done" /\ gateway = "live" /\ request = "resume"
        /\ UNCHANGED <<posted, base, valid, mute, cached, saved, handle, shutdown,
                       gateway, beats, healthy, attempt, told, lastError, delivered,
                       dropped, faults>>
    BY <1>4 DEF AcceptResume, discordVars, sessionVars, taskVars, beatVars, reportVars,
                deliveryVars
  <2>2. cached /\ saved > 0 /\ saved \in 0 .. posted - base + 1
    BY <2>1 DEF LinkInv, SessionInv
  <2>3. GatewayTypeOK'
    BY <2>1, <2>2 DEF GatewayTypeOK
  <2>4. LinkInv' /\ ReportInv'
    BY <2>1, <2>2 DEF LinkInv, ReportInv
  <2>5. SessionInv'
    BY <2>1, <2>2 DEF SessionInv, ResumeSkipsNothing
  <2> QED BY <2>3, <2>4, <2>5
<1> QED BY <1>1, <1>2, <1>3, <1>4 DEF DiscordStep

\* A connection that is lost leaves the session where it was, or forgotten.
LEMMA LinkGoneInv ==
  ASSUME GatewayInv, LinkGone,
         gateway' \in {"none", "waiting", "exited", "panicked"},
         UNCHANGED <<posted, base, delivered, dropped>>,
         \/ UNCHANGED <<cached, saved>>
         \/ ~cached' /\ saved' = 0
  PROVE  /\ LinkInv' /\ SessionInv'
         /\ pos' = 0 /\ request' = "none" /\ beats' = 0
         /\ mute' \in BOOLEAN /\ healthy' \in BOOLEAN
<1>1. /\ pos' = 0 /\ request' = "none" /\ beats' = 0 /\ mute' = FALSE /\ healthy' = FALSE
  BY DEF LinkGone
<1>2. LinkInv'
  BY <1>1 DEF LinkInv
<1>3. SessionInv'
  BY <1>1 DEF GatewayInv, GatewayTypeOK, SessionInv, ResumeSkipsNothing
<1> QED BY <1>1, <1>2, <1>3

\* What gateway_task makes of a lost connection keeps the invariant.
LEMMA ReconnectInv ==
  ASSUME GatewayInv, NEW good \in BOOLEAN, Reconnect(good), gateway # "exited",
         \/ UNCHANGED <<cached, saved>>
         \/ cached' = FALSE /\ saved' = 0
  PROVE  GatewayInv'
<1>1. /\ gateway' = "waiting" /\ LinkGone
      /\ UNCHANGED <<posted, base, valid, handle, shutdown, lastError, delivered,
                     dropped, faults>>
      /\ attempt' = IF good THEN 0 ELSE IF attempt < Threshold THEN attempt + 1 ELSE attempt
      /\ told' = IF good THEN "nothing" ELSE IF attempt + 1 = Threshold THEN "degraded" ELSE told
  BY DEF Reconnect, ReconnectSaying, discordVars, taskVars, deliveryVars
<1>2. GatewayTypeOK /\ ReportInv
  BY DEF GatewayInv
<1>3. /\ LinkInv' /\ SessionInv'
      /\ pos' = 0 /\ request' = "none" /\ beats' = 0
      /\ mute' \in BOOLEAN /\ healthy' \in BOOLEAN
  BY <1>1, LinkGoneInv
<1>4. GatewayTypeOK'
  <2>1. cached' \in BOOLEAN /\ saved' \in 0 .. MaxMessages + 1
    <3>1. CASE UNCHANGED <<cached, saved>>
      BY <1>2, <3>1 DEF GatewayTypeOK
    <3>2. CASE cached' = FALSE /\ saved' = 0
      <4>1. cached' \in BOOLEAN
        BY <3>2, Zenon
      <4> QED BY <3>2, <4>1, GatewayConstants
    <3> QED BY <3>1, <3>2
  <2>2. attempt' \in 0 .. Threshold /\ told' \in {"nothing", "degraded", "fatal"}
    BY <1>1, <1>2, GatewayConstants DEF GatewayTypeOK
  <2>3. pos' \in 0 .. posted' - base' + 1 /\ beats' \in 0 .. Patience + 1
    BY <1>1, <1>2, <1>3, GatewayConstants DEF GatewayTypeOK
  <2> QED BY <1>1, <1>2, <1>3, <2>1, <2>2, <2>3 DEF GatewayTypeOK
<1>5. ReportInv'
  BY <1>1, <1>2, GatewayConstants DEF GatewayTypeOK, ReportInv
<1> QED BY <1>3, <1>4, <1>5 DEF GatewayInv

\* The steps that connect keep the invariant.
LEMMA ConnectInv ==
  ASSUME GatewayInv, Connect \/ SendHandshake \/ Hello \/ ConnectFails
  PROVE  GatewayInv'
<1>1. CASE Connect
  <2>1. /\ gateway = "waiting" /\ gateway' = "connecting"
        /\ UNCHANGED <<posted, base, valid, pos, request, mute, cached, saved, handle,
                       shutdown, beats, healthy, attempt, told, lastError, delivered,
                       dropped, faults>>
    BY <1>1 DEF Connect, discordVars, linkVars, sessionVars, taskVars, beatVars,
                reportVars, deliveryVars
  <2> QED
    BY <2>1 DEF GatewayInv, GatewayTypeOK, LinkInv, SessionInv, ResumeSkipsNothing,
                ReportInv
<1>2. CASE SendHandshake
  <2>1. /\ gateway = "connecting" /\ gateway' = "handshake" /\ mute' \in BOOLEAN
        /\ request' = IF cached THEN "resume" ELSE "identify"
        /\ UNCHANGED <<posted, base, valid, pos, cached, saved, handle, shutdown, beats,
                       healthy, attempt, told, lastError, delivered, dropped, faults>>
    BY <1>2 DEF SendHandshake, discordVars, sessionVars, taskVars, beatVars,
                reportVars, deliveryVars
  <2>2. pos = 0 /\ request = "none"
    BY <2>1 DEF GatewayInv, LinkInv
  <2>3. GatewayTypeOK' /\ LinkInv' /\ ReportInv'
    BY <2>1, <2>2 DEF GatewayInv, GatewayTypeOK, LinkInv, ReportInv
  <2>4. SessionInv'
    BY <2>1, <2>2 DEF GatewayInv, SessionInv, ResumeSkipsNothing
  <2> QED BY <2>3, <2>4 DEF GatewayInv
<1>3. CASE Hello
  <2>1. /\ gateway = "handshake" /\ gateway' = "live" /\ beats' = 0
        /\ healthy' \in BOOLEAN
        /\ UNCHANGED <<posted, base, valid, pos, request, mute, cached, saved, handle,
                       shutdown, attempt, told, lastError, delivered, dropped, faults>>
    BY <1>3 DEF Hello, discordVars, linkVars, sessionVars, taskVars, reportVars,
                deliveryVars
  <2>2. GatewayTypeOK'
    BY <2>1, GatewayConstants DEF GatewayInv, GatewayTypeOK
  <2> QED
    BY <2>1, <2>2 DEF GatewayInv, LinkInv, SessionInv, ResumeSkipsNothing, ReportInv
<1>4. CASE ConnectFails
  <2>1. Reconnect(FALSE) /\ gateway # "exited" /\ UNCHANGED <<cached, saved>>
    BY <1>4 DEF ConnectFails, sessionVars
  <2> QED BY <2>1, ReconnectInv
<1> QED BY <1>1, <1>2, <1>3, <1>4

\* A frame that belongs to the session keeps the invariant.
LEMMA FrameInv ==
  ASSUME GatewayInv, ReadReady \/ Dispatch \/ DispatchPanics
  PROVE  GatewayInv'
<1> DEFINE message == IF Upcoming \in Service THEN {} ELSE {Upcoming}
<1>1. CASE ReadReady
  <2>1. /\ gateway = "live" /\ request = "done" /\ pos = 0
        /\ pos' = 1 /\ cached' = TRUE /\ saved' = 1 /\ healthy' = TRUE
        /\ UNCHANGED <<posted, base, valid, request, mute, handle, shutdown, gateway,
                       beats, attempt, told, lastError, delivered, dropped, faults>>
    BY <1>1 DEF ReadReady, Reading, Selecting, discordVars, taskVars, reportVars,
                deliveryVars
  <2>2. ~cached
    BY <2>1 DEF GatewayInv, LinkInv
  <2>3. GatewayTypeOK'
    <3>1. pos' \in 0 .. posted - base + 1 /\ saved' \in 0 .. MaxMessages + 1
      BY <2>1, GatewayConstants DEF GatewayInv, GatewayTypeOK
    <3>2. cached' \in BOOLEAN /\ healthy' \in BOOLEAN
      BY <2>1, Zenon
    <3> QED BY <2>1, <3>1, <3>2 DEF GatewayInv, GatewayTypeOK
  <2>4. LinkInv' /\ ReportInv'
    BY <2>1 DEF GatewayInv, LinkInv, ReportInv
  <2>5. SessionInv'
    <3>1. \A m \in delivered \cup dropped : m <= base /\ m \in Nat
      BY <2>1, <2>2 DEF GatewayInv, SessionInv, GatewayTypeOK
    <3>2. posted \in Nat /\ base \in 0 .. posted
      BY DEF GatewayInv, GatewayTypeOK
    <3>3. Messages(base + 1 .. base + saved' - 1) = {}
      BY <2>1, <3>2 DEF Messages
    <3> QED BY <2>1, <3>1, <3>2, <3>3 DEF SessionInv, ResumeSkipsNothing
  <2> QED BY <2>3, <2>4, <2>5 DEF GatewayInv
<1>2. CASE Dispatch \/ DispatchPanics
  <2>1. /\ gateway = "live" /\ request = "done" /\ pos > 0
        /\ Upcoming = base + pos /\ Upcoming <= posted
    BY <1>2 DEF Dispatch, DispatchAs, DispatchPanics, NextFrame, Reading, Selecting,
                Upcoming
  <2>2. cached /\ saved = pos
    BY <2>1 DEF GatewayInv, LinkInv, SessionInv
  <2>3. /\ posted \in 0 .. MaxMessages /\ base \in 0 .. posted /\ pos \in Nat
        /\ Upcoming \in 1 .. posted
    BY <2>1 DEF GatewayInv, GatewayTypeOK
  <2>4. /\ saved' = pos + 1
        /\ UNCHANGED <<posted, base, valid, cached, handle, shutdown, attempt, told,
                       lastError>>
        /\ delivered' \cup dropped' = delivered \cup dropped \cup message
        /\ delivered' \subseteq delivered \cup message
        /\ dropped' \subseteq dropped \cup message
        /\ \/ /\ pos' = pos + 1 /\ gateway' = "live"
              /\ UNCHANGED <<request, mute, beats, healthy, faults>>
           \/ /\ LinkGone /\ gateway' = "panicked"
              /\ faults < MaxFaults /\ faults' = faults + 1
    <3>1. CASE Dispatch
      BY <3>1, <2>1, <2>2 DEF Dispatch, DispatchAs, discordVars, taskVars, beatVars,
                              reportVars
    <3>2. CASE DispatchPanics
      BY <3>2, <2>2 DEF DispatchPanics, Fault, discordVars, taskVars, reportVars
    <3> QED BY <1>2, <3>1, <3>2
  <2>5. message \subseteq 1 .. posted /\ \A m \in message : m < base + saved'
    BY <2>1, <2>3, <2>4
  <2>6. Messages(base + 1 .. base + saved' - 1)
          \subseteq Messages(base + 1 .. base + saved - 1) \cup message
    BY <2>1, <2>2, <2>3, <2>4 DEF Messages
  <2> HIDE DEF message
  <2>7. GatewayTypeOK'
    <3>1. delivered' \subseteq 1 .. posted /\ dropped' \subseteq 1 .. posted
      BY <2>4, <2>5 DEF GatewayInv, GatewayTypeOK
    <3>2. saved' \in 0 .. MaxMessages + 1
      BY <2>1, <2>3, <2>4, GatewayConstants
    <3>3. pos' \in 0 .. posted - base + 1 /\ beats' \in 0 .. Patience + 1
      BY <2>1, <2>3, <2>4, GatewayConstants DEF LinkGone, GatewayInv, GatewayTypeOK
    <3>4. /\ request' \in {"none", "done"} /\ gateway' \in {"live", "panicked"}
          /\ mute' \in BOOLEAN /\ healthy' \in BOOLEAN
      BY <2>1, <2>4 DEF LinkGone, GatewayInv, GatewayTypeOK
    <3>5. faults' \in 0 .. MaxFaults
      BY <2>4, GatewayConstants DEF GatewayInv, GatewayTypeOK
    <3> QED BY <2>4, <3>1, <3>2, <3>3, <3>4, <3>5 DEF GatewayInv, GatewayTypeOK
  <2>8. LinkInv'
    BY <2>1, <2>2, <2>3, <2>4 DEF LinkGone, LinkInv
  <2>9. SessionInv'
    <3>1. saved' \in 0 .. posted - base + 1 /\ saved' > 0
      BY <2>1, <2>3, <2>4
    <3>2. \A m \in delivered' \cup dropped' : m < base + saved'
      <4>1. \A m \in delivered \cup dropped : m < base + saved /\ m \in Nat
        BY <2>2 DEF GatewayInv, GatewayTypeOK, SessionInv
      <4>2. base + saved < base + saved' /\ base + saved \in Nat /\ base + saved' \in Nat
        BY <2>2, <2>3, <2>4
      <4>3. \A m \in delivered \cup dropped : m < base + saved'
        BY <4>1, <4>2
      <4> QED BY <2>4, <2>5, <4>3
    <3>3. request' = "done" => saved' = pos'
      BY <2>4 DEF LinkGone
    <3>4. Messages(base + 1 .. base + saved' - 1) \subseteq delivered' \cup dropped'
      BY <2>2, <2>4, <2>6 DEF GatewayInv, SessionInv, ResumeSkipsNothing
    <3> QED BY <2>2, <2>4, <3>1, <3>2, <3>3, <3>4 DEF SessionInv, ResumeSkipsNothing
  <2>10. ReportInv'
    BY <2>4 DEF GatewayInv, ReportInv
  <2> QED BY <2>7, <2>8, <2>9, <2>10 DEF GatewayInv
<1> QED BY <1>1, <1>2

\* The other steps of the select loop keep the invariant.
LEMMA SelectInv ==
  ASSUME GatewayInv,
         \/ NoticeShutdown
         \/ Beat
         \/ ReadAck
         \/ ReadReconnect
         \/ \E resumable \in BOOLEAN : ReadInvalid(resumable)
         \/ ReadFatal
         \/ ConnectionLost
  PROVE  GatewayInv'
<1>1. CASE NoticeShutdown
  <2>1. /\ gateway' = "exited" /\ LinkGone /\ shutdown
        /\ UNCHANGED <<posted, base, valid, cached, saved, handle, shutdown, attempt,
                       told, lastError, delivered, dropped, faults>>
    BY <1>1 DEF NoticeShutdown, discordVars, sessionVars, taskVars, reportVars,
                deliveryVars
  <2>2. /\ LinkInv' /\ SessionInv'
        /\ pos' = 0 /\ request' = "none" /\ beats' = 0
        /\ mute' \in BOOLEAN /\ healthy' \in BOOLEAN
    BY <2>1, LinkGoneInv
  <2>3. GatewayTypeOK'
    BY <2>1, <2>2, GatewayConstants DEF GatewayInv, GatewayTypeOK
  <2>4. ReportInv'
    BY <2>1 DEF GatewayInv, ReportInv
  <2> QED BY <2>2, <2>3, <2>4 DEF GatewayInv
<1>2. CASE Beat
  <2>1. CASE Reconnect(healthy) /\ UNCHANGED sessionVars
    <3>1. gateway # "exited" /\ UNCHANGED <<cached, saved>> /\ healthy \in BOOLEAN
      BY <1>2, <2>1
         DEF Beat, BeatWithin, Selecting, sessionVars, GatewayInv, GatewayTypeOK
    <3> QED BY <2>1, <3>1, ReconnectInv
  <2>2. CASE ~(Reconnect(healthy) /\ UNCHANGED sessionVars)
    <3>1. /\ beats <= Patience /\ beats' = beats + 1
          /\ UNCHANGED <<posted, base, valid, pos, request, mute, cached, saved, handle,
                         shutdown, gateway, healthy, attempt, told, lastError,
                         delivered, dropped, faults>>
      BY <1>2, <2>2 DEF Beat, BeatWithin, discordVars, linkVars, sessionVars, taskVars,
                        reportVars, deliveryVars
    <3>2. GatewayTypeOK'
      BY <3>1, GatewayConstants DEF GatewayInv, GatewayTypeOK
    <3> QED
      BY <3>1, <3>2
         DEF GatewayInv, LinkInv, SessionInv, ResumeSkipsNothing, ReportInv
  <2> QED BY <2>1, <2>2
<1>3. CASE ReadAck
  <2>1. /\ beats' = 0 /\ healthy' = TRUE
        /\ UNCHANGED <<posted, base, valid, pos, request, mute, cached, saved, handle,
                       shutdown, gateway, attempt, told, lastError, delivered, dropped,
                       faults>>
    BY <1>3 DEF ReadAck, discordVars, linkVars, sessionVars, taskVars, reportVars,
                deliveryVars
  <2>2. GatewayTypeOK'
    BY <2>1, GatewayConstants DEF GatewayInv, GatewayTypeOK
  <2> QED
    BY <2>1, <2>2 DEF GatewayInv, LinkInv, SessionInv, ResumeSkipsNothing, ReportInv
<1>4. CASE ReadReconnect
  <2>1. Reconnect(TRUE) /\ gateway # "exited" /\ UNCHANGED <<cached, saved>>
    BY <1>4 DEF ReadReconnect, Reading, Selecting, sessionVars
  <2> QED BY <2>1, ReconnectInv
<1>5. CASE \E resumable \in BOOLEAN : ReadInvalid(resumable)
  <2>1. PICK forget \in BOOLEAN : /\ Reconnect(TRUE) /\ gateway # "exited"
                                 /\ cached' = (cached /\ ~forget)
                                 /\ saved' = IF forget THEN 0 ELSE saved
    <3>1. PICK resumable \in BOOLEAN : ReadInvalid(resumable)
      BY <1>5
    <3>2. (~resumable) \in BOOLEAN
      OBVIOUS
    <3> QED BY <3>1, <3>2 DEF ReadInvalid, Invalid, Reading, Selecting
  <2>2. \/ UNCHANGED <<cached, saved>>
        \/ cached' = FALSE /\ saved' = 0
    <3>1. cached \in BOOLEAN
      BY DEF GatewayInv, GatewayTypeOK
    <3> QED BY <2>1, <3>1
  <2> QED BY <2>1, <2>2, ReconnectInv
<1>6. CASE ReadFatal
  <2>1. /\ gateway' = "exited" /\ LinkGone /\ lastError' = TRUE /\ told' = "fatal"
        /\ faults < MaxFaults /\ faults' = faults + 1
        /\ UNCHANGED <<posted, base, valid, cached, saved, handle, shutdown, attempt,
                       delivered, dropped>>
    BY <1>6 DEF ReadFatal, Fault, discordVars, sessionVars, taskVars, deliveryVars
  <2>2. /\ LinkInv' /\ SessionInv'
        /\ pos' = 0 /\ request' = "none" /\ beats' = 0
        /\ mute' \in BOOLEAN /\ healthy' \in BOOLEAN
    BY <2>1, LinkGoneInv
  <2>3. GatewayTypeOK'
    BY <2>1, <2>2, GatewayConstants DEF GatewayInv, GatewayTypeOK
  <2>4. ReportInv'
    BY <2>1 DEF GatewayInv, ReportInv
  <2> QED BY <2>2, <2>3, <2>4 DEF GatewayInv
<1>7. CASE ConnectionLost
  <2>1. /\ Reconnect(healthy) /\ gateway # "exited" /\ UNCHANGED <<cached, saved>>
        /\ healthy \in BOOLEAN
    BY <1>7 DEF ConnectionLost, Selecting, sessionVars, GatewayInv, GatewayTypeOK
  <2> QED BY <2>1, ReconnectInv
<1> QED BY <1>1, <1>2, <1>3, <1>4, <1>5, <1>6, <1>7

\* start, stop, a new process and a look at the error slot keep the invariant.
LEMMA HostInv ==
  ASSUME GatewayInv,
         \/ Start
         \/ StopBegin
         \/ StopEnd
         \/ Restart
         \/ TakeError
  PROVE  GatewayInv'
<1>1. CASE Start
  <2>1. /\ gateway = "none" /\ gateway' = "waiting" /\ handle' = TRUE
        /\ shutdown' = FALSE /\ attempt' = 0 /\ told' = "nothing"
        /\ UNCHANGED <<posted, base, valid, pos, request, mute, cached, saved, beats,
                       healthy, lastError, delivered, dropped, faults>>
    BY <1>1 DEF Start, discordVars, linkVars, sessionVars, beatVars, deliveryVars
  <2>2. GatewayTypeOK'
    <3>1. handle' \in BOOLEAN /\ shutdown' \in BOOLEAN
      BY <2>1, Zenon
    <3> QED BY <2>1, <3>1, GatewayConstants DEF GatewayInv, GatewayTypeOK
  <2>3. ReportInv'
    BY <2>1, GatewayConstants DEF ReportInv
  <2> QED
    BY <2>1, <2>2, <2>3 DEF GatewayInv, LinkInv, SessionInv, ResumeSkipsNothing
<1>2. CASE StopBegin
  <2>1. /\ handle' = FALSE /\ shutdown' = TRUE
        /\ UNCHANGED <<posted, base, valid, pos, request, mute, cached, saved, gateway,
                       beats, healthy, attempt, told, lastError, delivered, dropped,
                       faults>>
    BY <1>2 DEF StopBegin, discordVars, linkVars, sessionVars, beatVars, reportVars,
                deliveryVars
  <2>2. GatewayTypeOK'
    <3>1. handle' \in BOOLEAN /\ shutdown' \in BOOLEAN
      BY <2>1, Zenon
    <3> QED BY <2>1, <3>1 DEF GatewayInv, GatewayTypeOK
  <2> QED
    BY <2>1, <2>2 DEF GatewayInv, LinkInv, SessionInv, ResumeSkipsNothing, ReportInv
<1>3. CASE StopEnd
  <2>1. /\ gateway' = "none" /\ LinkGone
        /\ UNCHANGED <<posted, base, valid, cached, saved, handle, shutdown, attempt,
                       told, lastError, delivered, dropped, faults>>
    BY <1>3 DEF StopEnd, discordVars, sessionVars, taskVars, reportVars, deliveryVars
  <2>2. /\ LinkInv' /\ SessionInv'
        /\ pos' = 0 /\ request' = "none" /\ beats' = 0
        /\ mute' \in BOOLEAN /\ healthy' \in BOOLEAN
    BY <2>1, LinkGoneInv
  <2>3. GatewayTypeOK'
    BY <2>1, <2>2, GatewayConstants DEF GatewayInv, GatewayTypeOK
  <2> QED BY <2>1, <2>2, <2>3 DEF GatewayInv, ReportInv
<1>4. CASE Restart
  <2>1. /\ gateway' = "none" /\ LinkGone /\ cached' = FALSE /\ saved' = 0
        /\ lastError' = FALSE /\ handle' = FALSE /\ shutdown' = FALSE
        /\ attempt' = 0 /\ told' = "nothing"
        /\ faults < MaxFaults /\ faults' = faults + 1
        /\ UNCHANGED <<posted, base, valid, delivered, dropped>>
    BY <1>4 DEF Restart, Fault, discordVars, deliveryVars
  <2>2. /\ LinkInv' /\ SessionInv'
        /\ pos' = 0 /\ request' = "none" /\ beats' = 0
        /\ mute' \in BOOLEAN /\ healthy' \in BOOLEAN
    BY <2>1, LinkGoneInv
  <2>3. GatewayTypeOK'
    <3>1. /\ cached' \in BOOLEAN /\ lastError' \in BOOLEAN
          /\ handle' \in BOOLEAN /\ shutdown' \in BOOLEAN
      BY <2>1, Zenon
    <3> QED BY <2>1, <2>2, <3>1, GatewayConstants DEF GatewayInv, GatewayTypeOK
  <2>4. ReportInv'
    BY <2>1, GatewayConstants DEF ReportInv
  <2> QED BY <2>2, <2>3, <2>4 DEF GatewayInv
<1>5. CASE TakeError
  <2>1. /\ lastError' = FALSE
        /\ UNCHANGED <<posted, base, valid, pos, request, mute, cached, saved, handle,
                       shutdown, gateway, beats, healthy, attempt, told, delivered,
                       dropped, faults>>
    BY <1>5 DEF TakeError, discordVars, linkVars, sessionVars, taskVars, beatVars,
                deliveryVars
  <2>2. GatewayTypeOK'
    <3>1. lastError' \in BOOLEAN
      BY <2>1, Zenon
    <3> QED BY <2>1, <3>1 DEF GatewayInv, GatewayTypeOK
  <2> QED
    BY <2>1, <2>2 DEF GatewayInv, LinkInv, SessionInv, ResumeSkipsNothing, ReportInv
<1> QED BY <1>1, <1>2, <1>3, <1>4, <1>5

\* The error slot of a check that has not looked at it is full.
CheckInv ==
  /\ GatewayInv
  /\ CheckTypeOK
  /\ op = "built" => told = "nothing" /\ gateway = "none"
  /\ op = "polling" /\ told = "fatal" => lastError

\* The steps of the gateway and the host that the check shares with a daemon
\* change the error slot only together with what the host was told.
LEMMA SlotFilled ==
  ASSUME GatewayInv, DiscordStep \/ TaskStep
  PROVE  \/ UNCHANGED <<told, lastError>>
         \/ told' # "fatal" /\ gateway # "none"
         \/ lastError' = TRUE /\ gateway # "none"
<1>1. CASE DiscordStep
  BY <1>1 DEF DiscordStep, Post, Expire, GoesMute, AcceptIdentify, AcceptResume,
              reportVars
<1>2. CASE NoticeShutdown \/ Connect \/ SendHandshake \/ Hello
  BY <1>2 DEF NoticeShutdown, Connect, SendHandshake, Hello, reportVars
<1>3. CASE ReadAck \/ ReadReady \/ Dispatch \/ DispatchPanics
  BY <1>3 DEF ReadAck, ReadReady, Dispatch, DispatchAs, DispatchPanics, reportVars
<1>4. CASE ReadFatal
  BY <1>4 DEF ReadFatal, Reading, Selecting
<1>5. ASSUME NEW good, Reconnect(good), gateway # "none"
      PROVE  \/ UNCHANGED <<told, lastError>>
             \/ told' # "fatal" /\ gateway # "none"
  BY <1>5 DEF Reconnect, ReconnectSaying
<1>6. CASE ConnectFails \/ ReadReconnect \/ ConnectionLost
  BY <1>5, <1>6 DEF ConnectFails, ReadReconnect, ConnectionLost, Reading, Selecting
<1>7. CASE \E resumable \in BOOLEAN : ReadInvalid(resumable)
  BY <1>5, <1>7 DEF ReadInvalid, Invalid, Reading, Selecting
<1>8. CASE Beat
  BY <1>5, <1>8 DEF Beat, BeatWithin, Selecting, reportVars
<1> QED BY <1>1, <1>2, <1>3, <1>4, <1>6, <1>7, <1>8 DEF TaskStep

\* Only a task that was started takes a step.
LEMMA OnlyStarted == TaskStep => gateway # "none"
<1>1. NoticeShutdown \/ Connect \/ SendHandshake \/ Hello \/ ConnectFails
        => gateway # "none"
  BY DEF NoticeShutdown, Connect, SendHandshake, Hello, ConnectFails
<1>2. Selecting => gateway # "none"
  BY DEF Selecting
<1>3. Beat \/ ReadAck \/ ReadReady \/ ConnectionLost => Selecting
  BY DEF Beat, BeatWithin, ReadAck, ReadReady, ConnectionLost, Reading
<1>4. Dispatch \/ DispatchPanics => Selecting
  BY DEF Dispatch, DispatchAs, DispatchPanics, NextFrame, Reading
<1>5. ReadReconnect \/ ReadFatal \/ (\E resumable \in BOOLEAN : ReadInvalid(resumable))
        => Selecting
  BY DEF ReadReconnect, ReadFatal, ReadInvalid, Invalid, Reading
<1> QED BY <1>1, <1>2, <1>3, <1>4, <1>5 DEF TaskStep

\* A step of Discord's or of the task's leaves the gateway invariant.
LEMMA GatewayStepInv ==
  ASSUME GatewayInv, DiscordStep \/ TaskStep
  PROVE  GatewayInv'
<1>1. CASE DiscordStep
  BY <1>1, DiscordInv
<1>2. CASE Connect \/ SendHandshake \/ Hello \/ ConnectFails
  BY <1>2, ConnectInv
<1>3. CASE ReadReady \/ Dispatch \/ DispatchPanics
  BY <1>3, FrameInv
<1>4. CASE \/ NoticeShutdown \/ Beat \/ ReadAck \/ ReadReconnect
           \/ \E resumable \in BOOLEAN : ReadInvalid(resumable)
           \/ ReadFatal \/ ConnectionLost
  BY <1>4, SelectInv
<1> QED BY <1>1, <1>2, <1>3, <1>4 DEF TaskStep

\* Every step keeps the invariant, the check's own and those of the daemon.
LEMMA CheckStepInv ==
  ASSUME CheckInv, [CheckNext]_checkVars
  PROVE  CheckInv'
<1> USE DEF CheckInv
<1>1. CASE (DiscordStep \/ TaskStep) /\ UNCHANGED opVars
  <2>1. GatewayInv' /\ op' = op /\ verdict' = verdict
    BY <1>1, GatewayStepInv DEF opVars
  <2>2. CheckTypeOK'
    BY <2>1 DEF GatewayInv, CheckTypeOK
  <2>3. op = "built" => told' = "nothing" /\ gateway' = "none"
    <3>1. op = "built" => DiscordStep
      BY <1>1, OnlyStarted
    <3>2. DiscordStep => UNCHANGED <<told, gateway>>
      BY DEF DiscordStep, Post, Expire, GoesMute, AcceptIdentify, AcceptResume, reportVars
    <3> QED BY <3>1, <3>2
  <2>4. op = "polling" /\ told' = "fatal" => lastError'
    BY <1>1, SlotFilled
  <2> QED BY <2>1, <2>2, <2>3, <2>4
<1>2. CASE op = "daemon" /\ (Start \/ StopBegin \/ StopEnd \/ Restart) /\ UNCHANGED opVars
  <2>1. GatewayInv' /\ op' = "daemon" /\ verdict' = verdict
    BY <1>2, HostInv DEF opVars
  <2> QED BY <2>1 DEF GatewayInv, CheckTypeOK
<1>3. CASE CheckStep
  <2>1. CASE CheckStart
    <3>1. GatewayInv' /\ op' = "polling" /\ verdict' = verdict /\ told' = "nothing"
      BY <2>1, HostInv DEF CheckStart, Start
    <3> QED BY <3>1 DEF GatewayInv, CheckTypeOK
  <2>2. CASE TakeError
    <3>1. GatewayInv' /\ op' = "leaving" /\ verdict' = "fail"
      BY <2>2, HostInv DEF TakeError, Conclude
    <3> QED BY <3>1 DEF GatewayInv, CheckTypeOK
  <2>3. CASE Deadline
    <3>1. op' = "leaving" /\ verdict' = "pass" /\ UNCHANGED gatewayVars
      BY <2>3 DEF Deadline, Conclude
    <3>2. GatewayInv'
      BY <3>1 DEF gatewayVars, discordVars, linkVars, sessionVars, taskVars, beatVars,
                  reportVars, deliveryVars, GatewayInv, GatewayTypeOK, LinkInv,
                  SessionInv, ResumeSkipsNothing, ReportInv
    <3> QED BY <3>1, <3>2 DEF GatewayInv, CheckTypeOK
  <2>4. CASE CheckStop \/ CheckEnd
    <3>1. GatewayInv' /\ op' \in {"leaving", "left"} /\ verdict' = verdict
      BY <2>4, HostInv DEF CheckStop, CheckEnd, opVars
    <3> QED BY <3>1 DEF GatewayInv, CheckTypeOK
  <2> QED BY <1>3, <2>1, <2>2, <2>3, <2>4 DEF CheckStep
<1>4. CASE UNCHANGED checkVars
  BY <1>4 DEF checkVars, opVars, gatewayVars, discordVars, linkVars, sessionVars,
              taskVars, beatVars, reportVars, deliveryVars, GatewayInv, GatewayTypeOK,
              CheckTypeOK, LinkInv, SessionInv, ResumeSkipsNothing, ReportInv
<1> QED BY <1>1, <1>2, <1>3, <1>4 DEF CheckNext

\* The inductive invariant holds of every behaviour, with or without a check.
THEOREM CheckInvHolds == CheckSpec => []CheckInv
<1>1. CheckInit => CheckInv
  BY GatewayInitInv DEF CheckInit, GatewayInit, CheckInv, GatewayInv, CheckTypeOK
<1>2. CheckInv /\ [CheckNext]_checkVars => CheckInv'
  BY CheckStepInv
<1> QED BY <1>1, <1>2, PTL DEF CheckSpec

\* Every variable keeps its type.
THEOREM CheckTypeCorrect == CheckSpec => []CheckTypeOK
<1>1. CheckInv => CheckTypeOK
  BY DEF CheckInv
<1> QED BY <1>1, CheckInvHolds, PTL

\* A RESUME (handshake) names a sequence number behind which nothing is missing,
\* however connections, stops and panics fall.
THEOREM ResumeSkipsNothingHolds == CheckSpec => []ResumeSkipsNothing
<1>1. CheckInv => ResumeSkipsNothing
  BY DEF CheckInv, GatewayInv, SessionInv
<1> QED BY <1>1, CheckInvHolds, PTL

\* handle_payload gets no message twice and none out of order, over all sessions
\* and processes.
THEOREM NeverTwiceHolds == CheckSpec => []NeverTwice
<1>1. CheckInv => NeverTwice
  <2> SUFFICES ASSUME CheckInv, request = "done", NEW m \in delivered \cup dropped
               PROVE  m < Upcoming
    BY DEF NeverTwice
  <2>1. /\ pos \in Nat /\ base \in Nat /\ m \in Nat
        /\ cached \in BOOLEAN
        /\ pos = 0 <=> ~cached
    BY DEF CheckInv, GatewayInv, GatewayTypeOK, LinkInv
  <2>2. CASE cached
    <3>1. m < base + saved /\ saved = pos /\ Upcoming = base + pos
      BY <2>1, <2>2 DEF CheckInv, GatewayInv, SessionInv, Upcoming
    <3> QED BY <3>1
  <2>3. CASE ~cached
    <3>1. m <= base /\ Upcoming = base + 1
      BY <2>1, <2>3 DEF CheckInv, GatewayInv, SessionInv, Upcoming
    <3> QED BY <2>1, <3>1
  <2> QED BY <2>2, <2>3
<1> QED BY <1>1, CheckInvHolds, PTL

\* A gateway_task that keeps failing or is over has called on_error.
THEOREM HostToldHolds == CheckSpec => []HostTold
<1>1. CheckInv => HostTold
  BY DEF CheckInv, GatewayInv, ReportInv, HostTold
<1> QED BY <1>1, CheckInvHolds, PTL

\* `pc check` does not pass a bot that the gateway had turned away when
\* poll_last_error looked for the last time.
THEOREM PassMeansNoRefusalHolds == CheckSpec => PassMeansNoRefusal
<1>1. ASSUME CheckInv, [CheckNext]_checkVars
      PROVE  [verdict = "none" /\ verdict' = "pass" => told # "fatal"]_checkVars
  <2> SUFFICES ASSUME CheckNext, verdict = "none", verdict' = "pass"
               PROVE  told # "fatal"
    BY <1>1
  <2>1. Deadline
    BY DEF CheckNext, CheckStep, CheckStart, TakeError, CheckStop, CheckEnd, Conclude,
           opVars
  <2> QED BY <1>1, <2>1 DEF Deadline, CheckInv
<1> QED BY <1>1, CheckInvHolds, PTL DEF CheckSpec, PassMeansNoRefusal
=============================================================================
