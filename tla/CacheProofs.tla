------------------------------ MODULE CacheProofs ------------------------------
(* Proofs about the two components that remember a result: UpdateChecker, for *)
(* any number of processes, any ttl and timeout, and ConfigLoader, for any    *)
(* number of threads, leaves and layers' contents.                            *)
EXTENDS UpdateChecker, ConfigLoader, TLAPS

-------------------------------------------------------------------------------
(* UpdateChecker.                                                             *)

\* Between the response and the end of its call a process has a release.
InFlight == {"response", "write", "rename", "remember"}

\* What is still the latest release has no end.
ClockInv == \A r \in Releases : r >= latest => until[r] = MaxTime + 1

\* An entry was true, Timeout or less before its timestamp.
TrueEntry(e) ==
    e # NoEntry => /\ e \in Entries
                   /\ e.created <= now
                   /\ e.release <= latest
                   /\ until[e.release] >= e.created - Timeout

EntryInv == TrueEntry(disk) /\ \A c \in Checkers : TrueEntry(mem[c])

\* A request is no older than the timeout; the release it brings was the
\* latest when it left, and is not older than the one remembered.
CallInv(c) ==
    /\ started[c] <= now
    /\ pc[c] \in {"load", "memory"} => ~force[c]
    /\ pc[c] \in {"request", "response"} =>
          started[c] <= sent[c] /\ sent[c] <= now /\ now <= sent[c] + Timeout
    /\ pc[c] \in InFlight =>
          /\ body[c] \in Releases
          /\ body[c] <= latest
          /\ body[c] >= mem[c].release
          /\ until[body[c]] >= started[c]
    /\ pc[c] = "response" => until[body[c]] >= sent[c]
    /\ pc[c] \in {"write", "rename", "remember"} =>
          sent[c] <= now /\ until[body[c]] >= sent[c] - Timeout
    /\ pc[c] = "rename" => temp[c] = Entry(c)

IInv == TypeOK /\ ClockInv /\ EntryInv /\ \A c \in Checkers : CallInv(c)

-------------------------------------------------------------------------------
\* The invariant holds at first.
LEMMA InitInv ==
    ASSUME Init
    PROVE  IInv
<1>1. TypeOK
  BY TimesAssumption DEF Init, TypeOK, Times, Releases, Files, Entries, NoEntry
<1>2. ClockInv
  BY DEF Init, ClockInv
<1>3. EntryInv
  BY DEF Init, EntryInv, TrueEntry
<1>4. ASSUME NEW c \in Checkers PROVE CallInv(c)
  BY <1>4 DEF Init, CallInv, InFlight
<1>5. QED  BY <1>1, <1>2, <1>3, <1>4 DEF IInv

\* What a process has in hand is an entry.
LEMMA EntryTyped ==
    ASSUME IInv, NEW c \in Checkers, pc[c] \in {"write", "rename", "remember"}
    PROVE  /\ Entry(c) \in Entries
           /\ TrueEntry(Entry(c))
           /\ Entry(c) # NoEntry
<1>1. body[c] \in Releases /\ sent[c] \in Times
  BY DEF IInv, TypeOK, CallInv, InFlight
<1>2. Entry(c) \in Entries /\ Entry(c).created = sent[c] /\ Entry(c).release = body[c]
  BY <1>1 DEF Entry, Entries
<1>3. TrueEntry(Entry(c))
  BY <1>2 DEF TrueEntry, IInv, CallInv, InFlight
<1>4. Entry(c) # NoEntry
  BY <1>1, <1>2, TimesAssumption DEF NoEntry, Releases
<1>5. QED  BY <1>2, <1>3, <1>4

\* Every step preserves the types.
LEMMA TypeStep ==
    ASSUME IInv, [Next]_vars
    PROVE  TypeOK'
<1> USE TimesAssumption DEF TypeOK
<1>0. TypeOK  BY DEF IInv
<1>1. CASE UNCHANGED vars
  BY <1>0, <1>1 DEF vars, clock, call
<1>2. CASE Tick
  BY <1>0, <1>2 DEF Tick, call, Times
<1>3. CASE Publish
  BY <1>0, <1>3 DEF Publish, call, Releases, Times
<1>4. ASSUME NEW c \in Checkers, Call(c) PROVE TypeOK'
  BY <1>0, <1>4 DEF Call, Goto, clock, Times
<1>5. ASSUME NEW c \in Checkers, Load(c) PROVE TypeOK'
  BY <1>0, <1>5 DEF Load, Goto, clock, call
<1>6. ASSUME NEW c \in Checkers, FromMemory(c) PROVE TypeOK'
  <2>1. mem[c].release \in Releases \cup {0}
    BY <1>0 DEF Entries, NoEntry
  <2>2. CASE Fresh(c)
    <3>1. End(c) /\ answer' = [answer EXCEPT ![c] = mem[c].release]
      BY <1>6, <2>2 DEF FromMemory
    <3>2. answer' \in [Checkers -> Releases \cup {0}]
      BY <1>0, <2>1, <3>1
    <3>3. QED
      BY <1>0, <1>6, <3>1, <3>2 DEF FromMemory, End, Goto, clock, Times, Files
  <2>3. CASE ~Fresh(c)
    BY <1>0, <1>6, <2>3 DEF FromMemory, Goto, clock
  <2>4. QED  BY <2>2, <2>3
<1>7. ASSUME NEW c \in Checkers, Serve(c) PROVE TypeOK'
  BY <1>0, <1>7 DEF Serve, Goto, clock, call
<1>8. ASSUME NEW c \in Checkers, Fail(c) PROVE TypeOK'
  BY <1>0, <1>8 DEF Fail, End, Goto, clock, Times, Files
<1>9. ASSUME NEW c \in Checkers, Accept(c) PROVE TypeOK'
  BY <1>0, <1>9 DEF Accept, Goto, clock
<1>10. ASSUME NEW c \in Checkers, WriteFails(c) PROVE TypeOK'
  BY <1>0, <1>10 DEF WriteFails, Goto, clock, call, Files
<1>11. ASSUME NEW c \in Checkers, WriteTemp(c) PROVE TypeOK'
  <2>1. Entry(c) \in Files
    BY <1>11, EntryTyped DEF WriteTemp, At, Files
  <2>2. QED  BY <1>0, <1>11, <2>1 DEF WriteTemp, Goto, clock, call
<1>12. ASSUME NEW c \in Checkers, Rename(c) PROVE TypeOK'
  BY <1>0, <1>12 DEF Rename, Goto, clock, call, Files
<1>13. ASSUME NEW c \in Checkers, Remember(c) PROVE TypeOK'
  <2>1. Entry(c) \in Entries
    BY <1>13, EntryTyped DEF Remember, At
  <2>2. QED  BY <1>0, <1>13, <2>1 DEF Remember, End, Goto, clock, Times, Files
<1>14. ASSUME NEW c \in Checkers, Crash(c) PROVE TypeOK'
  BY <1>0, <1>14 DEF Crash, End, Goto, clock, Times, Files
<1>15. QED
  BY <1>1, <1>2, <1>3, <1>4, <1>5, <1>6, <1>7, <1>8, <1>9, <1>10, <1>11,
     <1>12, <1>13, <1>14 DEF Next

\* Every step preserves what is known of the releases.
LEMMA ClockStep ==
    ASSUME IInv, [Next]_vars
    PROVE  ClockInv'
<1>1. latest \in Releases /\ until \in [Releases -> Times \cup {MaxTime + 1}] /\ ClockInv
  BY DEF IInv, TypeOK
<1>2. CASE Publish
  BY <1>1, <1>2 DEF Publish, ClockInv, Releases
<1>3. CASE ~Publish
  <2>1. UNCHANGED <<latest, until>>
    BY <1>3 DEF Next, vars, clock, Tick, Call, Load, FromMemory, Serve, Fail,
       Accept, WriteFails, WriteTemp, Rename, Remember, Crash
  <2>2. QED  BY <1>1, <2>1 DEF ClockInv
<1>4. QED  BY <1>2, <1>3

\* Whatever was a true entry stays one: time passes, and the release that a new
\* one replaces was the latest until now.
LEMMA EntryStays ==
    ASSUME IInv, [Next]_vars, NEW e \in Files, TrueEntry(e)
    PROVE  TrueEntry(e)'
<1> USE DEF IInv, TypeOK
<1>1. CASE e = NoEntry
  BY <1>1 DEF TrueEntry
<1>2. CASE e # NoEntry
  <2>0. /\ e \in Entries /\ e.created \in Nat /\ e.release \in Releases
        /\ e.created <= now /\ e.release <= latest
        /\ until[e.release] >= e.created - Timeout
    BY <1>2 DEF TrueEntry, Entries, Times
  <2>1. CASE Tick
    BY <2>0, <2>1 DEF Tick, TrueEntry, Times
  <2>2. CASE Publish
    BY <2>0, <2>2, TimesAssumption DEF Publish, TrueEntry, Times, Releases
  <2>3. CASE ~Tick /\ ~Publish
    <3>1. UNCHANGED clock
      BY <2>3 DEF Next, vars, Call, Load, FromMemory, Serve, Fail, Accept,
         WriteFails, WriteTemp, Rename, Remember, Crash
    <3>2. QED  BY <2>0, <3>1 DEF clock, TrueEntry
  <2>4. QED  BY <2>1, <2>2, <2>3
<1>3. QED  BY <1>1, <1>2

\* A step replaces the file, or a memory, by nothing, by the other one, or by
\* what the process has in hand.
LEMMA EntryMoves ==
    ASSUME IInv, [Next]_vars
    PROVE  /\ \/ disk' = disk
              \/ \E c \in Checkers : pc[c] = "rename" /\ disk' = Entry(c)
           /\ \A c \in Checkers :
                 \/ mem'[c] \in {mem[c], NoEntry}
                 \/ mem[c] = NoEntry /\ mem'[c] = disk /\ disk \in Entries
                 \/ pc[c] = "remember" /\ mem'[c] = Entry(c)
<1>0. mem \in [Checkers -> Entries \cup {NoEntry}]
  BY DEF IInv, TypeOK
<1>1. CASE UNCHANGED vars \/ Tick \/ Publish
  BY <1>1 DEF vars, Tick, Publish
<1>2. ASSUME NEW c \in Checkers,
             \/ Call(c) \/ FromMemory(c) \/ Serve(c) \/ Fail(c) \/ Accept(c)
             \/ WriteFails(c) \/ WriteTemp(c)
      PROVE  UNCHANGED <<disk, mem>>
  BY <1>2 DEF Call, FromMemory, Serve, Fail, Accept, WriteFails, WriteTemp
<1>3. ASSUME NEW c \in Checkers, Load(c)
      PROVE  /\ disk' = disk
             /\ \A d \in Checkers :
                   \/ mem'[d] = mem[d]
                   \/ mem[d] = NoEntry /\ mem'[d] = disk /\ disk \in Entries
  BY <1>0, <1>3 DEF Load
<1>4. ASSUME NEW c \in Checkers, Rename(c)
      PROVE  UNCHANGED mem /\ pc[c] = "rename" /\ disk' = Entry(c)
  BY <1>4 DEF Rename, At, IInv, CallInv
<1>5. ASSUME NEW c \in Checkers, Remember(c)
      PROVE  /\ disk' = disk
             /\ \A d \in Checkers :
                   mem'[d] = mem[d] \/ (pc[d] = "remember" /\ mem'[d] = Entry(d))
  BY <1>0, <1>5 DEF Remember, At
<1>6. ASSUME NEW c \in Checkers, Crash(c)
      PROVE  disk' = disk /\ \A d \in Checkers : mem'[d] \in {mem[d], NoEntry}
  BY <1>0, <1>6 DEF Crash
<1>7. QED
  BY <1>1, <1>2, <1>3, <1>4, <1>5, <1>6 DEF Next

\* Every step keeps the entries true.
LEMMA EntryStep ==
    ASSUME IInv, [Next]_vars
    PROVE  EntryInv'
<1>1. /\ disk \in Files /\ TrueEntry(disk)
      /\ \A c \in Checkers : mem[c] \in Files /\ TrueEntry(mem[c])
  BY DEF IInv, EntryInv, TypeOK, Files
<1>2. \A c \in Checkers : pc[c] \in {"rename", "remember"} =>
         Entry(c) \in Files /\ TrueEntry(Entry(c))
  BY EntryTyped DEF Files
<1>3. NoEntry \in Files /\ TrueEntry(NoEntry)
  BY DEF Files, TrueEntry
<1>4. \A e \in Files : TrueEntry(e) => TrueEntry(e)'
  BY EntryStays
<1>5. \E e \in Files : disk' = e /\ TrueEntry(e)
  BY <1>1, <1>2, EntryMoves
<1>6. TrueEntry(disk)'
  BY <1>4, <1>5 DEF TrueEntry
<1>7. ASSUME NEW c \in Checkers
      PROVE  TrueEntry(mem[c])'
  <2>1. \E e \in Files : mem'[c] = e /\ TrueEntry(e)
    BY <1>1, <1>2, <1>3, EntryMoves
  <2>2. QED  BY <1>4, <2>1 DEF TrueEntry
<1>8. QED  BY <1>6, <1>7 DEF EntryInv

\* Every step keeps what is known of a call.
LEMMA CallStep ==
    ASSUME IInv, [Next]_vars, NEW c \in Checkers
    PROVE  CallInv(c)'
<1> USE TimesAssumption DEF IInv, InFlight
<1>0. TypeOK /\ ClockInv /\ CallInv(c) /\ TrueEntry(mem[c]) /\ TrueEntry(disk)
  BY DEF EntryInv
<1>1. CASE UNCHANGED vars
  BY <1>0, <1>1 DEF vars, clock, call, CallInv, Entry
<1>2. CASE Tick
  BY <1>0, <1>2 DEF Tick, call, CallInv, TypeOK, Times, Entry
<1>3. CASE Publish
  <2>1. /\ latest' = latest + 1 /\ latest \in Nat
        /\ until' = [until EXCEPT ![latest] = now]
        /\ UNCHANGED <<now, pc, force, started, sent, body, mem, temp>>
    BY <1>0, <1>3 DEF Publish, TypeOK, Releases, call
  <2>2. \A r \in Releases : until'[r] = until[r] \/ until'[r] = now
    BY <1>0, <2>1 DEF TypeOK
  <2>3. now \in Nat /\ started[c] \in Nat /\ sent[c] \in Nat
    BY <1>0 DEF TypeOK, Times
  <2>4. pc[c] \in InFlight =>
           body'[c] = body[c] /\ (until'[body[c]] = until[body[c]] \/ until'[body[c]] = now)
    BY <1>0, <2>1, <2>2 DEF CallInv
  <2>5. Entry(c)' = Entry(c)
    BY <2>1 DEF Entry
  <2>6. pc[c] \in InFlight => body[c] \in Nat
    BY <1>0 DEF CallInv, Releases
  <2>7. QED
    BY <1>0, <2>1, <2>3, <2>4, <2>5, <2>6 DEF CallInv
\* Steps of another process.
<1>4. ASSUME NEW d \in Checkers, d # c,
             \/ Call(d) \/ Load(d) \/ FromMemory(d) \/ Serve(d) \/ Fail(d)
             \/ Accept(d) \/ WriteFails(d) \/ WriteTemp(d) \/ Rename(d)
             \/ Remember(d) \/ Crash(d)
      PROVE  CallInv(c)'
  <2>1. /\ UNCHANGED clock
        /\ pc'[c] = pc[c] /\ force'[c] = force[c] /\ started'[c] = started[c]
        /\ sent'[c] = sent[c] /\ body'[c] = body[c] /\ mem'[c] = mem[c]
        /\ temp'[c] = temp[c]
    BY <1>0, <1>4 DEF TypeOK, call, Call, Load, FromMemory, Serve, Fail, Accept,
       WriteFails, WriteTemp, Rename, Remember, Crash, Goto, End
  <2>2. QED  BY <1>0, <2>1 DEF clock, CallInv, Entry
<1>5. CASE Call(c)
  BY <1>0, <1>5 DEF Call, Goto, At, CallInv, TypeOK, Times, clock
<1>6. CASE Load(c)
  BY <1>0, <1>6 DEF Load, Goto, At, CallInv, TypeOK, clock, call
<1>7. CASE FromMemory(c) /\ pc'[c] = "request"
  BY <1>0, <1>7 DEF FromMemory, Goto, At, CallInv, TypeOK, Times, clock, End
<1>8. CASE \/ FromMemory(c) /\ pc'[c] # "request"
           \/ Fail(c) \/ Remember(c) \/ Crash(c)
  <2>1. End(c) /\ UNCHANGED clock
    BY <1>0, <1>8 DEF FromMemory, Fail, Remember, Crash, Goto, At, TypeOK
  <2>2. pc'[c] = "idle" /\ started'[c] = 0 /\ now' = now
    BY <1>0, <2>1 DEF End, Goto, TypeOK, clock
  <2>3. QED  BY <1>0, <2>2 DEF CallInv, TypeOK, Times
<1>9. CASE Serve(c)
  <2>1. mem[c].release <= latest
    BY <1>0 DEF TrueEntry, NoEntry, TypeOK, Releases
  <2>2. until[latest] = MaxTime + 1
    BY <1>0 DEF ClockInv, TypeOK, Releases
  <2>3. QED
    BY <1>0, <1>9, <2>1, <2>2 DEF Serve, Goto, At, CallInv, TypeOK, Times,
       Releases, clock, call
<1>10. CASE Accept(c)
  BY <1>0, <1>10 DEF Accept, Goto, At, CallInv, TypeOK, Times, Releases, clock, call
<1>11. CASE WriteFails(c)
  BY <1>0, <1>11 DEF WriteFails, Goto, CallInv, TypeOK, clock, call
<1>12. CASE WriteTemp(c)
  BY <1>0, <1>12 DEF WriteTemp, Goto, At, CallInv, TypeOK, clock, call, Entry
<1>13. CASE Rename(c)
  BY <1>0, <1>13 DEF Rename, Goto, At, CallInv, TypeOK, clock, call
<1>14. QED
  BY <1>1, <1>2, <1>3, <1>4, <1>5, <1>6, <1>7, <1>8, <1>9, <1>10, <1>11,
     <1>12, <1>13 DEF Next

-------------------------------------------------------------------------------
\* The inductive invariant: what a request brings was the latest release while
\* it was on its way, and what is stored was so shortly before its timestamp.
THEOREM Invariant == Spec => []IInv
<1>1. Init => IInv
  BY InitInv
<1>2. IInv /\ [Next]_vars => IInv'
  BY TypeStep, ClockStep, EntryStep, CallStep DEF IInv
<1>3. QED  BY <1>1, <1>2, PTL DEF Spec

\* Type correctness: entries and times stay in their bounds, and no stage of a
\* call leaves what the next one needs undefined.
THEOREM TypeCorrect == Spec => []TypeOK
<1>1. IInv => TypeOK
  BY DEF IInv
<1>2. QED  BY <1>1, Invariant, PTL

\* Every entry a checker may use was true when it was stamped, or Timeout or
\* less before, and the file is never half written.
THEOREM TrueCache == Spec => []CacheIsTrue
<1>1. IInv => CacheIsTrue
  BY DEF IInv, EntryInv, TrueEntry, CacheIsTrue
<1>2. QED  BY <1>1, Invariant, PTL

\* A Checker never goes back to an older release.
THEOREM NeverBack == Spec => NeverGoesBack
<1>1. IInv /\ [Next]_vars =>
        [\A c \in Checkers : mem[c] # NoEntry /\ mem'[c] # NoEntry
                                => mem'[c].release >= mem[c].release]_vars
  <2>1. SUFFICES ASSUME IInv, [Next]_vars, NEW c \in Checkers,
                        mem[c] # NoEntry, mem'[c] # NoEntry
                 PROVE  mem'[c].release >= mem[c].release
    OBVIOUS
  <2>2. mem[c] \in Entries
    BY <2>1 DEF IInv, TypeOK
  <2>3. CASE mem'[c] = mem[c]
    BY <2>2, <2>3 DEF Entries, Releases
  <2>4. CASE pc[c] = "remember" /\ mem'[c] = Entry(c)
    <3>1. Entry(c).release = body[c]
      BY DEF Entry
    <3>2. QED  BY <2>1, <2>4, <3>1 DEF IInv, CallInv, InFlight
  <2>5. QED  BY <2>1, <2>3, <2>4, EntryMoves
<1>2. QED  BY <1>1, Invariant, PTL DEF Spec, NeverGoesBack

\* An answer is recent, and one that was asked for by force is not older than
\* the call; for a ttl and a timeout of zero nothing would be, as a release may
\* be replaced at the tick of its request.
THEOREM Recent ==
    ASSUME Ttl + Timeout > 0
    PROVE  Spec => AnswerIsRecent
<1>1. ASSUME IInv, [Next]_vars, NEW c \in Checkers,
             pc[c] # "idle", pc'[c] = "idle", answer'[c] # 0
      PROVE  /\ until[answer'[c]] > started[c] - Ttl - Timeout
             /\ force[c] => until[answer'[c]] >= started[c]
  <2>0. /\ TypeOK /\ CallInv(c) /\ TrueEntry(mem[c])
        /\ Ttl \in Nat /\ Timeout \in Nat /\ started[c] \in Nat
    BY <1>1, TimesAssumption DEF IInv, EntryInv, TypeOK, Times
  <2>1. (FromMemory(c) /\ Fresh(c)) \/ Remember(c)
    BY <1>1, <2>0 DEF TypeOK, Next, vars, Tick, Publish, Call, Load, FromMemory,
       Serve, Fail, Accept, WriteFails, WriteTemp, Rename, Remember, Crash, Goto,
       At, End
  <2>2. CASE FromMemory(c) /\ Fresh(c)
    <3>1. answer'[c] = mem[c].release /\ ~force[c]
      BY <2>0, <2>2 DEF FromMemory, At, CallInv, TypeOK
    <3>2. /\ mem[c] \in Entries /\ until[mem[c].release] >= mem[c].created - Timeout
          /\ started[c] - mem[c].created < Ttl
      BY <2>2, <2>0 DEF Fresh, TrueEntry
    <3>3. until[mem[c].release] \in Int /\ mem[c].created \in Int
      BY <2>0, <3>2, TimesAssumption DEF TypeOK, Entries, Times
    <3>4. QED  BY <2>0, <3>1, <3>2, <3>3
  <2>3. CASE Remember(c)
    <3>1. answer'[c] = body[c] /\ body[c] \in Releases /\ until[body[c]] >= started[c]
      BY <2>0, <2>3 DEF Remember, At, CallInv, InFlight, TypeOK
    <3>2. until[body[c]] \in Int
      BY <2>0, <3>1, TimesAssumption DEF TypeOK, Times
    <3>3. QED  BY <1>1, <2>0, <3>1, <3>2
  <2>4. QED  BY <2>1, <2>2, <2>3
<1>2. IInv /\ [Next]_vars =>
        [\A c \in Checkers : pc[c] # "idle" /\ pc'[c] = "idle" /\ answer'[c] # 0 =>
            /\ until[answer'[c]] > started[c] - Ttl - Timeout
            /\ force[c] => until[answer'[c]] >= started[c] ]_vars
  BY <1>1
<1>3. QED  BY <1>2, Invariant, PTL DEF Spec, AnswerIsRecent

-------------------------------------------------------------------------------
(* ConfigLoader.                                                              *)

\* A layer's content over a configuration is a configuration, whose sections are
\* null as a whole; a leaf that the layer leaves out of a section that is not null
\* stays what it was.
LEMMA OverConfig ==
    ASSUME ConstantsFit, NEW under \in Configs, NullsMatch(under), NEW overlay \in Overlays
    PROVE  /\ Over(overlay, under) \in Configs
           /\ NullsMatch(Over(overlay, under))
           /\ \A l \in Leaves \ DOMAIN overlay :
                 under[l] # Null => Over(overlay, under)[l] = under[l]
<1> DEFINE over == Over(overlay, under)
           begun == {Section[l] : l \in {k \in DOMAIN overlay : under[k] = Null}}
<1>1. PICK D \in SUBSET Leaves : overlay \in [D -> Values]
  BY DEF Overlays
<1>2. over = [l \in Leaves |-> IF l \in D THEN overlay[l]
                              ELSE IF Section[l] \in begun THEN Begun[l] ELSE under[l]]
  BY <1>1 DEF Over
<1>3. \A l \in Leaves : Section[l] \in begun => under[l] = Null
  BY <1>1 DEF NullsMatch
<1>4. /\ \A l \in D : overlay[l] \in Values
      /\ \A l \in Leaves : Begun[l] \in Values /\ under[l] \in Values \cup {Null}
  BY <1>1 DEF ConstantsFit, Configs
<1>5. over \in Configs
  <2> HIDE DEF begun, over
  <2>1. \A l \in Leaves : over[l] \in Values \cup {Null}
    BY <1>2, <1>4
  <2>2. over = [l \in Leaves |-> over[l]]
    BY <1>2
  <2> QED  BY <2>1, <2>2 DEF Configs
<1>6. \A l \in Leaves : over[l] = Null <=> under[l] = Null /\ l \notin D /\ Section[l] \notin begun
  <2> HIDE DEF begun, over
  <2>1. Null \notin Values
    BY DEF ConstantsFit
  <2> QED  BY <1>2, <1>3, <1>4, <2>1
<1>7. \A l \in D : under[l] = Null => Section[l] \in begun
  BY <1>1
<1>8. \A l \in Leaves : over[l] = Null <=> under[l] = Null /\ Section[l] \notin begun
  BY <1>6, <1>7
<1>9. NullsMatch(over)
  <2> HIDE DEF begun, over
  <2> QED  BY <1>8 DEF NullsMatch
<1>10. \A l \in Leaves \ DOMAIN overlay : under[l] # Null => over[l] = under[l]
  <2> HIDE DEF begun, over
  <2> QED  BY <1>1, <1>2, <1>3
<1> QED  BY <1>5, <1>9, <1>10

\* merge_file ends in a configuration or an error, and leaves the maps alone that no
\* null hides from it.
LEMMA FileMerges ==
    ASSUME ConstantsFit, NEW under \in Configs, NullsMatch(under), NEW overlay \in Contents
    PROVE  /\ MergeFile(overlay, under) \in Results
           /\ MergeFile(overlay, under) # Err =>
                 /\ MergeFile(overlay, under) \in Configs
                 /\ NullsMatch(MergeFile(overlay, under))
                 /\ \A l \in MapFields \cap Leaves :
                       under[l] # Null => MergeFile(overlay, under)[l] = under[l]
<1>1. CASE overlay \in {Bad, NotUnicode} \/ SetsMap(overlay, under)
  <2>1. MergeFile(overlay, under) = Err
    BY <1>1 DEF MergeFile
  <2> QED  BY <2>1 DEF Results
<1>2. CASE ~(overlay \in {Bad, NotUnicode} \/ SetsMap(overlay, under))
  <2>1. MergeFile(overlay, under) = Over(overlay, under)
    BY <1>2 DEF MergeFile
  <2>2. overlay \in Overlays
    BY <1>2 DEF Contents
  <2>3. \A l \in MapFields \cap Leaves : under[l] # Null => l \notin DOMAIN overlay
    BY <1>2 DEF SetsMap
  <2> QED  BY <2>1, <2>2, <2>3, OverConfig DEF Results
<1> QED  BY <1>1, <1>2

\* The environment's variables too, and they set no map at all.
LEMMA EnvMerges ==
    ASSUME ConstantsFit, NEW under \in Configs, NullsMatch(under),
           NEW overlay \in Overlays \cup {Bad}
    PROVE  /\ MergeEnv(overlay, under) \in Results
           /\ MergeEnv(overlay, under) # Err =>
                 /\ MergeEnv(overlay, under) \in Configs
                 /\ \A l \in MapFields \cap Leaves : MergeEnv(overlay, under)[l] = under[l]
<1>1. CASE overlay = Bad
  <2>1. MergeEnv(overlay, under) = Err
    BY <1>1 DEF MergeEnv
  <2> QED  BY <2>1 DEF Results
<1>2. CASE overlay # Bad
  <2> DEFINE merged == [l \in Leaves |-> IF l \in Overrides(overlay, under)
                                        THEN overlay[l] ELSE under[l]]
  <2>1. PICK D \in SUBSET Leaves : overlay \in [D -> Values]
    BY <1>2 DEF Overlays
  <2>2. MergeEnv(overlay, under) = merged
    BY <1>2 DEF MergeEnv
  <2>3. \A l \in Overrides(overlay, under) : overlay[l] \in Values
    BY <2>1 DEF Overrides
  <2>4. merged \in Configs
    BY <2>3 DEF Configs
  <2>5. \A l \in MapFields \cap Leaves : merged[l] = under[l]
    BY DEF Overrides
  <2> QED  BY <2>2, <2>4, <2>5 DEF Results
<1> QED  BY <1>1, <1>2

-------------------------------------------------------------------------------
\* The invariant holds at first.
LEMMA LoaderInitInv ==
    ASSUME ConstantsFit, LoaderInit
    PROVE  LoaderInv
<1>1. LoaderTypeOK
  BY DEF LoaderInit, LoaderTypeOK, ConstantsFit, Results, Reading, Answers, NoAnswer
<1>2. MutexInv
  BY DEF LoaderInit, MutexInv, ConstantsFit, Reading
<1>3. CacheInv /\ LoadsAgree /\ ResetIsFinal
  BY DEF LoaderInit, CacheInv, LoadsAgree, ResetIsFinal, Loaded, NoAnswer
<1>4. ConfigInv /\ MapsAreDefaults
  BY DEF LoaderInit, ConfigInv, MapsAreDefaults, Keeps, Merging, ConstantsFit, NoAnswer, Results
<1>5. QED  BY <1>1, <1>2, <1>3, <1>4 DEF LoaderInv

\* Every step preserves the types.
LEMMA LoaderTypeStep ==
    ASSUME ConstantsFit, LoaderInv, [LoaderNext]_loader
    PROVE  LoaderTypeOK'
<1> USE DEF LoaderInv
<1>1. CASE UNCHANGED loader
  BY <1>1 DEF LoaderTypeOK, loader, shared, threads
<1>2. CASE Change
  BY <1>2 DEF LoaderTypeOK, Change, shared, threads
<1>3. ASSUME NEW t \in Threads, NEW o \in {"load", "reload", "reset"}, CallLoader(t, o)
      PROVE  LoaderTypeOK'
  BY <1>3 DEF LoaderTypeOK, CallLoader, GoesTo, shared, Reading
<1>4. ASSUME NEW t \in Threads, LockPanics(t)
      PROVE  LoaderTypeOK'
  BY <1>4 DEF LoaderTypeOK, LockPanics, Enter, Return, GoesTo, shared, Reading, Answers
<1>5. ASSUME NEW t \in Threads, ReturnCached(t)
      PROVE  LoaderTypeOK'
  BY <1>5 DEF LoaderTypeOK, ReturnCached, Enter, Return, GoesTo, shared, Reading, Answers
<1>6. ASSUME NEW t \in Threads, StartLoad(t)
      PROVE  LoaderTypeOK'
  BY <1>6 DEF LoaderTypeOK, StartLoad, Enter, GoesTo, Reading
<1>7. ASSUME NEW t \in Threads, ResetCache(t)
      PROVE  LoaderTypeOK'
  BY <1>7 DEF LoaderTypeOK, ResetCache, Enter, Return, GoesTo, Reading, Answers
<1>8. ASSUME NEW t \in Threads, TakeDefaults(t)
      PROVE  LoaderTypeOK'
  BY <1>8 DEF LoaderTypeOK, TakeDefaults, Merges, GoesTo, shared, Reading, ConstantsFit, Results
<1>9. ASSUME NEW t \in Threads, DefaultsPanic(t) \/ HomeGone(t) \/ VarsPanic(t)
      PROVE  LoaderTypeOK'
  <2>1. Panics(t)
    BY <1>9 DEF DefaultsPanic, HomeGone, VarsPanic
  <2> QED  BY <2>1 DEF LoaderTypeOK, Panics, Return, GoesTo, Reading, Answers
<1>10. ASSUME NEW t \in Threads, ReadGlobal(t)
       PROVE  LoaderTypeOK'
  <2>1. config[t] \in Configs /\ NullsMatch(config[t])
    BY <1>10 DEF ReadGlobal, IsAt, ConfigInv, Merging
  <2>2. MergeFile(layers["global"], config[t]) \in Results
    BY <2>1, FileMerges DEF LoaderTypeOK, Layers
  <2>3. QED
    BY <1>10, <2>2 DEF LoaderTypeOK, ReadGlobal, Merges, GoesTo, shared, Reading
<1>11. ASSUME NEW t \in Threads, ReadProject(t)
       PROVE  LoaderTypeOK'
  <2>1. config[t] \in Configs /\ NullsMatch(config[t])
    BY <1>11 DEF ReadProject, IsAt, ConfigInv, Merging
  <2>2. MergeFile(layers["project"], config[t]) \in Results
    BY <2>1, FileMerges DEF LoaderTypeOK, Layers
  <2>3. QED
    BY <1>11, <2>2 DEF LoaderTypeOK, ReadProject, Merges, GoesTo, shared, Reading
<1>12. ASSUME NEW t \in Threads, ReadEnv(t)
       PROVE  LoaderTypeOK'
  <2>1. config[t] \in Configs /\ NullsMatch(config[t])
    BY <1>12 DEF ReadEnv, IsAt, ConfigInv, Merging
  <2>2. MergeEnv(layers["env"], config[t]) \in Results
    BY <1>12, <2>1, EnvMerges DEF LoaderTypeOK, Layers, Contents, ReadEnv
  <2>3. QED
    BY <1>12, <2>2 DEF LoaderTypeOK, ReadEnv, Merges, GoesTo, shared, Reading
<1>13. ASSUME NEW t \in Threads, EndLoad(t)
       PROVE  LoaderTypeOK'
  BY <1>13 DEF LoaderTypeOK, EndLoad, Return, GoesTo, Reading, Answers
<1>14. QED
  BY <1>1, <1>2, <1>3, <1>4, <1>5, <1>6, <1>7, <1>8, <1>9, <1>10, <1>11, <1>12, <1>13
     DEF LoaderNext, LoaderStep

\* Every step preserves that the mutex is held by the thread that reads for the
\* cache.
LEMMA MutexStep ==
    ASSUME ConstantsFit, LoaderInv, [LoaderNext]_loader
    PROVE  MutexInv'
<1> USE DEF LoaderInv, MutexInv, Reading
<1>1. CASE UNCHANGED loader
  BY <1>1 DEF loader, shared, threads
<1>2. CASE Change
  BY <1>2 DEF Change, shared, threads
<1>3. ASSUME NEW t \in Threads, NEW o \in {"load", "reload", "reset"}, CallLoader(t, o)
      PROVE  MutexInv'
  BY <1>3 DEF LoaderTypeOK, CallLoader, IsAt, GoesTo, shared
<1>4. ASSUME NEW t \in Threads, LockPanics(t)
      PROVE  MutexInv'
  BY <1>4 DEF LoaderTypeOK, LockPanics, Enter, IsAt, Return, GoesTo, shared
<1>5. ASSUME NEW t \in Threads, ReturnCached(t)
      PROVE  MutexInv'
  BY <1>5 DEF LoaderTypeOK, ReturnCached, Enter, IsAt, Return, GoesTo, shared
<1>6. ASSUME NEW t \in Threads, StartLoad(t)
      PROVE  MutexInv'
  BY <1>6 DEF LoaderTypeOK, StartLoad, Enter, IsAt, GoesTo, ConstantsFit
<1>7. ASSUME NEW t \in Threads, ResetCache(t)
      PROVE  MutexInv'
  BY <1>7 DEF LoaderTypeOK, ResetCache, Enter, IsAt, Return, GoesTo, ConstantsFit
<1>8. ASSUME NEW t \in Threads, TakeDefaults(t)
      PROVE  MutexInv'
  BY <1>8 DEF LoaderTypeOK, TakeDefaults, IsAt, Merges, GoesTo, shared
<1>9. ASSUME NEW t \in Threads, DefaultsPanic(t) \/ HomeGone(t) \/ VarsPanic(t)
      PROVE  MutexInv'
  BY <1>9 DEF LoaderTypeOK, DefaultsPanic, HomeGone, VarsPanic, Panics, IsAt, Return, GoesTo, ConstantsFit
<1>10. ASSUME NEW t \in Threads, ReadGlobal(t)
       PROVE  MutexInv'
  BY <1>10 DEF LoaderTypeOK, ReadGlobal, IsAt, Merges, GoesTo, shared
<1>11. ASSUME NEW t \in Threads, ReadProject(t)
       PROVE  MutexInv'
  BY <1>11 DEF LoaderTypeOK, ReadProject, IsAt, Merges, GoesTo, shared
<1>12. ASSUME NEW t \in Threads, ReadEnv(t)
       PROVE  MutexInv'
  BY <1>12 DEF LoaderTypeOK, ReadEnv, IsAt, Merges, GoesTo, shared
<1>13. ASSUME NEW t \in Threads, EndLoad(t)
       PROVE  MutexInv'
  BY <1>13 DEF LoaderTypeOK, EndLoad, IsAt, Return, GoesTo, ConstantsFit
<1>14. QED
  BY <1>1, <1>2, <1>3, <1>4, <1>5, <1>6, <1>7, <1>8, <1>9, <1>10, <1>11, <1>12, <1>13
     DEF LoaderNext, LoaderStep

\* Every step preserves that what is kept is what every load since the last reset
\* has returned.
LEMMA CacheStep ==
    ASSUME ConstantsFit, LoaderInv, [LoaderNext]_loader
    PROVE  CacheInv' /\ LoadsAgree' /\ ResetIsFinal'
<1> USE DEF LoaderInv, CacheInv, LoadsAgree, ResetIsFinal, Loaded
<1>1. CASE UNCHANGED loader
  BY <1>1 DEF loader, shared, threads
<1>2. CASE Change
  BY <1>2 DEF Change, shared, threads
<1>3. ASSUME NEW t \in Threads, NEW o \in {"load", "reload", "reset"}, CallLoader(t, o)
      PROVE  CacheInv' /\ LoadsAgree' /\ ResetIsFinal'
  BY <1>3 DEF LoaderTypeOK, CallLoader, IsAt, GoesTo, shared
<1>4. ASSUME NEW t \in Threads, LockPanics(t)
      PROVE  CacheInv' /\ LoadsAgree' /\ ResetIsFinal'
  BY <1>4 DEF LoaderTypeOK, LockPanics, Enter, IsAt, Return, GoesTo, shared
<1>5. ASSUME NEW t \in Threads, ReturnCached(t)
      PROVE  CacheInv' /\ LoadsAgree' /\ ResetIsFinal'
  BY <1>5 DEF LoaderTypeOK, ReturnCached, Enter, IsAt, Return, GoesTo, shared, ConstantsFit
<1>6. ASSUME NEW t \in Threads, StartLoad(t)
      PROVE  CacheInv' /\ LoadsAgree' /\ ResetIsFinal'
  BY <1>6 DEF LoaderTypeOK, StartLoad, Enter, IsAt, GoesTo
<1>7. ASSUME NEW t \in Threads, ResetCache(t)
      PROVE  CacheInv' /\ LoadsAgree' /\ ResetIsFinal'
  <2>1. /\ cache' = None /\ resets' = resets + 1 /\ resets \in Nat
        /\ began' = began /\ returned'[t].op = "reset"
        /\ \A u \in Threads \ {t} : returned'[u] = returned[u]
    BY <1>7 DEF LoaderTypeOK, ResetCache, Enter, IsAt, Return, GoesTo
  <2>2. \A u \in Threads : Loaded(u)' => returned'[u] = returned[u] /\ Loaded(u)
    BY <2>1
  <2>3. \A u \in Threads : returned[u].read \in Nat /\ began[u] \in Nat
    BY DEF LoaderTypeOK, Answers
  <2>4. CacheInv'
    BY <2>1, <2>2, <2>3
  <2>5. LoadsAgree' /\ ResetIsFinal'
    BY <2>1, <2>2
  <2>6. QED  BY <2>4, <2>5
<1>8. ASSUME NEW t \in Threads, TakeDefaults(t)
      PROVE  CacheInv' /\ LoadsAgree' /\ ResetIsFinal'
  BY <1>8 DEF LoaderTypeOK, TakeDefaults, IsAt, Merges, GoesTo, shared
<1>9. ASSUME NEW t \in Threads, DefaultsPanic(t) \/ HomeGone(t) \/ VarsPanic(t)
      PROVE  CacheInv' /\ LoadsAgree' /\ ResetIsFinal'
  BY <1>9 DEF LoaderTypeOK, DefaultsPanic, HomeGone, VarsPanic, Panics, IsAt, Return, GoesTo
<1>10. ASSUME NEW t \in Threads, ReadGlobal(t)
       PROVE  CacheInv' /\ LoadsAgree' /\ ResetIsFinal'
  BY <1>10 DEF LoaderTypeOK, ReadGlobal, IsAt, Merges, GoesTo, shared
<1>11. ASSUME NEW t \in Threads, ReadProject(t)
       PROVE  CacheInv' /\ LoadsAgree' /\ ResetIsFinal'
  BY <1>11 DEF LoaderTypeOK, ReadProject, IsAt, Merges, GoesTo, shared
<1>12. ASSUME NEW t \in Threads, ReadEnv(t)
       PROVE  CacheInv' /\ LoadsAgree' /\ ResetIsFinal'
  BY <1>12 DEF LoaderTypeOK, ReadEnv, IsAt, Merges, GoesTo, shared
<1>13. ASSUME NEW t \in Threads, EndLoad(t)
       PROVE  CacheInv' /\ LoadsAgree' /\ ResetIsFinal'
  BY <1>13 DEF LoaderTypeOK, EndLoad, IsAt, Return, GoesTo, MutexInv, Reading, ConstantsFit, Answers
<1>14. QED
  BY <1>1, <1>2, <1>3, <1>4, <1>5, <1>6, <1>7, <1>8, <1>9, <1>10, <1>11, <1>12, <1>13
     DEF LoaderNext, LoaderStep

\* Every step leaves the maps that no null hides at their defaults.
LEMMA ConfigStep ==
    ASSUME ConstantsFit, LoaderInv, [LoaderNext]_loader
    PROVE  ConfigInv' /\ MapsAreDefaults'
<1> USE DEF LoaderInv, ConfigInv, MapsAreDefaults, Merging
<1>1. CASE UNCHANGED loader
  BY <1>1 DEF loader, shared, threads
<1>2. CASE Change
  BY <1>2 DEF Change, shared, threads
<1>3. ASSUME NEW t \in Threads, NEW o \in {"load", "reload", "reset"}, CallLoader(t, o)
      PROVE  ConfigInv' /\ MapsAreDefaults'
  BY <1>3 DEF LoaderTypeOK, CallLoader, IsAt, GoesTo, shared
<1>4. ASSUME NEW t \in Threads, LockPanics(t)
      PROVE  ConfigInv' /\ MapsAreDefaults'
  BY <1>4 DEF LoaderTypeOK, LockPanics, Enter, IsAt, Return, GoesTo, shared, Keeps, ConstantsFit, Results
<1>5. ASSUME NEW t \in Threads, ReturnCached(t)
      PROVE  ConfigInv' /\ MapsAreDefaults'
  BY <1>5 DEF LoaderTypeOK, ReturnCached, Enter, IsAt, Return, GoesTo, shared
<1>6. ASSUME NEW t \in Threads, StartLoad(t)
      PROVE  ConfigInv' /\ MapsAreDefaults'
  BY <1>6 DEF LoaderTypeOK, StartLoad, Enter, IsAt, GoesTo
<1>7. ASSUME NEW t \in Threads, ResetCache(t)
      PROVE  ConfigInv' /\ MapsAreDefaults'
  BY <1>7 DEF LoaderTypeOK, ResetCache, Enter, IsAt, Return, GoesTo, Keeps, ConstantsFit, Results
<1>8. ASSUME NEW t \in Threads, TakeDefaults(t)
      PROVE  ConfigInv' /\ MapsAreDefaults'
  BY <1>8 DEF LoaderTypeOK, TakeDefaults, IsAt, Merges, GoesTo, shared, Keeps, ConstantsFit
<1>9. ASSUME NEW t \in Threads, DefaultsPanic(t) \/ HomeGone(t) \/ VarsPanic(t)
      PROVE  ConfigInv' /\ MapsAreDefaults'
  BY <1>9 DEF LoaderTypeOK, DefaultsPanic, HomeGone, VarsPanic, Panics, IsAt, Return, GoesTo, Keeps, ConstantsFit, Results
<1>10. ASSUME NEW t \in Threads, ReadGlobal(t)
       PROVE  ConfigInv' /\ MapsAreDefaults'
  <2>1. config[t] \in Configs /\ NullsMatch(config[t]) /\ Keeps(config[t])
    BY <1>10 DEF ReadGlobal, IsAt
  <2>2. layers["global"] \in Contents
    BY DEF LoaderTypeOK, Layers
  <2> DEFINE merged == MergeFile(layers["global"], config[t])
  <2>3. /\ merged \in Results /\ Keeps(merged)
        /\ merged # Err => merged \in Configs /\ NullsMatch(merged)
    BY <2>1, <2>2, FileMerges DEF Results, Keeps, ConstantsFit
  <2>4. QED
    BY <1>10, <2>1, <2>3 DEF LoaderTypeOK, ReadGlobal, Merges, GoesTo, shared, Results
<1>11. ASSUME NEW t \in Threads, ReadProject(t)
       PROVE  ConfigInv' /\ MapsAreDefaults'
  <2>1. config[t] \in Configs /\ NullsMatch(config[t]) /\ Keeps(config[t])
    BY <1>11 DEF ReadProject, IsAt
  <2>2. layers["project"] \in Contents
    BY DEF LoaderTypeOK, Layers
  <2> DEFINE merged == MergeFile(layers["project"], config[t])
  <2>3. /\ merged \in Results /\ Keeps(merged)
        /\ merged # Err => merged \in Configs /\ NullsMatch(merged)
    BY <2>1, <2>2, FileMerges DEF Results, Keeps, ConstantsFit
  <2>4. QED
    BY <1>11, <2>1, <2>3 DEF LoaderTypeOK, ReadProject, Merges, GoesTo, shared, Results
<1>12. ASSUME NEW t \in Threads, ReadEnv(t)
       PROVE  ConfigInv' /\ MapsAreDefaults'
  <2>1. config[t] \in Configs /\ NullsMatch(config[t]) /\ Keeps(config[t])
    BY <1>12 DEF ReadEnv, IsAt
  <2>2. layers["env"] \in Overlays \cup {Bad}
    BY <1>12 DEF LoaderTypeOK, Layers, Contents, ReadEnv
  <2> DEFINE merged == MergeEnv(layers["env"], config[t])
  <2>3. merged \in Results /\ Keeps(merged)
    BY <2>1, <2>2, EnvMerges DEF Results, Keeps, ConstantsFit
  <2>4. QED
    BY <1>12, <2>1, <2>3 DEF LoaderTypeOK, ReadEnv, Merges, GoesTo, shared, Results
<1>13. ASSUME NEW t \in Threads, EndLoad(t)
       PROVE  ConfigInv' /\ MapsAreDefaults'
  BY <1>13 DEF LoaderTypeOK, EndLoad, IsAt, Return, GoesTo
<1>14. QED
  BY <1>1, <1>2, <1>3, <1>4, <1>5, <1>6, <1>7, <1>8, <1>9, <1>10, <1>11, <1>12, <1>13
     DEF LoaderNext, LoaderStep

-------------------------------------------------------------------------------
\* The inductive invariant.
THEOREM LoaderInvariant ==
    ASSUME ConstantsFit
    PROVE  LoaderSpec => []LoaderInv
<1>1. LoaderInit => LoaderInv
  BY LoaderInitInv
<1>2. LoaderInv /\ [LoaderNext]_loader => LoaderInv'
  BY LoaderTypeStep, MutexStep, CacheStep, ConfigStep DEF LoaderInv
<1>3. QED  BY <1>1, <1>2, PTL DEF LoaderSpec

\* Type correctness of the loader.
THEOREM LoaderTypeCorrect ==
    ASSUME ConstantsFit
    PROVE  LoaderSpec => []LoaderTypeOK
<1>1. LoaderInv => LoaderTypeOK
  BY DEF LoaderInv
<1>2. QED  BY <1>1, LoaderInvariant, PTL

\* All loads between two resets return the same result, whatever changes.
THEOREM FirstResultKept ==
    ASSUME ConstantsFit
    PROVE  LoaderSpec => []LoadsAgree
<1>1. LoaderInv => LoadsAgree
  BY DEF LoaderInv
<1>2. QED  BY <1>1, LoaderInvariant, PTL

\* No load that is called after a reset gets what was read before it.
THEOREM ResetHolds ==
    ASSUME ConstantsFit
    PROVE  LoaderSpec => []ResetIsFinal
<1>1. LoaderInv => ResetIsFinal
  BY DEF LoaderInv
<1>2. QED  BY <1>1, LoaderInvariant, PTL

\* A map that no null hides has its default in every result, although a file sets
\* the others.
THEOREM MapsKept ==
    ASSUME ConstantsFit
    PROVE  LoaderSpec => []MapsAreDefaults
<1>1. LoaderInv => MapsAreDefaults
  BY DEF LoaderInv
<1>2. QED  BY <1>1, LoaderInvariant, PTL

\* A map with a value keeps it to the end of a load, and no variable gives it one.
THEOREM MapsKeptOnceSet ==
    ASSUME ConstantsFit
    PROVE  LoaderSpec => MapsSetOnce
<1>1. ASSUME LoaderInv, [LoaderNext]_loader, NEW t \in Threads
      PROVE  MapsStay(t)
  <2> SUFFICES ASSUME point[t] \in Merging, config'[t] # Err,
                      NEW l \in MapFields \cap Leaves,
                      config[t][l] # Null \/ IsAt(t, "env")
               PROVE  config'[t][l] = config[t][l]
    BY DEF MapsStay
  <2>1. config[t] \in Configs /\ NullsMatch(config[t])
    BY <1>1 DEF LoaderInv, ConfigInv
  <2>2. \A y \in Layers : layers[y] \in Contents
    BY <1>1 DEF LoaderInv, LoaderTypeOK
  <2>3. \/ config'[t] = config[t]
        \/ point[t] = "global" /\ config'[t] = MergeFile(layers["global"], config[t])
        \/ point[t] = "project" /\ config'[t] = MergeFile(layers["project"], config[t])
        \/ /\ point[t] = "env" /\ layers["env"] # NotUnicode
           /\ config'[t] = MergeEnv(layers["env"], config[t])
    BY <1>1 DEF LoaderInv, LoaderTypeOK, LoaderNext, LoaderStep, loader, shared, threads,
       Change, CallLoader, LockPanics, ReturnCached, StartLoad, ResetCache, TakeDefaults,
       DefaultsPanic, ReadGlobal, HomeGone, ReadProject, ReadEnv, VarsPanic, EndLoad,
       Panics, Return, Merges, IsAt, Merging
  <2>4. CASE config'[t] = config[t]
    BY <2>4
  <2>5. CASE \E y \in {"global", "project"} :
                point[t] = y /\ config'[t] = MergeFile(layers[y], config[t])
    <3>1. PICK y \in {"global", "project"} :
             point[t] = y /\ config'[t] = MergeFile(layers[y], config[t])
      BY <2>5
    <3>2. config[t][l] # Null /\ layers[y] \in Contents
      BY <3>1, <2>2 DEF IsAt, Layers
    <3> QED  BY <2>1, <3>1, <3>2, FileMerges
  <2>6. CASE /\ point[t] = "env" /\ layers["env"] # NotUnicode
             /\ config'[t] = MergeEnv(layers["env"], config[t])
    <3>1. layers["env"] \in Overlays \cup {Bad}
      BY <2>2, <2>6 DEF Contents, Layers
    <3> QED  BY <2>1, <2>6, <3>1, EnvMerges
  <2> QED  BY <2>3, <2>4, <2>5, <2>6
<1>2. LoaderInv /\ [LoaderNext]_loader => [\A t \in Threads : MapsStay(t)]_loader
  BY <1>1
<1>3. QED  BY <1>2, LoaderInvariant, PTL DEF LoaderSpec, MapsSetOnce
===============================================================================
