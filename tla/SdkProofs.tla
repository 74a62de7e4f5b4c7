------------------------------ MODULE SdkProofs ------------------------------
(***************************************************************************)
(* What the C API guarantees outside calls into plugins, for every set of  *)
(* threads and manifests and every number of functions, plugins and lines: *)
(* the log loses no line, threads deadlock only through callbacks, and user*)
(* data is freed with its last reference.                                  *)
(***************************************************************************)
EXTENDS Sdk, LinkingProofs, SequenceTheorems, FiniteSetTheorems

(* The log lines in order: what was handed out, then what a drain has, and *)
(* then what is in the subscriber's buffer.                                *)
Upto(n) == [i \in 1 .. n |-> i]
Rest == IF subscriber > 0 THEN buffer[subscriber] ELSE <<>>

InOrder ==
  /\ \A t \in Threads : drain[t] # <<>> => (delivered \o drain[t]) \o Rest = Upto(lines)
  /\ (\A t \in Threads : drain[t] = <<>>) => delivered \o Rest = Upto(lines)

(* Only the subscriber's buffer gets lines, and who has some of them to    *)
(* hand out has its lock.                                                  *)
OneBuffer ==
  /\ \A b \in DOMAIN buffer : b # subscriber => buffer[b] = <<>>
  /\ \A t \in Threads : drain[t] # <<>> => subscriber > 0 /\ holder[subscriber] = t
  /\ Len(buffer) = 1 /\ subscriber > 0 => log_buffer = subscriber

LogInv == LogTypeOK /\ OneBuffer /\ InOrder

-----------------------------------------------------------------------------
Lines == Seq(1 .. MaxLines)

LEMMA LogTypes ==
  ASSUME LogTypeOK
  PROVE  /\ subscriber \in Int /\ subscriber >= -1 /\ subscriber <= Len(buffer)
         /\ log_buffer \in Nat /\ log_buffer <= Len(buffer) /\ Len(buffer) \in Nat
         /\ buffer \in Seq(Lines) /\ DOMAIN buffer = 1 .. Len(buffer)
         /\ \A b \in DOMAIN buffer : buffer[b] \in Lines
         /\ holder \in [DOMAIN buffer -> Threads \cup {0}]
         /\ drain \in [Threads -> Lines] /\ \A t \in Threads : drain[t] \in Lines
         /\ delivered \in Lines /\ Rest \in Lines /\ <<>> \in Lines
         /\ lines \in Nat /\ lines <= MaxLines
<1> USE LogBufferAssumption
<1>1. /\ buffer \in Seq(Lines) /\ delivered \in Lines /\ drain \in [Threads -> Lines]
      /\ holder \in [DOMAIN buffer -> Threads \cup {0}]
  BY DEF LogTypeOK, Lines
<1>2. Len(buffer) \in Nat /\ DOMAIN buffer = 1 .. Len(buffer)
      /\ \A b \in DOMAIN buffer : buffer[b] \in Lines
  BY <1>1
<1>3. /\ subscriber \in Int /\ subscriber >= -1 /\ subscriber <= Len(buffer)
      /\ log_buffer \in Nat /\ log_buffer <= Len(buffer)
      /\ lines \in Nat /\ lines <= MaxLines
  BY <1>2 DEF LogTypeOK, NoSubscriber
<1>4. <<>> \in Lines
  BY DEF Lines
<1>5. Rest \in Lines
  BY <1>2, <1>3, <1>4 DEF Rest
<1>6. QED
  BY <1>1, <1>2, <1>3, <1>4, <1>5

(* Sequences of lines.                                                     *)
LEMMA UptoGrows ==
  ASSUME NEW s \in Lines, NEW u \in Lines, NEW n \in Nat, n < MaxLines, s \o u = Upto(n)
  PROVE  Append(u, n + 1) \in Lines /\ s \o Append(u, n + 1) = Upto(n + 1)
<1>1. s \in Seq(Nat) /\ u \in Seq(Nat) /\ n + 1 \in 1 .. MaxLines
  BY LogBufferAssumption DEF Lines
<1>2. Append(u, n + 1) \in Lines /\ Append(u, n + 1) \in Seq(Nat)
  BY <1>1 DEF Lines
<1>3. Len(s \o u) = n /\ \A i \in 1 .. n : (s \o u)[i] = i
  BY DEF Upto
<1>4. Upto(n + 1) \in Seq(Nat) /\ Len(Upto(n + 1)) = n + 1 /\ \A i \in 1 .. n + 1 : Upto(n + 1)[i] = i
  BY DEF Upto
<1>5. s \o Append(u, n + 1) \in Seq(Nat) /\ Len(s \o Append(u, n + 1)) = n + 1
  BY <1>1, <1>2, <1>3, ConcatProperties
<1>6. ASSUME NEW i \in 1 .. n + 1 PROVE (s \o Append(u, n + 1))[i] = i
  BY <1>1, <1>2, <1>3, ConcatProperties
<1>7. QED
  BY <1>2, <1>4, <1>5, <1>6, SeqEqual

LEMMA HandOn ==
  ASSUME NEW s \in Lines, NEW u \in Lines, u # <<>>
  PROVE  Append(s, Head(u)) \o Tail(u) = s \o u
<1>1. Head(u) \in 1 .. MaxLines /\ Tail(u) \in Lines
  BY HeadTailProperties DEF Lines
<1>a. Append(s, Head(u)) \in Lines
  BY <1>1 DEF Lines
<1>2. Append(s, Head(u)) \o Tail(u) \in Lines /\ s \o u \in Lines
      /\ Len(Append(s, Head(u)) \o Tail(u)) = Len(s \o u)
  BY <1>1, <1>a, ConcatProperties, HeadTailProperties DEF Lines
<1>3. ASSUME NEW i \in 1 .. Len(s \o u) PROVE (Append(s, Head(u)) \o Tail(u))[i] = (s \o u)[i]
  BY <1>1, <1>a, ConcatProperties, HeadTailProperties DEF Lines
<1>4. QED
  BY <1>2, <1>3, SeqEqual DEF Lines

-----------------------------------------------------------------------------
(* The actions of the log, one by one.                                     *)

LEMMA LogInitGood == LogInit => LogInv
<1> SUFFICES ASSUME LogInit PROVE LogInv
  OBVIOUS
<1> USE LogBufferAssumption DEF LogInit, NoSubscriber
<1>1. LogTypeOK
  BY DEF LogTypeOK
<1>2. OneBuffer
  BY DEF OneBuffer
<1>3. InOrder
  <2>1. Rest = <<>> /\ <<>> \o <<>> = <<>>
    BY DEF Rest
  <2>2. Upto(0) = <<>>
    BY DEF Upto
  <2>3. QED
    BY <2>1, <2>2 DEF InOrder
<1>4. QED
  BY <1>1, <1>2, <1>3 DEF LogInv

LEMMA GetsTyped ==
  ASSUME LogTypeOK, NEW t \in Threads, NEW w, Gets(t, w)
  PROVE  waits' \in [Threads -> {"nothing", "line", "drain", "instance"}]
BY DEF Gets, LogTypeOK

(* A write appends the next line to the last part of the order.            *)
LEMMA LineGood ==
  ASSUME LogInv, NEW t \in Threads, Line(t)
  PROVE  LogInv'
<1> DEFINE n == lines
<1>1. LogTypeOK /\ OneBuffer /\ InOrder
  BY DEF LogInv
<1>2. /\ subscriber \in DOMAIN buffer /\ subscriber > 0 /\ n < MaxLines /\ n \in Nat
      /\ Rest \in Lines /\ Rest = buffer[subscriber]
      /\ holder[subscriber] = 0 /\ 0 \notin Threads
  BY <1>1, LogTypes, LogBufferAssumption DEF Line, Gets, HeldBy, Rest
<1>3. n + 1 \in 1 .. MaxLines /\ lines' = n + 1 /\ Append(Rest, n + 1) \in Lines
  BY <1>2, LogBufferAssumption DEF Lines, Line
<1>4. /\ buffer' = [buffer EXCEPT ![subscriber] = Append(Rest, n + 1)]
      /\ UNCHANGED <<subscriber, log_buffer, holder, drain, instance, delivered>>
  BY <1>2, <1>3 DEF Line
<1>5. buffer \in Seq(Lines) /\ DOMAIN buffer = 1 .. Len(buffer)
  BY <1>1, LogTypes
<1>6. buffer' \in Seq(Lines) /\ Len(buffer') = Len(buffer) /\ DOMAIN buffer' = DOMAIN buffer
  BY <1>2, <1>3, <1>4, <1>5
<1>7. LogTypeOK'
  <2>1. lines' \in 0 .. MaxLines
    BY <1>3, LogBufferAssumption
  <2>2. waits' \in [Threads -> {"nothing", "line", "drain", "instance"}]
    BY <1>1, GetsTyped DEF Line
  <2>3. QED
    BY <1>1, <1>4, <1>6, <2>1, <2>2 DEF LogTypeOK, Lines
<1>8. \A u \in Threads : drain[u] = <<>>
  BY <1>1, <1>2 DEF OneBuffer
<1>9. OneBuffer'
  BY <1>1, <1>4, <1>5, <1>6, <1>8 DEF OneBuffer
<1>10. Rest' = Append(Rest, n + 1)
  BY <1>2, <1>4, <1>5 DEF Rest
<1>11. delivered \o Rest = Upto(n)
  BY <1>1, <1>8 DEF InOrder
<1>12. delivered \in Lines
  BY <1>1, LogTypes
<1>13. delivered \o Append(Rest, n + 1) = Upto(n + 1)
  BY <1>2, <1>11, <1>12, UptoGrows
<1>14. InOrder'
  BY <1>3, <1>4, <1>8, <1>10, <1>13 DEF InOrder
<1>15. QED
  BY <1>7, <1>9, <1>14 DEF LogInv

(* What only concerns who waits for whom.                                  *)
LEMMA LockGood ==
  ASSUME LogInv, NEW t \in Threads, NEW w \in {"line", "drain", "instance"},
         WaitFor(t, w) \/ TakeInstance(t) \/ LeaveInstance(t)
  PROVE  LogInv'
<1>1. LogTypeOK /\ OneBuffer /\ InOrder
  BY DEF LogInv
<1>2. UNCHANGED <<subscriber, log_buffer, buffer, holder, drain, lines, delivered>>
  BY DEF WaitFor, TakeInstance, LeaveInstance
<1>3. instance' \in Threads \cup {0}
  BY <1>1 DEF WaitFor, TakeInstance, LeaveInstance, LogTypeOK
<1>4. waits' \in [Threads -> {"nothing", "line", "drain", "instance"}]
  BY <1>1, GetsTyped DEF WaitFor, TakeInstance, LeaveInstance, LogTypeOK
<1>5. LogTypeOK'
  BY <1>1, <1>2, <1>3, <1>4 DEF LogTypeOK
<1>6. OneBuffer' /\ InOrder'
  BY <1>1, <1>2 DEF OneBuffer, InOrder, Rest
<1>7. QED
  BY <1>5, <1>6 DEF LogInv

(* A drain takes the last part over whole, or nothing.                     *)
LEMMA DrainGood ==
  ASSUME LogInv, NEW t \in Threads, Drain(t)
  PROVE  LogInv'
<1> DEFINE b == log_buffer
<1>1. LogTypeOK /\ OneBuffer /\ InOrder
  BY DEF LogInv
<1>2. /\ b \in DOMAIN buffer /\ DOMAIN buffer = 1 .. Len(buffer) /\ buffer \in Seq(Lines)
      /\ holder \in [DOMAIN buffer -> Threads \cup {0}] /\ holder[b] = 0
      /\ drain \in [Threads -> Lines] /\ drain[t] = <<>> /\ buffer[b] \in Lines
      /\ <<>> \in Lines /\ 0 \notin Threads /\ Len(buffer) \in Nat
  BY <1>1, LogTypes, LogBufferAssumption DEF Drain, Gets, HeldBy
<1>3. /\ holder' = IF buffer[b] = <<>> THEN holder ELSE [holder EXCEPT ![b] = t]
      /\ drain' = [drain EXCEPT ![t] = buffer[b]]
      /\ buffer' = [buffer EXCEPT ![b] = <<>>]
      /\ UNCHANGED <<subscriber, log_buffer, instance, lines, delivered>>
  BY DEF Drain
<1>4. /\ buffer' \in Seq(Lines) /\ Len(buffer') = Len(buffer)
      /\ DOMAIN buffer' = DOMAIN buffer /\ buffer'[b] = <<>>
      /\ \A a \in DOMAIN buffer : a # b => buffer'[a] = buffer[a] /\ holder'[a] = holder[a]
  BY <1>2, <1>3
<1>5. /\ holder' \in [DOMAIN buffer' -> Threads \cup {0}]
      /\ buffer[b] # <<>> => holder'[b] = t
      /\ drain' \in [Threads -> Lines] /\ drain'[t] = buffer[b]
      /\ \A u \in Threads : u # t => drain'[u] = drain[u]
  BY <1>2, <1>3, <1>4
<1>6. LogTypeOK'
  <2>1. subscriber' \in NoSubscriber .. Len(buffer') /\ log_buffer' \in 0 .. Len(buffer')
    BY <1>1, <1>3, <1>4 DEF LogTypeOK
  <2>2. /\ instance' \in Threads \cup {0} /\ lines' \in 0 .. MaxLines
        /\ delivered' \in Seq(1 .. MaxLines)
    BY <1>1, <1>3 DEF LogTypeOK
  <2>3. waits' \in [Threads -> {"nothing", "line", "drain", "instance"}]
    BY <1>1, GetsTyped DEF Drain
  <2>4. QED
    BY <1>4, <1>5, <2>1, <2>2, <2>3 DEF LogTypeOK, Lines
<1>7. subscriber \in Int /\ subscriber <= Len(buffer) /\ delivered \in Lines /\ Rest \in Lines
  BY <1>1, LogTypes
<1>8. CASE b = subscriber
  <2>1. \A u \in Threads : drain[u] = <<>>
    BY <1>1, <1>2, <1>8 DEF OneBuffer
  <2>2. subscriber > 0 /\ Rest = buffer[b] /\ Rest' = <<>>
    BY <1>2, <1>3, <1>4, <1>8 DEF Rest
  <2>3. delivered \o Rest = Upto(lines)
    BY <1>1, <2>1 DEF InOrder
  <2>4. (delivered \o Rest) \o <<>> = delivered \o Rest /\ delivered \o <<>> = delivered
        /\ (Rest = <<>> => delivered \o Rest = delivered)
    BY <1>7 DEF Lines
  <2>5. InOrder'
    BY <1>3, <1>5, <2>1, <2>2, <2>3, <2>4 DEF InOrder
  <2>6. OneBuffer'
    BY <1>1, <1>3, <1>4, <1>5, <1>8, <2>1, <2>2 DEF OneBuffer
  <2>7. QED
    BY <1>6, <2>5, <2>6 DEF LogInv
<1>9. CASE b # subscriber
  <2>1. buffer[b] = <<>>
    BY <1>1, <1>2, <1>9 DEF OneBuffer
  <2>2. drain' = drain /\ buffer' = buffer
    BY <1>2, <1>3, <2>1
  <2>3. InOrder'
    BY <1>1, <1>3, <2>2 DEF InOrder, Rest
  <2>4. \A u \in Threads : drain[u] # <<>> => subscriber > 0 /\ holder'[subscriber] = u
    BY <1>1, <1>2, <1>4, <1>7, <1>9 DEF OneBuffer
  <2>5. OneBuffer'
    BY <1>1, <1>3, <2>2, <2>4 DEF OneBuffer
  <2>6. QED
    BY <1>6, <2>3, <2>5 DEF LogInv
<1>10. QED
  BY <1>8, <1>9

(* A handler that returns moves one line from the second part to the first.*)
LEMMA HandleGood ==
  ASSUME LogInv, NEW t \in Threads, Handle(t)
  PROVE  LogInv'
<1> DEFINE u == drain[t]
<1>1. LogTypeOK /\ OneBuffer /\ InOrder
  BY DEF LogInv
<1>2. /\ drain \in [Threads -> Lines] /\ u \in Lines /\ u # <<>>
      /\ delivered \in Lines /\ Rest \in Lines
  BY <1>1, LogTypes DEF Handle
<1>3. /\ delivered' = Append(delivered, Head(u))
      /\ drain' = [drain EXCEPT ![t] = Tail(u)]
      /\ holder' = [b \in DOMAIN holder |->
                      IF holder[b] = t /\ drain'[t] = <<>> THEN 0 ELSE holder[b]]
      /\ UNCHANGED <<subscriber, log_buffer, buffer, instance, waits, lines>>
  BY <1>2 DEF Handle
<1>4. Head(u) \in 1 .. MaxLines /\ Tail(u) \in Lines
  BY <1>2, HeadTailProperties DEF Lines
<1>5. delivered' \in Lines
  BY <1>2, <1>3, <1>4 DEF Lines
<1>6. /\ drain' \in [Threads -> Lines] /\ drain'[t] = Tail(u)
      /\ \A v \in Threads : v # t => drain'[v] = drain[v]
  BY <1>2, <1>3, <1>4
<1>h. holder' \in [DOMAIN buffer -> Threads \cup {0}]
  BY <1>1, <1>3, LogTypes
<1>7. LogTypeOK'
  BY <1>1, <1>3, <1>5, <1>6, <1>h DEF LogTypeOK, Lines
<1>8. subscriber > 0 /\ holder[subscriber] = t /\ \A v \in Threads : v # t => drain[v] = <<>>
  BY <1>1, <1>2 DEF OneBuffer
<1>b. drain'[t] # <<>> => holder'[subscriber] = t
  <2>1. subscriber \in DOMAIN holder
    BY <1>1, <1>8, LogTypes
  <2>2. QED
    BY <1>3, <1>8, <2>1
<1>9. OneBuffer'
  BY <1>1, <1>3, <1>6, <1>8, <1>b DEF OneBuffer
<1>10. delivered' \o Tail(u) = delivered \o u
  BY <1>2, <1>3, HandOn
<1>11. (delivered \o u) \o Rest = Upto(lines)
  BY <1>1, <1>2 DEF InOrder
<1>12. (delivered' \o Tail(u)) \o Rest = Upto(lines)
  BY <1>10, <1>11
<1>a. delivered' \o <<>> = delivered'
  BY <1>5, ConcatEmptySeq DEF Lines
<1>13. Tail(u) = <<>> => delivered' \o Tail(u) = delivered'
  BY <1>a
<1>14. Rest' = Rest /\ lines' = lines
  BY <1>3 DEF Rest
<1>15. InOrder'
  BY <1>6, <1>8, <1>12, <1>13, <1>14 DEF InOrder
<1>16. QED
  BY <1>7, <1>9, <1>15 DEF LogInv

LEMMA LogFileGood ==
  ASSUME LogInv, LogFile
  PROVE  LogInv'
<1>1. LogTypeOK /\ OneBuffer /\ InOrder
  BY DEF LogInv
<1>2. /\ subscriber = -1 /\ subscriber' = 0
      /\ UNCHANGED <<log_buffer, buffer, holder, drain, instance, waits, lines, delivered>>
  BY DEF LogFile, NoSubscriber, File
<1>3. LogTypeOK'
  BY <1>1, <1>2, LogTypes DEF LogTypeOK, NoSubscriber
<1>4. DOMAIN buffer = 1 .. Len(buffer)
  BY <1>1, LogTypes
<1>5. OneBuffer' /\ InOrder'
  BY <1>1, <1>2, <1>4 DEF OneBuffer, InOrder, Rest
<1>6. QED
  BY <1>3, <1>5 DEF LogInv

(* The new buffer has no line; only the first becomes the subscriber's.    *)
LEMMA LogCustomGood ==
  ASSUME LogInv, LogCustom
  PROVE  LogInv'
<1> DEFINE n == Len(buffer)
<1>1. LogTypeOK /\ OneBuffer /\ InOrder
  BY DEF LogInv
<1>2. /\ buffer' = Append(buffer, <<>>) /\ holder' = Append(holder, 0)
      /\ UNCHANGED <<drain, instance, waits, lines, delivered>>
  BY DEF LogCustom
<1>3. /\ buffer \in Seq(Lines) /\ n \in Nat /\ DOMAIN buffer = 1 .. n /\ <<>> \in Lines
      /\ holder \in [DOMAIN buffer -> Threads \cup {0}]
      /\ subscriber \in Int /\ subscriber >= -1 /\ subscriber <= n
  BY <1>1, LogTypes
<1>4. /\ buffer' \in Seq(Lines) /\ Len(buffer') = n + 1 /\ DOMAIN buffer' = 1 .. n + 1
      /\ buffer'[n + 1] = <<>> /\ \A b \in 1 .. n : buffer'[b] = buffer[b]
  BY <1>2, <1>3, AppendProperties
<1>5. /\ log_buffer' = n + 1
      /\ subscriber' = IF subscriber = -1 THEN n + 1 ELSE subscriber
  BY <1>4 DEF LogCustom, NoSubscriber
<1>6. holder \in Seq(Threads \cup {0}) /\ Len(holder) = n
  BY <1>3
<1>7. /\ holder' \in [DOMAIN buffer' -> Threads \cup {0}]
      /\ \A b \in 1 .. n : holder'[b] = holder[b]
  <2>1. holder' \in Seq(Threads \cup {0}) /\ Len(holder') = n + 1
    BY <1>2, <1>6, AppendProperties
  <2>2. \A b \in 1 .. n : holder'[b] = holder[b]
    BY <1>2, <1>6, AppendProperties
  <2>3. holder' \in [1 .. n + 1 -> Threads \cup {0}]
    BY <2>1
  <2>4. QED
    BY <1>4, <2>2, <2>3
<1>8. LogTypeOK'
  <2>1. subscriber' \in NoSubscriber .. Len(buffer') /\ log_buffer' \in 0 .. Len(buffer')
    BY <1>3, <1>4, <1>5 DEF NoSubscriber
  <2>2. QED
    BY <1>1, <1>2, <1>4, <1>7, <2>1 DEF LogTypeOK, Lines
<1>9. \A u \in Threads : drain[u] # <<>> => subscriber' > 0 /\ holder'[subscriber'] = u
  BY <1>1, <1>3, <1>5, <1>7 DEF OneBuffer
<1>10. \A b \in DOMAIN buffer' : b # subscriber' => buffer'[b] = <<>>
  BY <1>1, <1>3, <1>4, <1>5 DEF OneBuffer
<1>11. OneBuffer'
  BY <1>2, <1>3, <1>4, <1>5, <1>9, <1>10 DEF OneBuffer
<1>12. Rest' = Rest
  BY <1>3, <1>4, <1>5 DEF Rest
<1>13. QED
  BY <1>1, <1>2, <1>8, <1>11, <1>12 DEF LogInv, InOrder

LEMMA LogStill ==
  ASSUME LogInv, UNCHANGED logVars
  PROVE  LogInv'
BY DEF LogInv, LogTypeOK, OneBuffer, InOrder, Rest, logVars

(* Whoever logs, drains or replaces the buffer, the lines stay in order    *)
(* and in the one buffer the subscriber writes to (LogBuffer).             *)
THEOREM SdkLogSafe == Spec => []LogInv
<1>1. Init => LogInv
  BY LogInitGood DEF Init
<1>2. LogInv /\ [Next]_vars => LogInv'
  <2> SUFFICES ASSUME LogInv, [Next]_vars PROVE LogInv'
    OBVIOUS
  <2>1. ASSUME NEW t \in Threads, Silent(t) PROVE LogInv'
    BY <2>1, LogStill DEF Silent
  <2>2. ASSUME NEW t \in Threads, Traced(t) \/ Tells(t) PROVE LogInv'
    BY <2>2, LineGood DEF Traced, Tells
  <2>3. CASE Internal(Calling) /\ UNCHANGED logVars
    BY <2>3, LogStill
  <2>4. ASSUME NEW t \in Threads, SetUp(t) PROVE LogInv'
    BY <2>4, LogFileGood, LogCustomGood DEF SetUp
  <2>5. ASSUME NEW t \in Threads, Drains(t) \/ Handled(t) PROVE LogInv'
    BY <2>5, DrainGood, HandleGood, LockGood DEF Drains, Handled
  <2>6. ASSUME NEW t \in Threads, Waits(t) \/ Enters(t) \/ Leaves(t) PROVE LogInv'
    BY <2>6, LockGood DEF Waits, WaitLine, Enters, Leaves
  <2>7. CASE UNCHANGED vars
    BY <2>7, LogStill DEF vars
  <2>8. QED
    BY <2>1, <2>2, <2>3, <2>4, <2>5, <2>6, <2>7 DEF Next
<1>3. QED
  BY <1>1, <1>2, PTL DEF Spec

(* The handlers get every line of the subscriber's buffer once and in      *)
(* order, whichever threads drain (LogBuffer::write, extism_log_drain).    *)
THEOREM SdkLinesKept == Spec => []LinesKept
<1>1. LogInv => LinesKept
  <2> SUFFICES ASSUME LogInv PROVE LinesKept
    OBVIOUS
  <2> DEFINE handed == {t \in Threads : drain[t] # <<>>}
             some == CHOOSE t \in handed : TRUE
  <2>1. OneBuffer /\ InOrder /\ delivered \in Lines /\ Rest \in Lines
    BY LogTypes DEF LogInv
  <2>2. \A t, u \in handed : t = u
    BY <2>1 DEF OneBuffer
  <2>3. Len(buffer) = 1 /\ subscriber > 0 => log_buffer = subscriber
    BY <2>1 DEF OneBuffer
  <2>4. CASE handed = {}
    <3>1. delivered \o Rest = Upto(lines) /\ delivered \o <<>> = delivered
      BY <2>1, <2>4 DEF InOrder, Lines
    <3>2. QED
      BY <2>2, <2>3, <2>4, <3>1 DEF LinesKept, Rest, Upto
  <2>5. CASE handed # {}
    <3>1. some \in handed
      BY <2>5
    <3>2. (delivered \o drain[some]) \o Rest = Upto(lines)
      BY <2>1, <3>1 DEF InOrder
    <3> HIDE DEF some
    <3>3. QED
      BY <2>2, <2>3, <2>5, <3>1, <3>2 DEF LinesKept, Rest, Upto, some
  <2>6. QED
    BY <2>4, <2>5
<1>2. QED
  BY <1>1, SdkLogSafe, PTL

-----------------------------------------------------------------------------
(* The user data: who has references, and how many that makes.             *)
Functions == [cell : {"full", "empty", "freed"}, refs : Nat, freed : {0, 1}]
Plugins(given) ==
  [state : {"building", "live", "freed"}, functions : SUBSET given,
   linker : SUBSET given, running : given \cup {0}]

Owners(f) == {p \in DOMAIN plugin : f \in plugin[p].functions}
Callers(f) == {p \in DOMAIN plugin : plugin[p].running = f}
Homes(f) == Cardinality(Owners(f)) + IF function[f].cell = "full" THEN 1 ELSE 0
Calls(f) == Cardinality(Callers(f))

Balanced(r, homes, calls) ==
  /\ homes <= 1 /\ r.refs = 2 * homes + calls
  /\ r.freed = IF r.refs = 0 THEN 1 ELSE 0

(* Only a plugin that is made and not freed calls its functions.           *)
OnlyLiveCall == \A p \in DOMAIN plugin : plugin[p].state # "live" => plugin[p].running = 0

HostInv == HostTypeOK /\ UserDataOwned /\ OnlyLiveCall

LEMMA Accounts ==
  UserDataOwned <=>
    /\ \A f \in DOMAIN function : Balanced(function[f], Homes(f), Calls(f))
    /\ \A p \in DOMAIN plugin : plugin[p].linker \subseteq plugin[p].functions
BY DEF UserDataOwned, Balanced, Homes, Calls, Owners, Callers

LEMMA AccountsNext ==
  UserDataOwned' <=>
    /\ \A f \in DOMAIN function' : Balanced(function'[f], Homes(f)', Calls(f)')
    /\ \A p \in DOMAIN plugin' : plugin'[p].linker \subseteq plugin'[p].functions
BY DEF UserDataOwned, Balanced, Homes, Calls, Owners, Callers

LEMMA HostTypes ==
  ASSUME HostTypeOK
  PROVE  /\ function \in Seq(Functions) /\ Len(function) \in Nat
         /\ DOMAIN function = 1 .. Len(function)
         /\ \A f \in DOMAIN function : function[f] \in Functions
         /\ plugin \in Seq(Plugins(DOMAIN function)) /\ Len(plugin) \in Nat
         /\ DOMAIN plugin = 1 .. Len(plugin)
         /\ \A p \in DOMAIN plugin : plugin[p] \in Plugins(DOMAIN function)
<1>1. function \in Seq(Functions) /\ plugin \in Seq(Plugins(DOMAIN function))
  BY DEF HostTypeOK, Functions, Plugins
<1>2. QED
  BY <1>1

LEMMA FunctionFields ==
  ASSUME NEW r \in Functions
  PROVE  r.cell \in {"full", "empty", "freed"} /\ r.refs \in Nat /\ r.freed \in {0, 1}
BY DEF Functions

LEMMA PluginFields ==
  ASSUME NEW given, NEW r \in Plugins(given)
  PROVE  /\ r.state \in {"building", "live", "freed"} /\ r.functions \subseteq given
         /\ r.linker \subseteq given
         /\ r.running \in given \cup {0}
BY DEF Plugins

LEMMA PluginsGrow ==
  ASSUME NEW given, NEW more, given \subseteq more, NEW r \in Plugins(given)
  PROVE  r \in Plugins(more)
BY DEF Plugins

(* The sets are finite, so the counts are numbers.                         *)
LEMMA Counts ==
  ASSUME HostTypeOK, NEW f
  PROVE  /\ IsFiniteSet(Owners(f)) /\ Cardinality(Owners(f)) \in Nat
         /\ Cardinality(Owners(f)) = 0 <=> Owners(f) = {}
         /\ IsFiniteSet(Callers(f)) /\ Calls(f) \in Nat
         /\ Calls(f) = 0 <=> Callers(f) = {}
<1>1. IsFiniteSet(DOMAIN plugin)
  BY HostTypes, FS_Interval
<1>2. Owners(f) \in SUBSET DOMAIN plugin /\ Callers(f) \in SUBSET DOMAIN plugin
  BY DEF Owners, Callers
<1>3. IsFiniteSet(Owners(f)) /\ IsFiniteSet(Callers(f))
  BY <1>1, <1>2, FS_Subset
<1>4. QED
  BY <1>3, FS_CardinalityType, FS_EmptySet DEF Calls

(* A finite set gains or loses a member.                                   *)
LEMMA OneMore ==
  ASSUME NEW S, IsFiniteSet(S), NEW x, x \notin S, NEW T, T = S \cup {x}
  PROVE  Cardinality(T) = Cardinality(S) + 1
BY FS_AddElement

LEMMA OneFewer ==
  ASSUME NEW S, IsFiniteSet(S), NEW x \in S, NEW T, T = S \ {x}
  PROVE  Cardinality(T) = Cardinality(S) - 1
BY FS_RemoveElement

(* One entry of a sequence changes, or each.                               *)
LEMMA EntryChanged ==
  ASSUME NEW S, NEW seq \in Seq(S), NEW i \in DOMAIN seq, NEW v \in S, NEW new,
         new = [seq EXCEPT ![i] = v]
  PROVE  /\ new \in Seq(S) /\ DOMAIN new = DOMAIN seq /\ new[i] = v
         /\ \A j \in DOMAIN seq : j # i => new[j] = seq[j]
<1>1. DOMAIN new = DOMAIN seq /\ new[i] = v /\ \A j \in DOMAIN seq : j # i => new[j] = seq[j]
  OBVIOUS
<1>2. new \in Seq(S)
  OBVIOUS
<1>3. QED
  BY <1>1, <1>2

LEMMA SequenceRewritten ==
  ASSUME NEW S, NEW T, NEW seq \in Seq(S), NEW new,
         new = [i \in DOMAIN seq |-> new[i]], \A i \in DOMAIN seq : new[i] \in T
  PROVE  new \in Seq(T)
<1>1. Len(seq) \in Nat /\ DOMAIN seq = 1 .. Len(seq)
  OBVIOUS
<1>2. new \in [1 .. Len(seq) -> T]
  BY <1>1
<1>3. QED
  BY <1>1, <1>2

(* What an operation does to one function's record.                        *)
LEMMA FunctionEdits ==
  ASSUME NEW r \in Functions, NEW c \in {"full", "empty", "freed"}
  PROVE  /\ [r EXCEPT !.cell = c] \in Functions
         /\ [r EXCEPT !.cell = c].cell = c
         /\ [r EXCEPT !.cell = c].refs = r.refs
         /\ [r EXCEPT !.cell = c].freed = r.freed
BY DEF Functions

LEMMA CellSet ==
  ASSUME NEW r \in Functions, NEW c \in {"full", "empty", "freed"},
         NEW new, new = [r EXCEPT !.cell = c]
  PROVE  new \in Functions /\ new.cell = c /\ new.refs = r.refs /\ new.freed = r.freed
BY FunctionEdits

LEMMA LessRefs ==
  ASSUME NEW r \in Functions, NEW n \in Nat, n <= r.refs, r.freed = 0
  PROVE  /\ Less(r, n) \in Functions /\ Less(r, n).cell = r.cell
         /\ Less(r, n).refs = r.refs - n
         /\ Less(r, n).freed = IF r.refs = n THEN 1 ELSE 0
<1> DEFINE m == r.refs - n
           k == IF r.refs = n THEN 1 ELSE 0
<1>1. Less(r, n) = [r EXCEPT !.refs = m, !.freed = k]
  BY DEF Less
<1>2. m \in Nat /\ k \in {0, 1}
  BY FunctionFields
<1> HIDE DEF m, k
<1>3. LET s == [r EXCEPT !.refs = m, !.freed = k]
      IN s \in Functions /\ s.cell = r.cell /\ s.refs = m /\ s.freed = k
  BY <1>2 DEF Functions
<1>4. QED
  BY <1>1, <1>3 DEF m, k

LEMMA DropBalanced ==
  ASSUME NEW r \in Functions, NEW calls \in Nat, Balanced(r, 1, calls)
  PROVE  /\ DropFunction(r) \in Functions /\ DropFunction(r).cell = r.cell
         /\ Balanced(DropFunction(r), 0, calls)
<1>1. r.refs = 2 + calls /\ r.freed = 0
  BY FunctionFields DEF Balanced
<1>2. /\ Less(r, 2) \in Functions /\ Less(r, 2).cell = r.cell
      /\ Less(r, 2).refs = calls /\ Less(r, 2).freed = IF calls = 0 THEN 1 ELSE 0
  BY <1>1, LessRefs
<1>3. QED
  BY <1>2 DEF Balanced, DropFunction

LEMMA ReturnBalanced ==
  ASSUME NEW r \in Functions, NEW homes \in Nat, NEW calls \in Nat, calls > 0,
         Balanced(r, homes, calls)
  PROVE  /\ Less(r, 1) \in Functions /\ Less(r, 1).cell = r.cell
         /\ Balanced(Less(r, 1), homes, calls - 1)
<1>1. r.refs = 2 * homes + calls /\ r.freed = 0 /\ homes <= 1
  BY FunctionFields DEF Balanced
<1>2. /\ Less(r, 1) \in Functions /\ Less(r, 1).cell = r.cell
      /\ Less(r, 1).refs = r.refs - 1 /\ Less(r, 1).freed = IF r.refs = 1 THEN 1 ELSE 0
  BY <1>1, LessRefs
<1>3. QED
  BY <1>1, <1>2 DEF Balanced

LEMMA CallBalanced ==
  ASSUME NEW r \in Functions, NEW calls \in Nat, Balanced(r, 1, calls)
  PROVE  LET s == [r EXCEPT !.refs = @ + 1]
         IN s \in Functions /\ s.cell = r.cell /\ Balanced(s, 1, calls + 1)
<1>1. r.refs = 2 + calls /\ r.freed = 0
  BY FunctionFields DEF Balanced
<1>2. [r EXCEPT !.refs = @ + 1].refs = r.refs + 1 /\ [r EXCEPT !.refs = @ + 1].freed = r.freed
      /\ [r EXCEPT !.refs = @ + 1].cell = r.cell /\ [r EXCEPT !.refs = @ + 1] \in Functions
  BY DEF Functions
<1>3. QED
  BY <1>1, <1>2 DEF Balanced

(* A plugin's record as the steps of its life leave it.                    *)
LEMMA FreedPlugins ==
  ASSUME NEW given
  PROVE  LET gone == [NewPlugin EXCEPT !.state = "freed"]
         IN /\ gone \in Plugins(given) /\ gone.functions = {} /\ gone.linker = {}
            /\ gone.running = 0 /\ gone.state = "freed"
BY DEF NewPlugin, Plugins

LEMMA PluginEdits ==
  ASSUME NEW given, NEW r \in Plugins(given), NEW f \in given \cup {0}
  PROVE  /\ [r EXCEPT !.running = f] \in Plugins(given)
         /\ [r EXCEPT !.running = f].running = f
         /\ [r EXCEPT !.running = f].state = r.state
         /\ [r EXCEPT !.running = f].functions = r.functions
         /\ [r EXCEPT !.running = f].linker = r.linker
BY DEF Plugins

LEMMA PluginMade ==
  ASSUME NEW given, NEW r \in Plugins(given)
  PROVE  /\ [r EXCEPT !.state = "live"] \in Plugins(given)
         /\ [r EXCEPT !.state = "live"].running = r.running
         /\ [r EXCEPT !.state = "live"].state = "live"
         /\ [r EXCEPT !.state = "live"].functions = r.functions
         /\ [r EXCEPT !.state = "live"].linker = r.linker
BY DEF Plugins

(* A step is good if the records keep their types and every account is     *)
(* balanced after it.                                                      *)
LEMMA StillGood ==
  ASSUME HostInv, UNCHANGED <<function, plugin>>
  PROVE  HostInv'
<1>1. HostTypeOK'
  BY DEF HostInv, HostTypeOK
<1>2. UserDataOwned'
  BY DEF HostInv, UserDataOwned
<1>3. OnlyLiveCall'
  BY DEF HostInv, OnlyLiveCall
<1>4. QED
  BY <1>1, <1>2, <1>3 DEF HostInv

LEMMA TypesKept ==
  ASSUME function' \in Seq(Functions), plugin' \in Seq(Plugins(DOMAIN function'))
  PROVE  HostTypeOK'
BY DEF HostTypeOK, Functions, Plugins

(* extism_function_new: two references, one home, no call.                 *)
LEMMA FunctionNewGood ==
  ASSUME HostInv, FunctionNew
  PROVE  HostInv'
<1> DEFINE n == Len(function)
<1>1. HostTypeOK /\ UserDataOwned /\ OnlyLiveCall
  BY DEF HostInv
<1>2. /\ function' = Append(function, NewFunction) /\ plugin' = plugin
      /\ NewFunction \in Functions
  BY DEF FunctionNew, NewFunction, Functions
<1>3. /\ function' \in Seq(Functions) /\ DOMAIN function' = 1 .. n + 1
      /\ function'[n + 1] = NewFunction /\ n \in Nat
      /\ \A f \in 1 .. n : function'[f] = function[f]
  BY <1>1, <1>2, HostTypes, AppendProperties
<1>4. DOMAIN function = 1 .. n /\ DOMAIN function \subseteq DOMAIN function' /\ n + 1 \notin 1 .. n
  BY <1>1, <1>3, HostTypes
<1>5. plugin' \in Seq(Plugins(DOMAIN function'))
  BY <1>1, <1>2, <1>4, HostTypes, PluginsGrow
<1>6. HostTypeOK'
  BY <1>3, <1>5, TypesKept
<1>k. PICK k \in Nat : k = n + 1
  BY <1>3
<1>7. ASSUME NEW f \in 1 .. n PROVE Balanced(function'[f], Homes(f)', Calls(f)')
  <2>1. Owners(f)' = Owners(f) /\ Callers(f)' = Callers(f)
    BY <1>2 DEF Owners, Callers
  <2>2. Homes(f)' = Homes(f) /\ Calls(f)' = Calls(f)
    BY <2>1, <1>3 DEF Homes, Calls
  <2>3. QED
    BY <2>2, <1>1, <1>3, <1>4, Accounts
<1>8. Balanced(function'[k], Homes(k)', Calls(k)')
  <2>1. Owners(k)' = {} /\ Callers(k)' = {}
    BY <1>1, <1>2, <1>3, <1>4, <1>k, HostTypes, PluginFields DEF Owners, Callers
  <2>2. Homes(k)' = 1 /\ Calls(k)' = 0
    BY <2>1, <1>3, <1>k, FS_EmptySet DEF Homes, Calls, NewFunction
  <2>3. QED
    BY <2>2, <1>3, <1>k DEF Balanced, NewFunction
<1>9. UserDataOwned'
  BY <1>1, <1>2, <1>3, <1>4, <1>k, <1>7, <1>8, AccountsNext, Accounts
<1>10. QED
  BY <1>1, <1>2, <1>6, <1>9 DEF HostInv, OnlyLiveCall

(* extism_function_free: the Function goes with the cell or is a plugin's. *)
LEMMA FunctionFreeGood ==
  ASSUME HostInv, NEW g \in DOMAIN function, FunctionFree(g)
  PROVE  HostInv'
<1> DEFINE now == IF function[g].cell = "full" THEN DropFunction(function[g]) ELSE function[g]
           after == [now EXCEPT !.cell = "freed"]
<1>1. HostTypeOK /\ UserDataOwned /\ OnlyLiveCall
  BY DEF HostInv
<1>2. function' = [function EXCEPT ![g] = after] /\ plugin' = plugin
  BY DEF FunctionFree
<1>3. function[g] \in Functions /\ Balanced(function[g], Homes(g), Calls(g))
  BY <1>1, HostTypes, Accounts
<1>4. Cardinality(Owners(g)) \in Nat /\ Calls(g) \in Nat
  BY <1>1, Counts
<1>5. now \in Functions /\ Balanced(now, Cardinality(Owners(g)), Calls(g))
  <2>1. CASE function[g].cell = "full"
    <3>1. Homes(g) = Cardinality(Owners(g)) + 1 /\ Homes(g) <= 1
      BY <2>1, <1>3 DEF Homes, Balanced
    <3>2. Homes(g) = 1 /\ Cardinality(Owners(g)) = 0
      BY <3>1, <1>4
    <3>3. QED
      BY <2>1, <3>2, <1>3, <1>4, DropBalanced
  <2>2. CASE function[g].cell # "full"
    <3>1. Homes(g) = Cardinality(Owners(g))
      BY <2>2, <1>4 DEF Homes
    <3>2. QED
      BY <2>2, <3>1, <1>3
  <2>3. QED
    BY <2>1, <2>2
<1> HIDE DEF now
<1>6. after \in Functions /\ after.cell = "freed" /\ Balanced(after, Cardinality(Owners(g)), Calls(g))
  <2>1. /\ after \in Functions /\ after.cell = "freed"
        /\ after.refs = now.refs /\ after.freed = now.freed
    BY <1>5, FunctionEdits
  <2> HIDE DEF after
  <2>2. QED
    BY <1>5, <2>1 DEF Balanced
<1> HIDE DEF after
<1>7. /\ function' \in Seq(Functions) /\ DOMAIN function' = DOMAIN function
      /\ function'[g] = after /\ \A f \in DOMAIN function : f # g => function'[f] = function[f]
  <2>1. function \in Seq(Functions)
    BY <1>1, HostTypes
  <2>2. QED
    BY <2>1, <1>2, <1>6, EntryChanged
<1>8. HostTypeOK'
  BY <1>1, <1>2, <1>7, HostTypes, TypesKept
<1>9. ASSUME NEW f \in DOMAIN function PROVE Balanced(function'[f], Homes(f)', Calls(f)')
  <2>1. Owners(f)' = Owners(f) /\ Callers(f)' = Callers(f) /\ Calls(f)' = Calls(f)
    BY <1>2 DEF Owners, Callers, Calls
  <2>2. CASE f = g
    <3>1. Homes(g)' = Cardinality(Owners(g))
      BY <2>1, <2>2, <1>4, <1>6, <1>7 DEF Homes
    <3>2. QED
      BY <2>1, <2>2, <3>1, <1>6, <1>7
  <2>3. CASE f # g
    <3>1. Homes(f)' = Homes(f)
      BY <2>1, <2>3, <1>7 DEF Homes
    <3>2. QED
      BY <2>1, <2>3, <3>1, <1>1, <1>7, Accounts
  <2>4. QED
    BY <2>2, <2>3
<1>10. UserDataOwned'
  BY <1>1, <1>2, <1>7, <1>9, AccountsNext, Accounts
<1>11. QED
  BY <1>1, <1>2, <1>8, <1>10 DEF HostInv, OnlyLiveCall

(* extism_plugin_new: what a full cell had becomes the new plugin's.       *)
LEMMA PluginNewGood ==
  ASSUME HostInv, NEW given \in SUBSET DOMAIN function, PluginNew(given)
  PROVE  HostInv'
<1> DEFINE taken == {f \in given : function[f].cell = "full"}
           new == [NewPlugin EXCEPT !.functions = taken, !.linker = taken]
           n == Len(plugin)
<1>1. HostTypeOK /\ UserDataOwned /\ OnlyLiveCall
  BY DEF HostInv
<1>2. /\ function' = [f \in DOMAIN function |->
                        [function[f] EXCEPT !.cell = IF f \in taken THEN "empty" ELSE @]]
      /\ plugin' = Append(plugin, new)
  BY DEF PluginNew
<1>3. taken \subseteq given /\ given \subseteq DOMAIN function
  OBVIOUS
<1>4. \A f \in taken : function[f].cell = "full"
  OBVIOUS
<1>5. /\ new \in Plugins(DOMAIN function) /\ new.functions = taken /\ new.linker = taken
      /\ new.running = 0 /\ new.state = "building"
  <2>1. taken \in SUBSET DOMAIN function
    OBVIOUS
  <2>2. new = [NewPlugin EXCEPT !.functions = taken, !.linker = taken]
    OBVIOUS
  <2> HIDE DEF taken
  <2>3. QED
    BY <2>1 DEF NewPlugin, Plugins
<1> HIDE DEF taken, new
<1>6. /\ plugin' \in Seq(Plugins(DOMAIN function)) /\ DOMAIN plugin = 1 .. n
      /\ DOMAIN plugin' = 1 .. n + 1 /\ n \in Nat /\ plugin'[n + 1] = new
      /\ \A p \in 1 .. n : plugin'[p] = plugin[p]
  BY <1>1, <1>2, <1>5, HostTypes, AppendProperties
<1>7. ASSUME NEW f \in DOMAIN function
      PROVE  /\ function'[f] \in Functions
             /\ function'[f].cell = IF f \in taken THEN "empty" ELSE function[f].cell
             /\ function'[f].refs = function[f].refs /\ function'[f].freed = function[f].freed
  <2>1. function[f] \in Functions
    BY <1>1, HostTypes
  <2>2. PICK c \in {"full", "empty", "freed"} :
           c = IF f \in taken THEN "empty" ELSE function[f].cell
    BY <2>1, FunctionFields
  <2>3. function'[f] = [function[f] EXCEPT !.cell = c]
    BY <1>2, <2>2
  <2>4. /\ function'[f] \in Functions /\ function'[f].cell = c
        /\ function'[f].refs = function[f].refs /\ function'[f].freed = function[f].freed
    BY <2>1, <2>3, CellSet
  <2>5. QED
    BY <2>2, <2>4
<1>8. DOMAIN function' = DOMAIN function /\ function' \in Seq(Functions)
  <2>1. function' = [f \in DOMAIN function |-> function'[f]]
    BY <1>2
  <2>2. function \in Seq(Functions)
    BY <1>1, HostTypes
  <2>3. function' \in Seq(Functions)
    BY <1>7, <2>1, <2>2, SequenceRewritten
  <2>4. QED
    BY <2>1, <2>3
<1>9. HostTypeOK'
  BY <1>6, <1>8, TypesKept
<1>10. ASSUME NEW f \in DOMAIN function PROVE Balanced(function'[f], Homes(f)', Calls(f)')
  <2>1. Callers(f)' = Callers(f) /\ Calls(f)' = Calls(f)
    <3>1. f # 0
      BY <1>1, HostTypes
    <3>2. Callers(f)' = Callers(f)
      BY <3>1, <1>5, <1>6 DEF Callers
    <3>3. QED
      BY <3>2 DEF Calls
  <2>2. Homes(f)' = Homes(f)
    <3>1. CASE f \in taken
      <4>1. Owners(f)' = Owners(f) \cup {n + 1} /\ n + 1 \notin Owners(f)
        BY <3>1, <1>5, <1>6 DEF Owners
      <4>i. IsFiniteSet(Owners(f))
        BY <1>1, Counts
      <4>2. Cardinality(Owners(f)') = Cardinality(Owners(f)) + 1
        BY <4>1, <4>i, OneMore
      <4>3. QED
        BY <3>1, <4>2, <1>1, <1>4, <1>7, Counts DEF Homes
    <3>2. CASE f \notin taken
      <4>1. Owners(f)' = Owners(f)
        BY <3>2, <1>5, <1>6 DEF Owners
      <4>2. QED
        BY <3>2, <4>1, <1>7 DEF Homes
    <3>3. QED
      BY <3>1, <3>2
  <2>3. Balanced(function[f], Homes(f), Calls(f))
    BY <1>1, Accounts
  <2>4. QED
    BY <2>1, <2>2, <2>3, <1>7 DEF Balanced
<1>11. \A p \in DOMAIN plugin' : plugin'[p].linker \subseteq plugin'[p].functions
  BY <1>1, <1>5, <1>6, Accounts
<1>12. UserDataOwned'
  BY <1>8, <1>10, <1>11, AccountsNext
<1>13. OnlyLiveCall'
  BY <1>1, <1>5, <1>6 DEF OnlyLiveCall
<1>14. QED
  BY <1>9, <1>12, <1>13 DEF HostInv

(* A plugin that is freed, or was never made, gives up what it owns.       *)
LEMMA PluginGone ==
  ASSUME HostInv, NEW p \in DOMAIN plugin, plugin[p].running = 0, DropAll(p),
         plugin' = [plugin EXCEPT ![p] = [NewPlugin EXCEPT !.state = "freed"]]
  PROVE  HostInv'
<1> DEFINE gone == [NewPlugin EXCEPT !.state = "freed"]
<1>1. HostTypeOK /\ UserDataOwned /\ OnlyLiveCall
  BY DEF HostInv
<1>2. /\ gone \in Plugins(DOMAIN function) /\ gone.functions = {} /\ gone.linker = {}
      /\ gone.running = 0 /\ gone.state = "freed"
  BY FreedPlugins
<1>3. plugin' = [plugin EXCEPT ![p] = gone]
  OBVIOUS
<1> HIDE DEF gone
<1>4. /\ plugin' \in Seq(Plugins(DOMAIN function)) /\ DOMAIN plugin' = DOMAIN plugin
      /\ plugin'[p] = gone /\ \A q \in DOMAIN plugin : q # p => plugin'[q] = plugin[q]
  <2>1. plugin \in Seq(Plugins(DOMAIN function))
    BY <1>1, HostTypes
  <2>2. QED
    BY <2>1, <1>2, <1>3, EntryChanged
<1>5. DOMAIN function' = DOMAIN function
      /\ \A f \in DOMAIN function :
           function'[f] = IF f \in plugin[p].functions THEN DropFunction(function[f])
                          ELSE function[f]
  BY DEF DropAll
<1>6. ASSUME NEW f \in DOMAIN function
      PROVE  /\ function'[f] \in Functions
             /\ Balanced(function'[f], Homes(f)', Calls(f)')
  <2>1. function[f] \in Functions /\ Balanced(function[f], Homes(f), Calls(f))
    BY <1>1, HostTypes, Accounts
  <2>2. Callers(f)' = Callers(f)
    <3>1. f # 0
      BY <1>1, HostTypes
    <3>2. QED
      BY <3>1, <1>2, <1>4 DEF Callers
  <2>3. Calls(f)' = Calls(f) /\ Calls(f) \in Nat
    BY <2>2, <1>1, Counts DEF Calls
  <2>4. CASE f \in plugin[p].functions
    <3>1. Owners(f)' = Owners(f) \ {p} /\ p \in Owners(f)
      BY <2>4, <1>2, <1>4 DEF Owners
    <3>i. IsFiniteSet(Owners(f)) /\ Cardinality(Owners(f)) \in Nat \ {0}
      BY <3>1, <1>1, Counts
    <3>2. Cardinality(Owners(f)') = Cardinality(Owners(f)) - 1 /\ Cardinality(Owners(f)) \in Nat \ {0}
      BY <3>1, <3>i, OneFewer
    <3>3. Homes(f) = 1 /\ Cardinality(Owners(f)) = 1 /\ function[f].cell # "full"
      BY <2>1, <3>2 DEF Homes, Balanced
    <3>4. /\ DropFunction(function[f]) \in Functions
          /\ DropFunction(function[f]).cell = function[f].cell
          /\ Balanced(DropFunction(function[f]), 0, Calls(f))
      BY <2>1, <2>3, <3>3, DropBalanced
    <3>5. function'[f] = DropFunction(function[f])
      BY <2>4, <1>5
    <3>6. Homes(f)' = 0
      BY <3>2, <3>3, <3>4, <3>5 DEF Homes
    <3>7. QED
      BY <2>3, <3>4, <3>5, <3>6
  <2>5. CASE f \notin plugin[p].functions
    <3>1. Owners(f)' = Owners(f)
      BY <2>5, <1>2, <1>4 DEF Owners
    <3>2. function'[f] = function[f]
      BY <2>5, <1>5
    <3>3. Homes(f)' = Homes(f)
      BY <3>1, <3>2 DEF Homes
    <3>4. QED
      BY <2>1, <2>3, <3>2, <3>3
  <2>6. QED
    BY <2>4, <2>5
<1>7. function' \in Seq(Functions)
  <2>1. function' = [f \in DOMAIN function |-> function'[f]]
    BY DEF DropAll
  <2>2. function \in Seq(Functions)
    BY <1>1, HostTypes
  <2>3. QED
    BY <1>6, <2>1, <2>2, SequenceRewritten
<1>8. HostTypeOK'
  BY <1>4, <1>5, <1>7, TypesKept
<1>9. UserDataOwned'
  <2>1. \A q \in DOMAIN plugin' : plugin'[q].linker \subseteq plugin'[q].functions
    BY <1>1, <1>2, <1>4, Accounts
  <2>2. QED
    BY <1>5, <1>6, <2>1, AccountsNext
<1>10. OnlyLiveCall'
  BY <1>1, <1>2, <1>4 DEF OnlyLiveCall
<1>11. QED
  BY <1>8, <1>9, <1>10 DEF HostInv

(* build_new succeeds: nothing the accounts are about changes.             *)
LEMMA BuildGood ==
  ASSUME HostInv, NEW p \in DOMAIN plugin, NEW wasm \in Manifests, Build(p, wasm)
  PROVE  HostInv'
<1> DEFINE made == [plugin[p] EXCEPT !.state = "live"]
<1>1. HostTypeOK /\ UserDataOwned /\ OnlyLiveCall /\ plugin[p] \in Plugins(DOMAIN function)
  BY HostTypes DEF HostInv
<1>2. plugin' = [plugin EXCEPT ![p] = made] /\ function' = function
  BY DEF Build
<1>3. /\ made \in Plugins(DOMAIN function) /\ made.running = plugin[p].running
      /\ made.state = "live" /\ made.functions = plugin[p].functions
      /\ made.linker = plugin[p].linker
  BY <1>1, PluginMade
<1> HIDE DEF made
<1>4. /\ plugin' \in Seq(Plugins(DOMAIN function)) /\ DOMAIN plugin' = DOMAIN plugin
      /\ plugin'[p] = made /\ \A q \in DOMAIN plugin : q # p => plugin'[q] = plugin[q]
  <2>1. plugin \in Seq(Plugins(DOMAIN function)) /\ p \in DOMAIN plugin
    BY <1>1, HostTypes
  <2>2. QED
    BY ONLY <2>1, <1>2, <1>3, EntryChanged
<1>5. HostTypeOK'
  BY <1>1, <1>2, <1>4, HostTypes, TypesKept
<1>6. ASSUME NEW f \in DOMAIN function PROVE Homes(f)' = Homes(f) /\ Calls(f)' = Calls(f)
  <2>1. Owners(f)' = Owners(f) /\ Callers(f)' = Callers(f)
    BY <1>3, <1>4 DEF Owners, Callers
  <2>2. QED
    BY <2>1, <1>2 DEF Homes, Calls
<1>7. UserDataOwned'
  BY <1>1, <1>2, <1>3, <1>4, <1>6, AccountsNext, Accounts
<1>8. OnlyLiveCall'
  BY <1>1, <1>3, <1>4 DEF OnlyLiveCall
<1>9. QED
  BY <1>5, <1>7, <1>8 DEF HostInv

(* The guest calls a function, or a function it called returns: one        *)
(* reference for the time of the call.                                     *)
LEMMA CallsCounted ==
  ASSUME HostInv, NEW p \in DOMAIN plugin, NEW g \in DOMAIN function,
         NEW now \in Functions, now.cell = function[g].cell,
         plugin[p].state = "live", NEW r \in DOMAIN function \cup {0},
         plugin' = [plugin EXCEPT ![p].running = r],
         function' = [function EXCEPT ![g] = now],
         \A f \in DOMAIN function \ {g} : Callers(f)' = Callers(f),
         Balanced(now, Homes(g), Calls(g)')
  PROVE  HostInv'
<1> DEFINE busy == [plugin[p] EXCEPT !.running = r]
<1>1. HostTypeOK /\ UserDataOwned /\ OnlyLiveCall /\ plugin[p] \in Plugins(DOMAIN function)
  BY HostTypes DEF HostInv
<1>2. plugin' = [plugin EXCEPT ![p] = busy]
  OBVIOUS
<1>3. /\ busy \in Plugins(DOMAIN function) /\ busy.running = r
      /\ busy.state = "live" /\ busy.functions = plugin[p].functions
      /\ busy.linker = plugin[p].linker
  BY <1>1, PluginEdits
<1> HIDE DEF busy
<1>4. /\ plugin' \in Seq(Plugins(DOMAIN function)) /\ DOMAIN plugin' = DOMAIN plugin
      /\ plugin'[p] = busy /\ \A q \in DOMAIN plugin : q # p => plugin'[q] = plugin[q]
  <2>1. plugin \in Seq(Plugins(DOMAIN function)) /\ p \in DOMAIN plugin
    BY <1>1, HostTypes
  <2>2. QED
    BY ONLY <2>1, <1>2, <1>3, EntryChanged
<1>5. /\ function' \in Seq(Functions) /\ DOMAIN function' = DOMAIN function
      /\ function'[g] = now /\ \A f \in DOMAIN function : f # g => function'[f] = function[f]
  <2>1. function \in Seq(Functions)
    BY <1>1, HostTypes
  <2>2. QED
    BY <2>1, EntryChanged
<1>6. HostTypeOK'
  BY <1>4, <1>5, TypesKept
<1>7. ASSUME NEW f \in DOMAIN function PROVE Homes(f)' = Homes(f)
  <2>1. Owners(f)' = Owners(f)
    BY <1>3, <1>4 DEF Owners
  <2>2. function'[f].cell = function[f].cell
    BY <1>5
  <2>3. QED
    BY <2>1, <2>2 DEF Homes
<1>8. ASSUME NEW f \in DOMAIN function PROVE Balanced(function'[f], Homes(f)', Calls(f)')
  <2>1. CASE f = g
    BY <2>1, <1>5, <1>7
  <2>2. CASE f # g
    <3>1. Calls(f)' = Calls(f)
      BY <2>2 DEF Calls
    <3>2. QED
      BY <2>2, <3>1, <1>1, <1>5, <1>7, Accounts
  <2>3. QED
    BY <2>1, <2>2
<1>9. UserDataOwned'
  BY <1>1, <1>3, <1>4, <1>5, <1>8, AccountsNext, Accounts
<1>10. OnlyLiveCall'
  BY <1>1, <1>3, <1>4 DEF OnlyLiveCall
<1>11. QED
  BY <1>6, <1>9, <1>10 DEF HostInv

LEMMA RunningSet ==
  ASSUME HostTypeOK, NEW p \in DOMAIN plugin, NEW r \in DOMAIN function \cup {0},
         plugin' = [plugin EXCEPT ![p].running = r]
  PROVE  /\ plugin'[p].running = r /\ DOMAIN plugin' = DOMAIN plugin
         /\ \A q \in DOMAIN plugin : q # p => plugin'[q] = plugin[q]
<1> DEFINE busy == [plugin[p] EXCEPT !.running = r]
<1>1. plugin[p] \in Plugins(DOMAIN function)
  BY HostTypes
<1>2. busy.running = r
  BY <1>1, PluginEdits
<1>3. plugin' = [plugin EXCEPT ![p] = busy]
  OBVIOUS
<1> HIDE DEF busy
<1>4. QED
  BY <1>2, <1>3

LEMMA HostCallGood ==
  ASSUME HostInv, NEW p \in DOMAIN plugin, NEW g \in DOMAIN function, HostCall(p, g)
  PROVE  HostInv'
<1> DEFINE now == [function[g] EXCEPT !.refs = @ + 1]
<1>1. HostTypeOK /\ UserDataOwned /\ plugin[p] \in Plugins(DOMAIN function)
      /\ function[g] \in Functions /\ g # 0
  BY HostTypes DEF HostInv
<1>2. /\ plugin[p].state = "live" /\ g \in plugin[p].linker /\ plugin[p].running = 0
      /\ plugin' = [plugin EXCEPT ![p].running = g]
      /\ function' = [function EXCEPT ![g] = now]
  BY <1>1, HostTypes DEF HostCall
<1>3. Balanced(function[g], Homes(g), Calls(g)) /\ Calls(g) \in Nat
  BY <1>1, Accounts, Counts
<1>4. Homes(g) = 1
  <2>1. p \in Owners(g)
    BY <1>1, <1>2, Accounts DEF Owners
  <2>2. Cardinality(Owners(g)) \in Nat \ {0}
    BY <2>1, <1>1, Counts
  <2>3. QED
    BY <2>2, <1>3 DEF Balanced, Homes
<1>5. now \in Functions /\ now.cell = function[g].cell /\ Balanced(now, 1, Calls(g) + 1)
  BY <1>1, <1>3, <1>4, CallBalanced
<1> HIDE DEF now
<1>6. plugin'[p].running = g /\ DOMAIN plugin' = DOMAIN plugin
      /\ \A q \in DOMAIN plugin : q # p => plugin'[q] = plugin[q]
  BY <1>1, <1>2, RunningSet
<1>7. \A f \in DOMAIN function \ {g} : Callers(f)' = Callers(f)
  <2>1. 0 \notin DOMAIN function
    BY <1>1, HostTypes
  <2>2. QED
    BY <2>1, <1>2, <1>6 DEF Callers
<1>8. Callers(g)' = Callers(g) \cup {p} /\ p \notin Callers(g)
  BY <1>1, <1>2, <1>6 DEF Callers
<1>9. Calls(g)' = Calls(g) + 1
  <2>1. IsFiniteSet(Callers(g))
    BY <1>1, Counts
  <2>2. QED
    BY <1>8, <2>1, OneMore DEF Calls
<1>10. Balanced(now, Homes(g), Calls(g)') /\ g \in DOMAIN function \cup {0}
  BY <1>4, <1>5, <1>9
<1>11. QED
  BY <1>2, <1>5, <1>7, <1>10, CallsCounted

LEMMA HostCallReturnsGood ==
  ASSUME HostInv, NEW p \in DOMAIN plugin, HostCallReturns(p)
  PROVE  HostInv'
<1>1. HostTypeOK /\ UserDataOwned /\ OnlyLiveCall /\ plugin[p] \in Plugins(DOMAIN function)
  BY HostTypes DEF HostInv
<1>2. PICK g \in DOMAIN function : plugin[p].running = g /\ g # 0
  BY <1>1, PluginFields DEF HostCallReturns
<1> DEFINE now == Less(function[g], 1)
<1>3. /\ plugin' = [plugin EXCEPT ![p].running = 0]
      /\ function' = [function EXCEPT ![g] = now]
  BY <1>2 DEF HostCallReturns
<1>4. plugin[p].state = "live" /\ function[g] \in Functions
  BY <1>1, <1>2, HostTypes DEF OnlyLiveCall
<1>a. Cardinality(Owners(g)) \in Nat
  BY <1>1, Counts
<1>5. Balanced(function[g], Homes(g), Calls(g)) /\ Homes(g) \in Nat /\ p \in Callers(g)
  BY <1>1, <1>2, <1>a, Accounts DEF Callers, Homes
<1>6. Calls(g) \in Nat /\ Calls(g) > 0
  BY <1>1, <1>5, Counts
<1>7. now \in Functions /\ now.cell = function[g].cell /\ Balanced(now, Homes(g), Calls(g) - 1)
  BY <1>4, <1>5, <1>6, ReturnBalanced
<1> HIDE DEF now
<1>8. plugin'[p].running = 0 /\ DOMAIN plugin' = DOMAIN plugin
      /\ \A q \in DOMAIN plugin : q # p => plugin'[q] = plugin[q]
  BY <1>1, <1>3, RunningSet
<1>9. 0 \notin DOMAIN function
  BY <1>1, HostTypes
<1>10. \A f \in DOMAIN function \ {g} : Callers(f)' = Callers(f)
  BY <1>2, <1>8, <1>9 DEF Callers
<1>11. Callers(g)' = Callers(g) \ {p}
  BY <1>2, <1>8 DEF Callers
<1>12. Calls(g)' = Calls(g) - 1
  <2>1. IsFiniteSet(Callers(g))
    BY <1>1, Counts
  <2>2. QED
    BY <1>5, <1>11, <2>1, OneFewer DEF Calls
<1>13. Balanced(now, Homes(g), Calls(g)') /\ 0 \in DOMAIN function \cup {0}
  BY <1>7, <1>12
<1>14. QED
  BY <1>3, <1>4, <1>7, <1>10, <1>13, CallsCounted

(* References to functions add up however plugins are made, called and     *)
(* freed (Function::new, extism_plugin_new, Plugin's fields).              *)
THEOREM SdkHostSafe == Spec => []HostInv
<1>1. Init => HostInv
  BY DEF Init, HostInit, HostInv, HostTypeOK, UserDataOwned, OnlyLiveCall
<1>2. HostInv /\ [Next]_vars => HostInv'
  <2> SUFFICES ASSUME HostInv, [Next]_vars PROVE HostInv'
    OBVIOUS
  <2>1. ASSUME Unlogged PROVE HostInv'
    BY <2>1, FunctionFreeGood DEF Unlogged
  <2>2. ASSUME Logged(Idle) PROVE HostInv'
    <3>1. ASSUME NEW p \in Idle, PluginFree(p) PROVE HostInv'
      <4>1. p \in DOMAIN plugin
        BY DEF Idle
      <4>2. QED
        BY <3>1, <4>1, PluginGone DEF PluginFree
    <3>2. QED
      BY <2>2, <3>1, FunctionNewGood, PluginNewGood DEF Logged
  <2>3. ASSUME Internal(Calling) PROVE HostInv'
    <3>1. ASSUME NEW p \in DOMAIN plugin, BuildFails(p) PROVE HostInv'
      <4>1. plugin[p].running = 0
        BY <3>1 DEF HostInv, OnlyLiveCall, BuildFails
      <4>2. QED
        BY <3>1, <4>1, PluginGone DEF BuildFails
    <3>2. Calling \subseteq DOMAIN plugin
      BY DEF Calling
    <3>3. QED
      BY <2>3, <3>1, <3>2, BuildGood, HostCallGood, HostCallReturnsGood DEF Internal
  <2>4. ASSUME UNCHANGED hostVars PROVE HostInv'
    BY <2>4, StillGood DEF hostVars
  <2>5. CASE UNCHANGED vars
    BY <2>4, <2>5 DEF vars
  <2>6. QED
    BY <2>1, <2>2, <2>3, <2>4, <2>5
    DEF Next, Silent, Traced, Tells, Waits, SetUp, Drains, Handled, Enters, Leaves
<1>3. QED
  BY <1>1, <1>2, PTL DEF Spec

(* Functions, plugins, buffers and drains are typed.                       *)
THEOREM SdkTyped == Spec => []TypeOK
<1>1. HostInv /\ LogInv => TypeOK
  BY DEF HostInv, LogInv, TypeOK
<1>2. QED
  BY <1>1, SdkHostSafe, SdkLogSafe, PTL

(* User data is freed with its last reference and never before, and no     *)
(* linker points to a function its plugin does not own (Function::new,     *)
(* CPtr::drop, the order of Plugin's fields).                              *)
THEOREM SdkUserDataOwned == Spec => []UserDataOwned
<1>1. HostInv => UserDataOwned
  BY DEF HostInv
<1>2. QED
  BY <1>1, SdkHostSafe, PTL

-----------------------------------------------------------------------------
(* Deadlocks.  Who has a buffer locked has lines to hand out, the instance *)
(* is that of a plugin that is made, and who waits for the instance it has *)
(* is in a host function.                                                  *)
HeldDrains == \A b \in DOMAIN holder, t \in Threads : holder[b] = t => drain[t] # <<>>
InstanceLive == instance # 0 => First \in DOMAIN plugin /\ plugin[First].state = "live"
SelfWaits ==
  \A t \in Threads : waits[t] = "instance" /\ instance = t => plugin[First].running # 0

LockInv == HeldDrains /\ InstanceLive /\ SelfWaits

(* What the log does to the holders of buffers.                            *)
LEMMA DrainHolds ==
  ASSUME LogTypeOK, HeldDrains, NEW t \in Threads, Drain(t) \/ Handle(t)
  PROVE  HeldDrains'
<1>1. /\ drain \in [Threads -> Lines] /\ holder \in [DOMAIN buffer -> Threads \cup {0}]
      /\ DOMAIN buffer = 1 .. Len(buffer) /\ log_buffer \in Nat /\ log_buffer <= Len(buffer)
      /\ Len(buffer) \in Nat
  BY LogTypes
<1>2. CASE Drain(t)
  <2>1. /\ holder' = IF buffer[log_buffer] = <<>> THEN holder
                     ELSE [holder EXCEPT ![log_buffer] = t]
        /\ drain' = [drain EXCEPT ![t] = buffer[log_buffer]] /\ drain[t] = <<>>
    BY <1>2 DEF Drain
  <2>2. /\ drain'[t] = buffer[log_buffer] /\ DOMAIN holder' = DOMAIN holder
        /\ \A u \in Threads : u # t => drain'[u] = drain[u]
    BY <1>1, <2>1
  <2>3. \A b \in DOMAIN holder : holder[b] # t
    BY <2>1 DEF HeldDrains
  <2>4. CASE buffer[log_buffer] = <<>>
    BY <2>1, <2>2, <2>3, <2>4 DEF HeldDrains
  <2>5. CASE buffer[log_buffer] # <<>>
    <3>1. \A b \in DOMAIN holder : holder'[b] = IF b = log_buffer THEN t ELSE holder[b]
      BY <2>1, <2>5
    <3>2. QED
      BY <2>2, <2>3, <2>5, <3>1 DEF HeldDrains
  <2>6. QED
    BY <2>4, <2>5
<1>3. CASE Handle(t)
  <2>1. /\ \A b \in DOMAIN holder :
             holder'[b] = IF holder[b] = t /\ drain'[t] = <<>> THEN 0 ELSE holder[b]
        /\ DOMAIN holder' = DOMAIN holder /\ drain' = [drain EXCEPT ![t] = Tail(drain[t])]
    BY <1>3 DEF Handle
  <2>2. \A u \in Threads : u # t => drain'[u] = drain[u]
    BY <1>1, <2>1
  <2>3. 0 \notin Threads
    BY LogBufferAssumption
  <2>4. QED
    BY <2>1, <2>2, <2>3 DEF HeldDrains
<1>4. QED
  BY <1>2, <1>3

LEMMA CustomHolds ==
  ASSUME LogTypeOK, HeldDrains, LogCustom
  PROVE  HeldDrains'
<1>1. holder \in [DOMAIN buffer -> Threads \cup {0}] /\ Len(buffer) \in Nat
      /\ DOMAIN buffer = 1 .. Len(buffer)
  BY LogTypes
<1>2. holder \in Seq(Threads \cup {0})
  BY <1>1
<1>3. holder' = Append(holder, 0) /\ drain' = drain
  BY DEF LogCustom
<1>4. /\ DOMAIN holder' = 1 .. Len(holder) + 1 /\ holder'[Len(holder) + 1] = 0
      /\ \A b \in 1 .. Len(holder) : holder'[b] = holder[b]
      /\ DOMAIN holder = 1 .. Len(holder) /\ Len(holder) \in Nat
  BY <1>2, <1>3, AppendProperties
<1>5. QED
  BY <1>3, <1>4, LogBufferAssumption DEF HeldDrains

(* An action of the log alone.                                             *)
LEMMA LogLocks ==
  ASSUME LogInv, LockInv, UNCHANGED hostVars, NEW t \in Threads,
         \/ Tells(t) \/ Waits(t) \/ SetUp(t)
         \/ Drains(t) \/ Handled(t) \/ Enters(t) \/ Leaves(t)
  PROVE  LockInv'
<1>1. LogTypeOK /\ HeldDrains /\ InstanceLive /\ SelfWaits
      /\ waits \in [Threads -> {"nothing", "line", "drain", "instance"}]
      /\ 0 \notin Threads
  BY LogBufferAssumption DEF LogInv, LockInv, LogTypeOK
<1>2. function' = function /\ plugin' = plugin
  BY DEF hostVars
<1>3. HeldDrains'
  <2>1. CASE (Drains(t) /\ Drain(t)) \/ Handled(t)
    BY <1>1, <2>1, DrainHolds DEF Handled
  <2>2. CASE SetUp(t)
    BY <1>1, <2>2, CustomHolds DEF SetUp, LogFile, HeldDrains
  <2>3. CASE holder' = holder /\ drain' = drain
    BY <1>1, <2>3 DEF HeldDrains
  <2>4. QED
    BY <2>1, <2>2, <2>3 DEF Tells, Line, Waits, WaitLine, WaitFor, Drains, Enters,
       TakeInstance, Leaves, LeaveInstance
<1>4. CASE Tells(t) \/ SetUp(t) \/ Handled(t) \/ (Drains(t) /\ Drain(t))
  <2>1. instance' = instance /\ (waits' = waits \/ waits' = [waits EXCEPT ![t] = "nothing"])
    BY <1>4 DEF Tells, Line, SetUp, LogFile, LogCustom, Handled, Handle, Drain, Gets
  <2>2. \A u \in Threads : waits'[u] = "instance" => waits[u] = "instance"
    BY <1>1, <2>1
  <2>3. InstanceLive' /\ SelfWaits'
    BY <1>1, <1>2, <2>1, <2>2 DEF InstanceLive, SelfWaits
  <2>4. QED
    BY <1>3, <2>3 DEF LockInv
<1>5. CASE Waits(t) \/ (Drains(t) /\ WaitFor(t, "drain"))
  <2>1. PICK w \in {"line", "drain"} : WaitFor(t, w)
    BY <1>5 DEF Waits, WaitLine
  <2>2. instance' = instance /\ waits' = [waits EXCEPT ![t] = w]
    BY <2>1 DEF WaitFor
  <2>3. \A u \in Threads : waits'[u] = "instance" => waits[u] = "instance"
    BY <1>1, <2>2
  <2>4. InstanceLive' /\ SelfWaits'
    BY <1>1, <1>2, <2>2, <2>3 DEF InstanceLive, SelfWaits
  <2>5. QED
    BY <1>3, <2>4 DEF LockInv
<1>6. CASE Enters(t)
  <2>1. InHost(t) /\ First \in DOMAIN plugin /\ plugin[First].state = "live"
    BY <1>6 DEF Enters
  <2>2. CASE TakeInstance(t)
    <3>1. instance' = t /\ waits' = [waits EXCEPT ![t] = "nothing"]
      BY <2>2 DEF TakeInstance, Gets
    <3>2. waits'[t] = "nothing"
      BY <1>1, <3>1
    <3>3. InstanceLive' /\ SelfWaits'
      BY <1>2, <2>1, <3>1, <3>2 DEF InstanceLive, SelfWaits
    <3>4. QED
      BY <1>3, <3>3 DEF LockInv
  <2>3. CASE WaitFor(t, "instance")
    <3>1. instance' = instance /\ waits' = [waits EXCEPT ![t] = "instance"]
      BY <2>3 DEF WaitFor
    <3>2. \A u \in Threads : u # t => waits'[u] = waits[u]
      BY <1>1, <3>1
    <3>3. instance = t => plugin[First].running # 0
      BY <2>1 DEF InHost
    <3>4. InstanceLive' /\ SelfWaits'
      BY <1>1, <1>2, <3>1, <3>2, <3>3 DEF InstanceLive, SelfWaits
    <3>5. QED
      BY <1>3, <3>4 DEF LockInv
  <2>4. QED
    BY <1>6, <2>2, <2>3 DEF Enters
<1>7. CASE Leaves(t)
  <2>1. instance' = 0
    BY <1>7 DEF Leaves, LeaveInstance
  <2>2. InstanceLive' /\ SelfWaits'
    BY <1>1, <2>1 DEF InstanceLive, SelfWaits
  <2>3. QED
    BY <1>3, <2>2 DEF LockInv
<1>8. QED
  BY <1>4, <1>5, <1>6, <1>7 DEF Drains

(* An action of the functions and plugins: it leaves the first plugin to   *)
(* the thread that uses it.                                                *)
FirstKept ==
  instance # 0 =>
    /\ First \in DOMAIN plugin' /\ plugin'[First].state = "live"
    /\ waits[instance] = "instance" /\ plugin[First].running # 0
         => plugin'[First].running # 0

LEMMA FirstKeptByHost ==
  ASSUME HostTypeOK, InstanceLive, Unlogged \/ Logged(Idle) \/ Internal(Calling)
  PROVE  FirstKept
<1> SUFFICES ASSUME instance # 0
             PROVE  /\ First \in DOMAIN plugin' /\ plugin'[First].state = "live"
                    /\ waits[instance] = "instance" /\ plugin[First].running # 0
                         => plugin'[First].running # 0
  BY DEF FirstKept
<1>1. First \in DOMAIN plugin /\ plugin[First].state = "live"
  BY DEF InstanceLive
<1>2. /\ plugin \in Seq(Plugins(DOMAIN function)) /\ 0 \notin DOMAIN function
      /\ DOMAIN plugin = 1 .. Len(plugin) /\ Len(plugin) \in Nat
  BY HostTypes
<1>3. CASE plugin' = plugin
  BY <1>1, <1>3
<1>4. ASSUME NEW q, q # First, NEW v, plugin' = [plugin EXCEPT ![q] = v]
      PROVE  First \in DOMAIN plugin' /\ plugin'[First] = plugin[First]
  BY <1>1, <1>4
<1>5. ASSUME NEW given \in SUBSET DOMAIN function, PluginNew(given)
      PROVE  First \in DOMAIN plugin' /\ plugin'[First] = plugin[First]
  <2>1. PICK new : plugin' = Append(plugin, new)
    BY <1>5 DEF PluginNew
  <2>2. QED
    BY <1>1, <1>2, <2>1
<1>6. ASSUME NEW p \in Idle, PluginFree(p)
      PROVE  First \in DOMAIN plugin' /\ plugin'[First] = plugin[First]
  <2>1. p # First
    BY <1>6 DEF Idle
  <2>2. PICK v : plugin' = [plugin EXCEPT ![p] = v]
    BY <1>6 DEF PluginFree
  <2>3. QED
    BY <1>4, <2>1, <2>2
<1>7. ASSUME NEW p \in DOMAIN plugin, (\E wasm \in Manifests : Build(p, wasm)) \/ BuildFails(p)
      PROVE  First \in DOMAIN plugin' /\ plugin'[First] = plugin[First]
  <2>1. p # First
    BY <1>1, <1>7 DEF Build, BuildFails
  <2>2. PICK v : plugin' = [plugin EXCEPT ![p] = v]
    BY <1>7 DEF Build, BuildFails
  <2>3. QED
    BY <1>4, <2>1, <2>2
<1>8. ASSUME NEW p \in Calling, NEW f \in DOMAIN function \cup {0},
             plugin' = [plugin EXCEPT ![p].running = f], p = First /\ f = 0 => waits[instance] = "nothing"
      PROVE  /\ First \in DOMAIN plugin' /\ plugin'[First].state = "live"
             /\ waits[instance] = "instance" /\ plugin[First].running # 0
                  => plugin'[First].running # 0
  <2>1. CASE p # First
    <3>1. PICK v : plugin' = [plugin EXCEPT ![p] = v]
      BY <1>8
    <3>2. QED
      BY <1>1, <1>4, <2>1, <3>1
  <2>2. CASE p = First
    <3>1. PICK v : v = [plugin[First] EXCEPT !.running = f]
      OBVIOUS
    <3>2. v.running = f /\ v.state = plugin[First].state
      BY <1>1, <1>2, <3>1, HostTypes, PluginEdits
    <3>3. plugin' = [plugin EXCEPT ![First] = v]
      BY <1>8, <2>2, <3>1
    <3>4. First \in DOMAIN plugin' /\ plugin'[First] = v
      BY <1>1, <3>3
    <3>5. QED
      BY <1>1, <1>2, <1>8, <2>2, <3>2, <3>4
  <2>3. QED
    BY <2>1, <2>2
<1>9. ASSUME NEW p \in Calling, HostCallReturns(p) \/ \E f \in DOMAIN function : HostCall(p, f)
      PROVE  /\ First \in DOMAIN plugin' /\ plugin'[First].state = "live"
             /\ waits[instance] = "instance" /\ plugin[First].running # 0
                  => plugin'[First].running # 0
  <2>1. \E f \in DOMAIN function \cup {0} : plugin' = [plugin EXCEPT ![p].running = f]
    BY <1>9 DEF HostCallReturns, HostCall
  <2>2. p = First => waits[instance] = "nothing"
    BY <1>9 DEF Calling
  <2>3. QED
    BY <1>8, <2>1, <2>2
<1>10. QED
  BY <1>1, <1>3, <1>5, <1>6, <1>7, <1>9
  DEF Unlogged, FunctionFree, Logged, FunctionNew, Internal

LEMMA HostLocks ==
  ASSUME LogInv, HostTypeOK, LockInv,
         \/ Internal(Calling) /\ UNCHANGED logVars
         \/ \E t \in Threads : Silent(t) \/ Traced(t)
  PROVE  LockInv'
<1>1. HeldDrains /\ InstanceLive /\ SelfWaits
      /\ waits \in [Threads -> {"nothing", "line", "drain", "instance"}]
      /\ instance \in Threads \cup {0} /\ 0 \notin Threads
  BY LogBufferAssumption DEF LockInv, LogInv, LogTypeOK
<1>2. FirstKept
  BY <1>1, FirstKeptByHost DEF Silent, Traced
<1>3. instance' = instance /\ holder' = holder /\ drain' = drain
  BY DEF Silent, Traced, Line, logVars
<1>4. \A u \in Threads : waits'[u] = "instance" => waits[u] = "instance"
  BY <1>1 DEF Silent, Traced, Line, Gets, logVars
<1>5. HeldDrains'
  BY <1>1, <1>3 DEF HeldDrains
<1>6. InstanceLive'
  BY <1>2, <1>3 DEF InstanceLive, FirstKept
<1>7. SelfWaits'
  BY <1>1, <1>2, <1>3, <1>4 DEF SelfWaits, FirstKept
<1>8. QED
  BY <1>5, <1>6, <1>7 DEF LockInv

(* Who holds a mutex, and who waits for one it holds.                      *)
THEOREM SdkLocks == Spec => [](LogInv /\ LockInv)
<1>1. Init => LockInv
  BY DEF Init, LogInit, LockInv, HeldDrains, InstanceLive, SelfWaits
<1>2. LogInv /\ HostInv /\ LockInv /\ [Next]_vars => LockInv'
  <2> SUFFICES ASSUME LogInv, HostInv, LockInv, [Next]_vars PROVE LockInv'
    OBVIOUS
  <2>1. HostTypeOK
    BY DEF HostInv
  <2>2. CASE \/ Internal(Calling) /\ UNCHANGED logVars
             \/ \E t \in Threads : Silent(t) \/ Traced(t)
    BY <2>1, <2>2, HostLocks
  <2>3. CASE \E t \in Threads : \/ Tells(t) \/ Waits(t) \/ SetUp(t)
                                \/ Drains(t) \/ Handled(t) \/ Enters(t) \/ Leaves(t)
    <3>1. UNCHANGED hostVars
      BY <2>3 DEF Tells, Waits, SetUp, Drains, Handled, Enters, Leaves
    <3>2. QED
      BY <2>3, <3>1, LogLocks
  <2>4. CASE UNCHANGED vars
    BY <2>4 DEF vars, hostVars, logVars, LockInv, HeldDrains, InstanceLive, SelfWaits
  <2>5. QED
    BY <2>2, <2>3, <2>4 DEF Next
<1>3. QED
  BY <1>1, <1>2, SdkLogSafe, SdkHostSafe, PTL DEF Spec

(* Threads deadlock only through a handler of extism_log_drain or a host   *)
(* function: code of the library wants no second mutex while it holds a    *)
(* buffer, and no mutex it holds.                                          *)
THEOREM SdkDeadlockFromCallback == Spec => []DeadlockFromCallback
<1>1. LogInv /\ LockInv => DeadlockFromCallback
  <2> SUFFICES ASSUME LogInv, LockInv, NEW D \in SUBSET Threads, D # {},
                      \A t \in D : HolderOf(t) \in D,
                      \A t \in D : ~InCallback(t)
               PROVE  FALSE
    BY DEF DeadlockFromCallback
  <2>1. \A t \in D : drain[t] = <<>> /\ (instance = t => plugin[First].running = 0)
    BY DEF InCallback
  <2>2. 0 \notin D
    BY LogBufferAssumption
  <2>3. \A t \in D, b \in DOMAIN holder : holder[b] # t
    BY <2>1 DEF LockInv, HeldDrains
  <2>4. subscriber > 0 => subscriber \in DOMAIN holder
    BY LogTypes DEF LogInv
  <2>5. log_buffer > 0 => log_buffer \in DOMAIN holder
    BY LogTypes DEF LogInv
  <2>6. \A t \in D : waits[t] = "instance" /\ instance \in D
    <3>1. SUFFICES ASSUME NEW t \in D PROVE waits[t] = "instance" /\ instance \in D
      OBVIOUS
    <3>2. HeldBy(waits[t]) \in D /\ HeldBy(waits[t]) # 0
      BY <2>2 DEF HolderOf
    <3>3. waits[t] = "line" => HeldBy(waits[t]) \notin D
      BY <2>2, <2>3, <2>4 DEF HeldBy
    <3>4. waits[t] = "drain" => HeldBy(waits[t]) \notin D
      BY <2>2, <2>3, <2>5 DEF HeldBy
    <3>5. waits[t] \in {"line", "drain", "instance"}
      BY <3>2 DEF HeldBy
    <3>6. waits[t] = "instance"
      BY <3>2, <3>3, <3>4, <3>5
    <3>7. QED
      BY <3>2, <3>6 DEF HeldBy
  <2>7. instance \in D /\ waits[instance] = "instance"
    BY <2>6
  <2>8. QED
    BY <2>1, <2>7 DEF LockInv, SelfWaits
<1>2. QED
  BY <1>1, SdkLocks, PTL

(* A plugin can be made exactly from a manifest the reference definition   *)
(* accepts (load, modules, build_new).                                     *)
THEOREM SdkMadeAsReferred == Spec => []MadeAsReferred
<1>1. MadeAsReferred
  <2>1. \A wasm \in Manifests : \A functions :
          Links(wasm, Modules(wasm), functions) <=> Accepted(wasm, functions)
    BY HostFunctionsAssumption, LinkingAccepts
  <2>2. QED
    BY <2>1 DEF MadeAsReferred, Buildable
<1>2. QED
  BY <1>1, PTL

=============================================================================
