--------------------------- MODULE Keyboard_proofs ---------------------------
(***************************************************************************)
(* The keyboard controller with queues of any size, any commands and any    *)
(* number of inputs: no byte is stranded; and, for software that reads the  *)
(* buffer before it asks for an answer, whose byte it holds, and the order  *)
(* of what the keyboard and the mouse send.                                 *)
(***************************************************************************)
EXTENDS Keyboard, SequenceTheorems, TLAPS

Fields ==
  {"outb", "auxb", "kbdOut", "auxOut", "controllerQ", "kbd", "mouse", "kbdClock", "auxClock",
   "allow1", "allow12", "irq1", "irq12", "timer", "bat", "expecting", "tested", "parameter",
   "scanning", "enable", "remote", "mouseParameter", "delayed"}

(* The bytes one sender sends.                                              *)
From(sender) == {sender} \X (0..MaxInputs) \X (1..4)

(* What the fields hold.                                                    *)
Held(k) ==
  /\ DOMAIN k = Fields
  /\ k.kbdOut \in Byte \cup {None} /\ k.auxOut \in Byte \cup {None}
  /\ k.controllerQ \in Seq(Byte) /\ k.kbd \in Seq(Byte) /\ k.mouse \in Seq(Byte)
  /\ Len(k.controllerQ) <= QSize /\ Len(k.kbd) <= KbdElements /\ Len(k.mouse) < MouseBuffSize
  /\ k.expecting \in Expected

(* NothingStranded, of a state of the controller.                           *)
Moving(k) ==
  ~k.outb =>
    /\ ~k.auxb /\ k.controllerQ = <<>>
    /\ k.kbd # <<>> /\ k.kbdClock => k.timer
    /\ (k.mouse # <<>> \/ k.delayed) /\ k.auxClock => k.timer

(* BufferTellsSource, and each queue holds the bytes of its own device: the *)
(* controller's the answers of the mouse.                                   *)
Told(k) ==
  /\ k.controllerQ \in Seq(From("mouse"))
  /\ k.kbd \in Seq(From("keyboard"))
  /\ k.mouse \in Seq(From("mouse"))
  /\ k.outb /\ k.auxb => k.auxOut \in From("mouse")
  /\ k.outb /\ ~k.auxb => k.kbdOut \in From("keyboard")

Lines == request \subseteq lineUp /\ lineUp \subseteq {1, 12} /\ inputs \in 0..MaxInputs

IInv == Held(kbc) /\ Moving(kbc) /\ Lines

-----------------------------------------------------------------------------
(* Sequences                                                                *)
LEMMA ConcatAgain ==
  ASSUME NEW s \in Seq(Byte), NEW t \in Seq(Byte), NEW u \in Seq(Byte)
  PROVE  (s \o t) \o u = s \o (t \o u)
BY ConcatAssociative

LEMMA ConcatBytes ==
  /\ \A s, t \in Seq(Byte) : s \o t \in Seq(Byte)
  /\ \A s \in Seq(Byte) : s \o <<>> = s /\ <<>> \o s = s
  /\ \A b \in Byte : <<b>> \in Seq(Byte) /\ Len(<<b>>) = 1
  /\ <<>> \in Seq(Byte)
<1>2. \A s, t \in Seq(Byte) : s \o t \in Seq(Byte)
  BY ConcatProperties
<1>3. \A s \in Seq(Byte) : s \o <<>> = s /\ <<>> \o s = s
  BY ConcatEmptySeq
<1> QED
  BY <1>2, <1>3

-----------------------------------------------------------------------------
(* Bytes                                                                    *)
LEMMA Senders2 == From("mouse") \subseteq Byte /\ From("keyboard") \subseteq Byte
BY DEF From, Byte, Senders

LEMMA BytesAre ==
  ASSUME inputs \in 0..MaxInputs, NEW from \in Senders, NEW n \in 0..4
  PROVE  /\ Bytes(from, n) \in Seq(From(from)) /\ Bytes(from, n) \in Seq(Byte)
         /\ Len(Bytes(from, n)) = n
         /\ \A i \in 1..n : Bytes(from, n)[i] \in From(from) /\ Bytes(from, n)[i] \in Byte
<1>1. \A i \in 1..n : <<from, inputs, i>> \in From(from)
  BY DEF From
<1>2. Bytes(from, n) \in [1..n -> From(from)]
  BY <1>1 DEF Bytes
<1>3. Bytes(from, n) \in Seq(From(from)) /\ Len(Bytes(from, n)) = n
  BY <1>2
<1>4. From(from) \subseteq Byte
  BY Senders2 DEF Senders
<1> QED
  BY <1>2, <1>3, <1>4, SeqMonotonic

(* A sender's bytes come one after the other.                               *)
LEMMA NoBytes ==
  ASSUME inputs \in 0..MaxInputs, NEW from \in Senders, NEW s \in Seq(Byte)
  PROVE  Bytes(from, 0) = <<>> /\ s = s \o Bytes(from, 0)
<1>1. 0 \in 0..4
  OBVIOUS
<1>2. Bytes(from, 0) \in Seq(Byte) /\ Len(Bytes(from, 0)) = 0
  BY <1>1, BytesAre
<1>3. Bytes(from, 0) = <<>>
  BY <1>2, EmptySeq
<1> QED
  BY <1>3, ConcatBytes

LEMMA OneMore ==
  ASSUME inputs \in 0..MaxInputs, NEW from \in Senders, NEW n \in 0..3, NEW m \in (n + 1)..4,
         NEW s \in Seq(Byte)
  PROVE  (s \o Bytes(from, n)) \o <<Bytes(from, m)[n + 1]>> = s \o Bytes(from, n + 1)
<1> DEFINE b == <<from, inputs, n + 1>>
           old == Bytes(from, n)
           new == Bytes(from, n + 1)
<1>1. Bytes(from, m)[n + 1] = b
  BY DEF Bytes
<1>2. b \in Byte
  BY DEF Byte
<1>3. n \in 0..4 /\ n + 1 \in 0..4
  OBVIOUS
<1>4. /\ old \in Seq(Byte) /\ Len(old) = n /\ \A i \in 1..n : old[i] = <<from, inputs, i>>
      /\ new \in Seq(Byte) /\ Len(new) = n + 1
      /\ \A i \in 1..(n + 1) : new[i] = <<from, inputs, i>>
  <2>1. /\ \A i \in 1..n : old[i] = <<from, inputs, i>>
        /\ \A i \in 1..(n + 1) : new[i] = <<from, inputs, i>>
    BY DEF Bytes
  <2> QED
    BY <1>3, <2>1, BytesAre
<1> HIDE DEF old, new
<1>5. <<b>> \in Seq(Byte) /\ Len(<<b>>) = 1 /\ <<b>>[1] = b
  BY <1>2
<1>6. /\ old \o <<b>> \in Seq(Byte) /\ Len(old \o <<b>>) = n + 1
      /\ \A i \in 1..(n + 1) : (old \o <<b>>)[i] = IF i <= n THEN old[i] ELSE <<b>>[i - n]
  BY <1>4, <1>5, ConcatProperties
<1>7. \A i \in 1..Len(old \o <<b>>) : (old \o <<b>>)[i] = new[i]
  <2> SUFFICES ASSUME NEW i \in 1..(n + 1) PROVE (old \o <<b>>)[i] = new[i]
    BY <1>6
  <2>1. CASE i <= n
    <3>1. i \in 1..n
      BY <2>1
    <3>2. (old \o <<b>>)[i] = old[i]
      BY <1>6, <2>1
    <3>3. old[i] = <<from, inputs, i>> /\ new[i] = <<from, inputs, i>>
      BY <1>4, <3>1
    <3> QED
      BY <3>2, <3>3
  <2>2. CASE ~(i <= n)
    <3>1. i = n + 1 /\ i - n = 1
      BY <2>2
    <3>2. (old \o <<b>>)[i] = <<b>>[1]
      BY <1>6, <2>2, <3>1
    <3>3. new[i] = <<from, inputs, n + 1>>
      BY <1>4, <3>1
    <3> QED
      BY <1>5, <3>2, <3>3
  <2> QED
    BY <2>1, <2>2
<1>8. old \o <<b>> = new
  BY <1>4, <1>6, <1>7, SeqEqual
<1>9. (s \o old) \o <<b>> = s \o (old \o <<b>>)
  BY <1>4, <1>5, ConcatAgain
<1> QED
  BY <1>1, <1>8, <1>9 DEF old, new

LEMMA SenderOf ==
  /\ \A b \in From("mouse") : b[1] = "mouse" /\ b[1] # "keyboard"
  /\ \A b \in From("keyboard") : b[1] = "keyboard"
BY DEF From

-----------------------------------------------------------------------------
(* What the members keep.                                                   *)
LEMMA ControllerEnqKeeps ==
  ASSUME NEW k, Held(k), NEW byte \in Byte, k.outb => Len(k.controllerQ) < QSize,
         NEW j, j = controller_enQ(k, byte)
  PROVE  /\ Held(j) /\ j.outb
         /\ Told(k) /\ (k.outb => byte \in From("mouse")) => Told(j)
         /\ ~k.outb => j.controllerQ = k.controllerQ
         /\ \A f \in {"kbd", "mouse", "kbdClock", "auxClock", "timer", "delayed"} : j[f] = k[f]
<1>1. /\ Append(k.controllerQ, byte) \in Seq(Byte)
      /\ Len(Append(k.controllerQ, byte)) = Len(k.controllerQ) + 1
      /\ Len(k.controllerQ) \in Nat
  BY AppendProperties, LenProperties DEF Held
<1>2. byte \in From("mouse") \/ byte \in From("keyboard")
  BY DEF Byte, From, Senders
<1>3. CASE k.outb
  <2>1. j = [k EXCEPT !.controllerQ = Append(@, byte)]
    BY <1>3 DEF controller_enQ
  <2>2. Held(j) /\ j.outb
    BY <1>1, <1>3, <2>1, KeyboardAssumption DEF Held, Fields
  <2>3. Told(k) /\ byte \in From("mouse") => Told(j)
    BY <2>1, AppendProperties DEF Told, Held, Fields
  <2> QED
    BY <1>3, <2>1, <2>2, <2>3 DEF Held, Fields
<1>4. CASE ~k.outb /\ byte[1] = "keyboard"
  <2>1. j = [k EXCEPT !.kbdOut = byte, !.outb = TRUE, !.auxb = FALSE, !.irq1 = @ \/ k.allow1]
    BY <1>4 DEF controller_enQ
  <2>2. byte \in From("keyboard")
    BY <1>2, <1>4, SenderOf
  <2> QED
    BY <1>4, <2>1, <2>2 DEF Held, Told, Fields
<1>5. CASE ~k.outb /\ byte[1] # "keyboard"
  <2>1. j = [k EXCEPT !.auxOut = byte, !.outb = TRUE, !.auxb = TRUE, !.irq12 = @ \/ k.allow12]
    BY <1>5 DEF controller_enQ
  <2>2. byte \in From("mouse")
    BY <1>2, <1>5, SenderOf
  <2> QED
    BY <1>5, <2>1, <2>2 DEF Held, Told, Fields
<1> QED
  BY <1>3, <1>4, <1>5

LEMMA KbdEnqKeeps ==
  ASSUME NEW k, Held(k), NEW byte \in From("keyboard"), NEW j, j = kbd_enQ(k, byte)
  PROVE  /\ Held(j) /\ (Moving(k) => Moving(j)) /\ (Told(k) => Told(j))
         /\ \A f \in {"outb", "auxb", "kbdOut", "auxOut", "controllerQ", "mouse"} : j[f] = k[f]
         /\ j.kbd = k.kbd \/ j.kbd = k.kbd \o <<byte>>
<1>1. CASE KbdFull(k)
  BY <1>1 DEF kbd_enQ
<1>2. CASE ~KbdFull(k)
  <2>1. j = [k EXCEPT !.kbd = Append(@, byte), !.timer = @ \/ (~k.outb /\ k.kbdClock)]
    BY <1>2 DEF kbd_enQ
  <2>2. byte \in Byte
    BY Senders2
  <2>3. /\ Append(k.kbd, byte) \in Seq(Byte) /\ Len(Append(k.kbd, byte)) = Len(k.kbd) + 1
        /\ Len(k.kbd) \in Nat /\ Append(k.kbd, byte) = k.kbd \o <<byte>>
    BY <2>2, AppendProperties, LenProperties, AppendIsConcat DEF Held
  <2>4. Len(k.kbd) < KbdElements
    BY <1>2, <2>3, KeyboardAssumption DEF KbdFull
  <2>5. Held(j)
    BY <2>1, <2>3, <2>4, KeyboardAssumption DEF Held, Fields
  <2>6. Moving(k) => Moving(j)
    BY <2>1 DEF Moving, Held, Fields
  <2>7. Told(k) => Told(j)
    BY <2>1, AppendProperties DEF Told, Held, Fields
  <2> QED
    BY <2>1, <2>3, <2>5, <2>6, <2>7 DEF Held, Fields
<1> QED
  BY <1>1, <1>2

(* Of two states, that in between only the mouse sent something.            *)
Packed(k1, k2) ==
  /\ Held(k2) /\ (Moving(k1) => Moving(k2)) /\ (Told(k1) => Told(k2))
  /\ \A f \in {"outb", "auxb", "kbdOut", "auxOut", "controllerQ", "kbd", "kbdClock",
              "auxClock", "allow12"} : k2[f] = k1[f]
  /\ \E n \in 0..4 : k2.mouse = k1.mouse \o Bytes("mouse", n)

LEMMA PacketKeeps ==
  ASSUME NEW k, Held(k), inputs \in 0..MaxInputs, NEW j, j = mouse_enQ_packet(k)
  PROVE  Packed(k, j) /\ j.delayed = k.delayed
<1> DEFINE packet == Bytes("mouse", PacketSize)
<1>0. PacketSize \in 0..4 /\ "mouse" \in Senders
  BY KeyboardAssumption DEF Senders
<1>1. packet \in Seq(Byte) /\ Len(packet) = PacketSize /\ packet \in Seq(From("mouse"))
  BY <1>0, BytesAre
<1> HIDE DEF packet
<1>2. /\ k.mouse \o packet \in Seq(Byte) /\ Len(k.mouse \o packet) = Len(k.mouse) + PacketSize
      /\ Len(k.mouse) \in Nat
  BY <1>1, ConcatProperties, LenProperties DEF Held
<1>3. k.mouse \in Seq(From("mouse")) => k.mouse \o packet \in Seq(From("mouse"))
  BY <1>1, ConcatProperties
<1>4. CASE Len(k.mouse) + PacketSize >= MouseBuffSize
  <2>1. j = k
    BY <1>4 DEF mouse_enQ_packet
  <2>2. k.mouse = k.mouse \o Bytes("mouse", 0) /\ 0 \in 0..4
    BY <1>0, NoBytes DEF Held
  <2> QED
    BY <2>1, <2>2 DEF Packed
<1>5. CASE ~(Len(k.mouse) + PacketSize >= MouseBuffSize)
  <2>1. j = [k EXCEPT !.mouse = @ \o packet, !.timer = @ \/ (~k.outb /\ k.auxClock)]
    BY <1>5 DEF mouse_enQ_packet, packet
  <2>2. Len(k.mouse) + PacketSize < MouseBuffSize
    BY <1>2, <1>5, KeyboardAssumption
  <2>3. Held(j)
    BY <1>2, <2>1, <2>2, KeyboardAssumption DEF Held, Fields
  <2>4. Moving(k) => Moving(j)
    BY <2>1 DEF Moving, Held, Fields
  <2>5. Told(k) => Told(j)
    BY <1>3, <2>1 DEF Told, Held, Fields
  <2>6. j.mouse = k.mouse \o Bytes("mouse", PacketSize)
    BY <2>1 DEF Held, Fields, packet
  <2> QED
    BY <1>0, <2>1, <2>3, <2>4, <2>5, <2>6 DEF Packed, Held, Fields
<1> QED
  BY <1>4, <1>5

(* Of two states, that in between only the keyboard sent something: the     *)
(* first n bytes of this input.                                             *)
Typed(k1, k2, n) ==
  /\ Held(k2) /\ (Moving(k1) => Moving(k2)) /\ (Told(k1) => Told(k2))
  /\ \A f \in {"outb", "auxb", "kbdOut", "auxOut", "controllerQ", "mouse"} : k2[f] = k1[f]
  /\ k2.kbd = k1.kbd \o Bytes("keyboard", n)

LEMMA TypedNone ==
  ASSUME NEW k, Held(k), inputs \in 0..MaxInputs PROVE Typed(k, k, 0)
<1>1. "keyboard" \in Senders
  BY DEF Senders
<1> QED
  BY <1>1, NoBytes DEF Typed, Held

(* A byte behind the first n finds room, or none does any more.             *)
LEMMA TypedByte ==
  ASSUME NEW k, Held(k), inputs \in 0..MaxInputs, NEW n \in 0..2, NEW all \in (n + 1)..3,
         NEW g, Typed(k, g, n),
         NEW j, j = kbd_enQ(g, Bytes("keyboard", all)[n + 1])
  PROVE  (KbdFull(g) /\ j = g) \/ Typed(k, j, n + 1)
<1> DEFINE byte == Bytes("keyboard", all)[n + 1]
<1>1. CASE KbdFull(g)
  BY <1>1 DEF kbd_enQ
<1>2. CASE ~KbdFull(g)
  <2>0. "keyboard" \in Senders /\ all \in 0..4 /\ n + 1 \in 1..all
    BY DEF Senders
  <2>1. byte \in From("keyboard") /\ byte \in Byte
    BY <2>0, BytesAre
  <2>2. Held(g)
    BY DEF Typed
  <2>3. /\ Held(j) /\ (Moving(g) => Moving(j)) /\ (Told(g) => Told(j))
        /\ \A f \in {"outb", "auxb", "kbdOut", "auxOut", "controllerQ", "mouse"} : j[f] = g[f]
    <3>1. j = kbd_enQ(g, byte)
      OBVIOUS
    <3> HIDE DEF byte
    <3> QED
      BY <2>1, <2>2, <3>1, KbdEnqKeeps
  <2>4. j.kbd = Append(g.kbd, byte)
    BY <1>2, <2>2 DEF kbd_enQ, Held, Fields
  <2> HIDE DEF byte
  <2>5. j.kbd = g.kbd \o <<byte>>
    BY <2>1, <2>2, <2>4, AppendIsConcat DEF Held
  <2>6. PICK q \in Seq(Byte) : q = k.kbd
    BY DEF Held
  <2>7. (q \o Bytes("keyboard", n)) \o <<byte>> = q \o Bytes("keyboard", n + 1)
    <3>1. n \in 0..3 /\ all \in (n + 1)..4
      OBVIOUS
    <3> QED
      BY <2>0, <3>1, OneMore DEF byte
  <2>8. j.kbd = k.kbd \o Bytes("keyboard", n + 1)
    BY <2>5, <2>6, <2>7 DEF Typed
  <2> QED
    BY <2>3, <2>8 DEF Typed
<1> QED
  BY <1>1, <1>2

LEMMA KbdAllKeeps ==
  ASSUME NEW k, Held(k), inputs \in 0..MaxInputs, NEW n \in 1..3,
         NEW j, j = KbdAll(k, Bytes("keyboard", n))
  PROVE  \E m \in 0..4 : Typed(k, j, m)
<1> DEFINE bytes == Bytes("keyboard", n)
           one   == kbd_enQ(k, bytes[1])
           two   == kbd_enQ(one, bytes[2])
           three == kbd_enQ(two, bytes[3])
<1>1. n \in 0..4 /\ "keyboard" \in Senders
  BY DEF Senders
<1>2. Len(bytes) = n
  BY <1>1, BytesAre
<1>3. j = CASE Len(bytes) = 1 -> one [] Len(bytes) = 2 -> two [] Len(bytes) = 3 -> three
  BY DEF KbdAll
<1>4. Typed(k, k, 0)
  BY TypedNone
<1>5. (KbdFull(k) /\ one = k) \/ Typed(k, one, 1)
  <2>1. 0 \in 0..2 /\ n \in (0 + 1)..3 /\ 0 + 1 = 1
    OBVIOUS
  <2> QED
    BY <1>4, <2>1, TypedByte
<1>6. n > 1 /\ Typed(k, one, 1) => (KbdFull(one) /\ two = one) \/ Typed(k, two, 2)
  <2>1. 1 \in 0..2 /\ (n > 1 => n \in (1 + 1)..3) /\ 1 + 1 = 2
    OBVIOUS
  <2> HIDE DEF one
  <2> QED
    BY <2>1, TypedByte
<1>7. n > 2 /\ Typed(k, two, 2) => (KbdFull(two) /\ three = two) \/ Typed(k, three, 3)
  <2>1. 2 \in 0..2 /\ (n > 2 => n \in (2 + 1)..3) /\ 2 + 1 = 3
    OBVIOUS
  <2> HIDE DEF two
  <2> QED
    BY <2>1, TypedByte
<1>8. (KbdFull(one) => two = one) /\ (KbdFull(two) => three = two)
  BY DEF kbd_enQ
<1> HIDE DEF bytes, one, two, three
<1>9. CASE n = 1
  BY <1>2, <1>3, <1>4, <1>5, <1>9
<1>10. CASE n = 2
  <2>1. j = two
    BY <1>2, <1>3, <1>10
  <2> QED
    BY <1>4, <1>5, <1>6, <1>8, <1>10, <2>1
<1>11. CASE n = 3
  <2>1. j = three
    BY <1>2, <1>3, <1>11
  <2> QED
    BY <1>4, <1>5, <1>6, <1>7, <1>8, <1>11, <2>1
<1> QED
  BY <1>9, <1>10, <1>11

LEMMA ControllerAllKeeps ==
  ASSUME NEW k, Held(k), NEW bytes \in Seq(Byte),
         k.outb => Len(k.controllerQ) + Len(bytes) <= QSize,
         ~k.outb => k.controllerQ = <<>> /\ Len(bytes) <= QSize + 1,
         NEW j, j = ControllerAll(k, bytes)
  PROVE  /\ Held(j) /\ (Moving(k) => Moving(j))
         /\ Told(k) /\ bytes \in Seq(From("mouse")) => Told(j)
         /\ \A f \in {"kbd", "mouse", "kbdClock", "auxClock", "timer", "delayed"} : j[f] = k[f]
         /\ bytes = <<>> => j = k
         /\ bytes # <<>> /\ ~k.outb => j.controllerQ = Tail(bytes)
<1>1. CASE bytes = <<>>
  <2>1. j = k
    BY <1>1 DEF ControllerAll
  <2> QED
    BY <1>1, <2>1
<1>2. CASE bytes # <<>>
  <2> DEFINE first == controller_enQ(k, Head(bytes))
  <2>1. /\ Head(bytes) \in Byte /\ Tail(bytes) \in Seq(Byte) /\ Len(Tail(bytes)) = Len(bytes) - 1
        /\ Len(bytes) \in Nat /\ Len(bytes) > 0 /\ Len(k.controllerQ) \in Nat
    BY <1>2, HeadTailProperties, EmptySeq, LenProperties DEF Held
  <2>2. bytes \in Seq(From("mouse")) =>
          Head(bytes) \in From("mouse") /\ Tail(bytes) \in Seq(From("mouse"))
    BY <1>2, HeadTailProperties
  <2>3. k.outb => Len(k.controllerQ) < QSize
    BY <2>1, KeyboardAssumption
  <2>4. /\ Held(first) /\ first.outb
        /\ Told(k) /\ (k.outb => Head(bytes) \in From("mouse")) => Told(first)
        /\ ~k.outb => first.controllerQ = k.controllerQ
        /\ \A f \in {"kbd", "mouse", "kbdClock", "auxClock", "timer", "delayed"} : first[f] = k[f]
    BY <2>1, <2>3, ControllerEnqKeeps
  <2>5. k.outb => /\ Len(first.controllerQ) = Len(k.controllerQ) + 1
    <3> SUFFICES ASSUME k.outb PROVE Len(first.controllerQ) = Len(k.controllerQ) + 1
      OBVIOUS
    <3>1. first = [k EXCEPT !.controllerQ = Append(@, Head(bytes))]
      BY DEF controller_enQ
    <3> QED
      BY <2>1, <3>1, AppendProperties DEF Held, Fields
  <2>6. j = [first EXCEPT !.controllerQ = @ \o Tail(bytes)]
    BY <1>2 DEF ControllerAll
  <2> HIDE DEF first
  <2>7. /\ first.controllerQ \o Tail(bytes) \in Seq(Byte)
        /\ Len(first.controllerQ \o Tail(bytes)) = Len(first.controllerQ) + Len(Tail(bytes))
        /\ Len(first.controllerQ) \in Nat
    BY <2>1, <2>4, ConcatProperties, LenProperties DEF Held
  <2>8. Len(first.controllerQ) + Len(Tail(bytes)) <= QSize
    <3>1. CASE k.outb
      BY <2>1, <2>5, <3>1, KeyboardAssumption
    <3>2. CASE ~k.outb
      BY <2>1, <2>4, <3>2, KeyboardAssumption, EmptySeq
    <3> QED
      BY <3>1, <3>2
  <2>9. Held(j) /\ j.outb
    BY <2>4, <2>6, <2>7, <2>8 DEF Held, Fields
  <2>10. ASSUME Told(k), bytes \in Seq(From("mouse")) PROVE Told(j)
    <3>1. Told(first) /\ Tail(bytes) \in Seq(From("mouse"))
      BY <2>2, <2>4, <2>10
    <3>2. first.controllerQ \o Tail(bytes) \in Seq(From("mouse"))
      BY <3>1, ConcatProperties DEF Told
    <3> QED
      BY <2>4, <2>6, <3>1, <3>2 DEF Told, Held, Fields
  <2>11. ~k.outb => j.controllerQ = Tail(bytes)
    <3>1. ~k.outb => first.controllerQ \o Tail(bytes) = Tail(bytes)
      BY <2>1, <2>4, ConcatEmptySeq
    <3> QED
      BY <2>4, <2>6, <3>1 DEF Held, Fields
  <2> QED
    BY <1>2, <2>4, <2>6, <2>9, <2>10, <2>11 DEF Moving, Held, Fields
<1> QED
  BY <1>1, <1>2

(* Starting and stopping a clock.                                           *)
LEMMA ClockKeeps ==
  ASSUME NEW k, Held(k), NEW value \in BOOLEAN,
         NEW j, j \in {set_kbd_clock_enable(k, value), set_aux_clock_enable(k, value)},
         Moving(k)
  PROVE  /\ Held(j) /\ Moving(j) /\ (Told(k) => Told(j))
         /\ \A f \in {"outb", "auxb", "kbdOut", "auxOut", "controllerQ", "kbd", "mouse",
                      "expecting", "parameter", "allow1", "allow12", "bat"} : j[f] = k[f]
<1>1. CASE j = set_kbd_clock_enable(k, value)
  BY <1>1 DEF set_kbd_clock_enable, EnableStarts, activate_timer, Held, Moving, Told, Fields
<1>2. CASE j = set_aux_clock_enable(k, value)
  BY <1>2 DEF set_aux_clock_enable, EnableStarts, activate_timer, Held, Moving, Told, Fields
<1> QED
  BY <1>1, <1>2

LEMMA CreateKeeps ==
  ASSUME NEW k, Held(k), inputs \in 0..MaxInputs, NEW force \in BOOLEAN,
         NEW j, j = create_mouse_packet(k, force)
  PROVE  Packed(k, j) /\ (~force => j.mouse # <<>> \/ ~j.delayed)
<1>1. CASE ~force /\ (k.mouse # <<>> \/ ~k.delayed)
  <2>1. j = k
    BY <1>1 DEF create_mouse_packet
  <2>2. k.mouse = k.mouse \o Bytes("mouse", 0) /\ 0 \in 0..4
    BY NoBytes DEF Held, Senders
  <2> QED
    BY <1>1, <2>1, <2>2 DEF Packed
<1>2. CASE ~(~force /\ (k.mouse # <<>> \/ ~k.delayed))
  <2> DEFINE g == [k EXCEPT !.delayed = FALSE]
  <2>1. j = mouse_enQ_packet(g)
    BY <1>2 DEF create_mouse_packet
  <2>2. /\ Held(g) /\ (Moving(k) => Moving(g)) /\ (Told(k) => Told(g)) /\ ~g.delayed
        /\ \A f \in {"outb", "auxb", "kbdOut", "auxOut", "controllerQ", "kbd", "kbdClock",
                     "auxClock", "allow12", "mouse"} : g[f] = k[f]
    BY DEF Held, Moving, Told, Fields
  <2> HIDE DEF g
  <2>3. Packed(g, j) /\ j.delayed = g.delayed
    <3>1. Held(g)
      BY <2>2
    <3> QED
      BY <2>1, <3>1, PacketKeeps
  <2> QED
    BY <2>2, <2>3 DEF Packed
<1> QED
  BY <1>1, <1>2

-----------------------------------------------------------------------------
(* The streams                                                              *)
LEMMA StreamsAre ==
  ASSUME NEW k, Held(k), Told(k)
  PROVE  /\ KbdStream(k) \in Seq(Byte) /\ MouseStream(k) \in Seq(Byte)
         /\ k.controllerQ \o k.mouse \in Seq(Byte)
         /\ k.outb /\ ~k.auxb => k.kbdOut \in Byte /\ KbdStream(k) = <<k.kbdOut>> \o k.kbd
         /\ ~(k.outb /\ ~k.auxb) => KbdStream(k) = k.kbd
         /\ k.outb /\ k.auxb =>
              k.auxOut \in Byte /\ MouseStream(k) = <<k.auxOut>> \o (k.controllerQ \o k.mouse)
         /\ ~(k.outb /\ k.auxb) => MouseStream(k) = k.controllerQ \o k.mouse
<1> DEFINE cq == k.controllerQ
           m  == k.mouse
           q  == k.kbd
<1>1. cq \in Seq(Byte) /\ m \in Seq(Byte) /\ q \in Seq(Byte)
  BY DEF Held
<1>2. /\ k.outb /\ ~k.auxb => k.kbdOut \in Byte
      /\ k.outb /\ k.auxb => k.auxOut \in Byte
  BY Senders2 DEF Told
<1>3. KbdStream(k) = (IF k.outb /\ ~k.auxb THEN <<k.kbdOut>> ELSE <<>>) \o q
  BY DEF KbdStream
<1>4. MouseStream(k) = ((IF k.outb /\ k.auxb THEN <<k.auxOut>> ELSE <<>>) \o cq) \o m
  BY DEF MouseStream
<1> HIDE DEF cq, m, q
<1>5. CASE k.outb /\ ~k.auxb
  <2>1. KbdStream(k) = <<k.kbdOut>> \o q /\ MouseStream(k) = (<<>> \o cq) \o m
    BY <1>3, <1>4, <1>5
  <2>2. <<>> \o cq = cq /\ cq \o m \in Seq(Byte)
    BY <1>1, ConcatBytes
  <2>3. <<k.kbdOut>> \in Seq(Byte) /\ <<k.kbdOut>> \o q \in Seq(Byte)
    BY <1>1, <1>2, <1>5, ConcatBytes
  <2>4. MouseStream(k) = cq \o m
    BY <2>1, <2>2
  <2> QED
    BY <1>2, <1>5, <2>1, <2>2, <2>3, <2>4 DEF cq, m, q
<1>6. CASE k.outb /\ k.auxb
  <2>1. KbdStream(k) = <<>> \o q /\ MouseStream(k) = (<<k.auxOut>> \o cq) \o m
    BY <1>3, <1>4, <1>6
  <2>2. <<k.auxOut>> \in Seq(Byte)
    BY <1>2, <1>6, ConcatBytes
  <2>3. (<<k.auxOut>> \o cq) \o m = <<k.auxOut>> \o (cq \o m)
    BY <1>1, <2>2, ConcatAgain
  <2>4. cq \o m \in Seq(Byte) /\ <<k.auxOut>> \o (cq \o m) \in Seq(Byte) /\ <<>> \o q = q
    BY <1>1, <2>2, ConcatBytes
  <2> QED
    BY <1>1, <1>2, <1>6, <2>1, <2>3, <2>4 DEF cq, m, q
<1>7. CASE ~k.outb
  <2>1. KbdStream(k) = <<>> \o q /\ MouseStream(k) = (<<>> \o cq) \o m
    BY <1>3, <1>4, <1>7
  <2>2. <<>> \o cq = cq /\ cq \o m \in Seq(Byte) /\ <<>> \o q = q
    BY <1>1, ConcatBytes
  <2>3. MouseStream(k) = cq \o m
    BY <2>1, <2>2
  <2> QED
    BY <1>1, <1>7, <2>1, <2>2, <2>3 DEF cq, m, q
<1> QED
  BY <1>5, <1>6, <1>7

(* Nothing is sent, or only behind what is unread.                          *)
Stay(k, j) == KbdStream(j) = KbdStream(k) /\ MouseStream(j) = MouseStream(k)

Grows(k, j) ==
  /\ Behind("keyboard", KbdStream(k), KbdStream(j))
  /\ Behind("mouse", MouseStream(k), MouseStream(j))

LEMMA StayGrows ==
  ASSUME inputs \in 0..MaxInputs, NEW k, Held(k), Told(k), NEW j, Stay(k, j)
  PROVE  Grows(k, j)
<1>1. KbdStream(k) \in Seq(Byte) /\ MouseStream(k) \in Seq(Byte)
  BY StreamsAre
<1>2. /\ KbdStream(k) = KbdStream(k) \o Bytes("keyboard", 0)
      /\ MouseStream(k) = MouseStream(k) \o Bytes("mouse", 0)
  BY <1>1, NoBytes DEF Senders
<1> QED
  BY <1>2, 0 \in 0..4 DEF Grows, Stay, Behind

LEMMA GrowsOn ==
  ASSUME NEW k1, NEW k2, NEW k3,
         (Stay(k1, k2) /\ Grows(k2, k3)) \/ (Grows(k1, k2) /\ Stay(k2, k3))
  PROVE  Grows(k1, k3)
BY DEF Grows, Stay

(* The byte in the buffer and the queue behind it stay; each device may     *)
(* have sent more.                                                          *)
LEMMA MoreSent ==
  ASSUME NEW k, Held(k), Told(k), NEW j, Held(j), Told(j),
         \A f \in {"outb", "auxb", "kbdOut", "auxOut", "controllerQ"} : j[f] = k[f],
         NEW moreK \in Seq(Byte), j.kbd = k.kbd \o moreK,
         NEW moreM \in Seq(Byte), j.mouse = k.mouse \o moreM
  PROVE  KbdStream(j) = KbdStream(k) \o moreK /\ MouseStream(j) = MouseStream(k) \o moreM
<1>3. PICK q \in Seq(Byte), cq \in Seq(Byte), m \in Seq(Byte) :
        q = k.kbd /\ cq = k.controllerQ /\ m = k.mouse
  BY DEF Held
<1>4. j.kbd = q \o moreK /\ j.mouse = m \o moreM /\ j.controllerQ = cq
  BY <1>3
<1>5. cq \o (m \o moreM) = (cq \o m) \o moreM /\ cq \o m \in Seq(Byte)
  <2>1. cq \o (m \o moreM) = (cq \o m) \o moreM
    BY ConcatAgain
  <2>2. cq \o m \in Seq(Byte)
    BY ConcatBytes
  <2> QED
    BY <2>1, <2>2
<1>6. KbdStream(j) = KbdStream(k) \o moreK
  <2>1. CASE k.outb /\ ~k.auxb
    <3>1. PICK b \in Seq(Byte) : b = <<k.kbdOut>>
      BY <2>1, StreamsAre, ConcatBytes
    <3>2. KbdStream(k) = b \o q /\ KbdStream(j) = b \o (q \o moreK)
      BY <1>3, <1>4, <2>1, <3>1, StreamsAre
    <3>3. b \o (q \o moreK) = (b \o q) \o moreK
      BY ConcatAgain
    <3> QED
      BY <3>2, <3>3
  <2>2. CASE ~(k.outb /\ ~k.auxb)
    BY <1>3, <1>4, <2>2, StreamsAre
  <2> QED
    BY <2>1, <2>2
<1>7. MouseStream(j) = MouseStream(k) \o moreM
  <2>1. CASE k.outb /\ k.auxb
    <3>1. PICK b \in Seq(Byte) : b = <<k.auxOut>>
      BY <2>1, StreamsAre, ConcatBytes
    <3>2. MouseStream(k) = b \o (cq \o m) /\ MouseStream(j) = b \o (cq \o (m \o moreM))
      BY <1>3, <1>4, <2>1, <3>1, StreamsAre
    <3>3. b \o ((cq \o m) \o moreM) = (b \o (cq \o m)) \o moreM
      BY <1>5, ConcatAgain
    <3> QED
      BY <1>5, <3>2, <3>3
  <2>2. CASE ~(k.outb /\ k.auxb)
    BY <1>3, <1>4, <1>5, <2>2, StreamsAre
  <2> QED
    BY <2>1, <2>2
<1> QED
  BY <1>6, <1>7

LEMMA MoreGrows ==
  ASSUME inputs \in 0..MaxInputs, NEW k, Held(k), Told(k), NEW j, Held(j), Told(j),
         \A f \in {"outb", "auxb", "kbdOut", "auxOut", "controllerQ"} : j[f] = k[f],
         NEW m \in 0..4, j.kbd = k.kbd \o Bytes("keyboard", m),
         NEW n \in 0..4, j.mouse = k.mouse \o Bytes("mouse", n)
  PROVE  Grows(k, j)
<1>1. Bytes("keyboard", m) \in Seq(Byte) /\ Bytes("mouse", n) \in Seq(Byte)
  BY BytesAre DEF Senders
<1>2. /\ KbdStream(j) = KbdStream(k) \o Bytes("keyboard", m)
      /\ MouseStream(j) = MouseStream(k) \o Bytes("mouse", n)
  BY <1>1, MoreSent
<1> QED
  BY <1>2 DEF Grows, Behind

(* The first of a queue may as well wait in the buffer.                     *)
LEMMA HeadOfQueue ==
  ASSUME NEW q \in Seq(Byte), q # <<>>
  PROVE  /\ Head(q) \in Byte /\ Tail(q) \in Seq(Byte) /\ <<Head(q)>> \o Tail(q) = q
         /\ Len(Tail(q)) < Len(q) /\ Len(Tail(q)) \in Nat /\ Len(q) \in Nat
<1>1. /\ Head(q) \in Byte /\ Tail(q) \in Seq(Byte) /\ Len(Tail(q)) = Len(q) - 1
      /\ \A i \in 1..Len(Tail(q)) : Tail(q)[i] = q[i + 1]
  BY HeadTailProperties
<1>2. Len(q) \in Nat \ {0}
  BY EmptySeq
<1>3. <<Head(q)>> \in Seq(Byte) /\ Len(<<Head(q)>>) = 1 /\ <<Head(q)>>[1] = q[1]
  BY <1>1
<1>4. /\ <<Head(q)>> \o Tail(q) \in Seq(Byte)
      /\ Len(<<Head(q)>> \o Tail(q)) = 1 + Len(Tail(q))
      /\ \A i \in 1..(1 + Len(Tail(q))) :
           (<<Head(q)>> \o Tail(q))[i] = IF i <= 1 THEN <<Head(q)>>[i] ELSE Tail(q)[i - 1]
  BY <1>1, <1>3, ConcatProperties
<1>5. \A i \in 1..Len(q) : (<<Head(q)>> \o Tail(q))[i] = q[i]
  <2> SUFFICES ASSUME NEW i \in 1..Len(q) PROVE (<<Head(q)>> \o Tail(q))[i] = q[i]
    OBVIOUS
  <2>1. CASE i = 1
    BY <1>1, <1>2, <1>3, <1>4, <2>1
  <2>2. CASE i # 1
    <3>1. i - 1 \in 1..Len(Tail(q)) /\ (i - 1) + 1 = i
      BY <1>1, <1>2, <2>2
    <3>2. Tail(q)[i - 1] = q[(i - 1) + 1]
      BY <1>1, <3>1
    <3> QED
      BY <1>1, <1>2, <1>4, <2>2, <3>1, <3>2
  <2> QED
    BY <2>1, <2>2
<1>6. Len(<<Head(q)>> \o Tail(q)) = Len(q)
  BY <1>1, <1>2, <1>4
<1>7. <<Head(q)>> \o Tail(q) = q
  BY <1>4, <1>5, <1>6, SeqEqual
<1> QED
  BY <1>1, <1>2, <1>7

(* Of an idle controller the timer moves a byte.  It leaves the streams as  *)
(* they are, or sends a packet.                                             *)
LEMMA MoveKeeps ==
  ASSUME NEW k, Held(k), inputs \in 0..MaxInputs, ~k.outb, ~k.auxb, k.controllerQ = <<>>,
         NEW j, j = MoveByte(k)
  PROVE  /\ Held(j) /\ Moving(j)
         /\ Told(k) => Told(j) /\ Grows(k, j)
<1>1. CASE k.kbd # <<>> /\ (k.kbdClock \/ k.bat)
  <2>1. j = [k EXCEPT !.kbdOut = Head(k.kbd), !.kbd = Tail(@), !.outb = TRUE, !.irq1 = k.allow1]
    BY <1>1 DEF MoveByte, MoveKey
  <2>2. PICK q \in Seq(Byte) : q = k.kbd
    BY DEF Held
  <2>3. /\ Head(q) \in Byte /\ Tail(q) \in Seq(Byte) /\ <<Head(q)>> \o Tail(q) = q
        /\ Len(Tail(q)) < Len(q) /\ Len(Tail(q)) \in Nat /\ Len(q) \in Nat
    BY <1>1, <2>2, HeadOfQueue
  <2>4. Held(j) /\ Moving(j)
    <3>1. PICK rest \in Seq(Byte), first \in Byte : rest = Tail(q) /\ first = Head(q)
      BY <2>3
    <3>2. Len(rest) <= KbdElements
      BY <2>2, <2>3, <3>1, KeyboardAssumption DEF Held
    <3>3. j = [k EXCEPT !.kbdOut = first, !.kbd = rest, !.outb = TRUE, !.irq1 = k.allow1]
      BY <2>1, <2>2, <3>1
    <3> QED
      BY <3>2, <3>3 DEF Held, Moving, Fields
  <2>5. ASSUME Told(k) PROVE Told(j) /\ Grows(k, j)
    <3>1. Head(q) \in From("keyboard") /\ Tail(q) \in Seq(From("keyboard"))
      BY <1>1, <2>2, <2>5, HeadTailProperties DEF Told
    <3>2. Told(j)
      BY <2>1, <2>2, <2>5, <3>1 DEF Told, Held, Fields
    <3>3. /\ j.outb /\ ~j.auxb /\ j.kbdOut = Head(q) /\ j.kbd = Tail(q)
          /\ j.controllerQ = k.controllerQ /\ j.mouse = k.mouse
      BY <2>1, <2>2 DEF Held, Fields
    <3>4. KbdStream(j) = KbdStream(k)
      BY <2>2, <2>3, <2>4, <2>5, <3>2, <3>3, StreamsAre
    <3>5. MouseStream(j) = MouseStream(k)
      BY <2>4, <2>5, <3>2, <3>3, StreamsAre
    <3> QED
      BY <2>5, <3>2, <3>4, <3>5, StayGrows DEF Stay
  <2> QED
    BY <2>4, <2>5
<1>2. CASE ~(k.kbd # <<>> /\ (k.kbdClock \/ k.bat))
  <2> DEFINE g == create_mouse_packet(k, FALSE)
  <2>1. j = MoveMouse(g)
    BY <1>2 DEF MoveByte
  <2>2. Packed(k, g) /\ (g.mouse # <<>> \/ ~g.delayed)
    BY CreateKeeps
  <2> HIDE DEF g
  <2>3. /\ Held(g) /\ (Told(k) => Told(g)) /\ ~g.outb /\ ~g.auxb /\ g.controllerQ = <<>>
        /\ g.kbd = k.kbd /\ g.kbdClock = k.kbdClock
    BY <2>2 DEF Packed
  <2>4. Told(k) => Grows(k, g)
    <3> SUFFICES ASSUME Told(k) PROVE Grows(k, g)
      OBVIOUS
    <3>1. k.kbd = k.kbd \o Bytes("keyboard", 0) /\ 0 \in 0..4
      BY NoBytes DEF Held, Senders
    <3>2. g.kbd = k.kbd \o Bytes("keyboard", 0)
      BY <2>3, <3>1
    <3>3. \A f \in {"outb", "auxb", "kbdOut", "auxOut", "controllerQ"} : g[f] = k[f]
      BY <2>2 DEF Packed
    <3>4. PICK n \in 0..4 : g.mouse = k.mouse \o Bytes("mouse", n)
      BY <2>2 DEF Packed
    <3> QED
      BY <2>3, <3>1, <3>2, <3>3, <3>4, MoreGrows
  <2>5. CASE g.auxClock /\ g.mouse # <<>>
    <3>1. j = [g EXCEPT !.auxOut = Head(g.mouse), !.mouse = Tail(@), !.outb = TRUE, !.auxb = TRUE,
                        !.irq12 = g.allow12]
      BY <2>1, <2>5 DEF MoveMouse
    <3>2. PICK q \in Seq(Byte) : q = g.mouse
      BY <2>3 DEF Held
    <3>3. /\ Head(q) \in Byte /\ Tail(q) \in Seq(Byte) /\ <<Head(q)>> \o Tail(q) = q
          /\ Len(Tail(q)) < Len(q) /\ Len(Tail(q)) \in Nat /\ Len(q) \in Nat
      BY <2>5, <3>2, HeadOfQueue
    <3>4. Held(j) /\ Moving(j)
      <4>1. PICK rest \in Seq(Byte), first \in Byte : rest = Tail(q) /\ first = Head(q)
        BY <3>3
      <4>2. Len(rest) < MouseBuffSize
        BY <2>3, <3>2, <3>3, <4>1, KeyboardAssumption DEF Held
      <4>3. j = [g EXCEPT !.auxOut = first, !.mouse = rest, !.outb = TRUE, !.auxb = TRUE,
                          !.irq12 = g.allow12]
        BY <3>1, <3>2, <4>1
      <4> QED
        BY <2>3, <4>2, <4>3 DEF Held, Moving, Fields
    <3>5. ASSUME Told(k) PROVE Told(j) /\ Grows(k, j)
      <4>1. Told(g)
        BY <2>3, <3>5
      <4>2. Head(q) \in From("mouse") /\ Tail(q) \in Seq(From("mouse"))
        BY <2>5, <3>2, <4>1, HeadTailProperties DEF Told
      <4>3. Told(j)
        BY <2>3, <3>1, <3>2, <4>1, <4>2 DEF Told, Held, Fields
      <4>4. /\ j.outb /\ j.auxb /\ j.auxOut = Head(q) /\ j.mouse = Tail(q)
            /\ j.controllerQ = <<>> /\ j.kbd = g.kbd
        BY <2>3, <3>1, <3>2 DEF Held, Fields
      <4>5. KbdStream(j) = KbdStream(g)
        BY <2>3, <3>4, <4>1, <4>3, <4>4, StreamsAre
      <4>6. MouseStream(g) = <<>> \o q /\ MouseStream(j) = <<Head(q)>> \o (<<>> \o Tail(q))
        BY <2>3, <3>2, <3>4, <4>1, <4>3, <4>4, StreamsAre
      <4>7. MouseStream(j) = MouseStream(g)
        BY <3>3, <4>6, ConcatBytes
      <4>8. Stay(g, j)
        BY <4>5, <4>7 DEF Stay
      <4> QED
        BY <2>4, <3>5, <4>3, <4>8, GrowsOn
    <3> QED
      BY <3>4, <3>5
  <2>6. CASE ~(g.auxClock /\ g.mouse # <<>>)
    <3>1. j = g
      BY <2>1, <2>6 DEF MoveMouse
    <3>2. Moving(g)
      BY <1>2, <2>2, <2>3, <2>6 DEF Moving
    <3> QED
      BY <2>3, <2>4, <3>1, <3>2
  <2> QED
    BY <2>5, <2>6
<1> QED
  BY <1>1, <1>2

LEMMA BehindFirst ==
  ASSUME NEW b \in Byte, NEW s \in Seq(Byte)
  PROVE  Tail(<<b>> \o s) = s
<1> DEFINE t == <<b>> \o s
<1>1. <<b>> \in Seq(Byte) /\ Len(<<b>>) = 1
  OBVIOUS
<1>2. /\ t \in Seq(Byte) /\ Len(t) = 1 + Len(s)
      /\ \A i \in 1..(1 + Len(s)) : t[i] = IF i <= 1 THEN <<b>>[i] ELSE s[i - 1]
  BY <1>1, ConcatProperties
<1>3. Len(s) \in Nat
  BY LenProperties
<1> HIDE DEF t
<1>4. t # <<>>
  BY <1>2, <1>3, EmptySeq
<1>5. /\ Tail(t) \in Seq(Byte) /\ Len(Tail(t)) = Len(t) - 1
      /\ \A i \in 1..Len(Tail(t)) : Tail(t)[i] = t[i + 1]
  BY <1>2, <1>4, HeadTailProperties
<1>6. \A i \in 1..Len(Tail(t)) : Tail(t)[i] = s[i]
  <2> SUFFICES ASSUME NEW i \in 1..Len(Tail(t)) PROVE Tail(t)[i] = s[i]
    OBVIOUS
  <2>1. i + 1 \in 1..(1 + Len(s)) /\ ~(i + 1 <= 1) /\ (i + 1) - 1 = i
    BY <1>2, <1>3, <1>5
  <2>2. t[i + 1] = s[(i + 1) - 1]
    BY <1>2, <2>1
  <2> QED
    BY <1>5, <2>1, <2>2
<1>7. Tail(t) = s
  BY <1>2, <1>3, <1>5, <1>6, SeqEqual
<1> QED
  BY <1>7 DEF t

(* A read takes a byte out of k and leaves f; then the next queued one, if  *)
(* any, is there at once, and the timer is started: j.                      *)
Emptied(k, f) ==
  /\ Held(f) /\ ~f.outb /\ ~f.auxb
  /\ \A x \in {"controllerQ", "kbd", "mouse"} : f[x] = k[x]

Filled(f, j) ==
  /\ DOMAIN j = Fields /\ j.timer
  /\ \A x \in Fields \ {"irq1", "irq12", "timer"} : j[x] = NextQueued(f)[x]

Followed(k, j) ==
  /\ Held(j) /\ Moving(j)
  /\ Told(k) => /\ Told(j) /\ KbdStream(j) = k.kbd
                /\ MouseStream(j) = k.controllerQ \o k.mouse

LEMMA NextKeeps ==
  ASSUME NEW k, Held(k), NEW f, Emptied(k, f), NEW j, Filled(f, j)
  PROVE  Followed(k, j)
<1>0. /\ Held(f) /\ ~f.outb /\ ~f.auxb /\ DOMAIN j = Fields /\ j.timer
      /\ \A x \in {"controllerQ", "kbd", "mouse"} : f[x] = k[x]
      /\ \A x \in Fields \ {"irq1", "irq12", "timer"} : j[x] = NextQueued(f)[x]
  BY DEF Emptied, Filled
<1>1. CASE f.controllerQ = <<>>
  <2>1. \A x \in Fields \ {"irq1", "irq12", "timer"} : j[x] = f[x]
    BY <1>0, <1>1 DEF NextQueued
  <2>2. Held(j) /\ Moving(j)
    BY <1>0, <1>1, <2>1 DEF Held, Moving, Fields
  <2>3. ASSUME Told(k) PROVE Told(j)
    BY <1>0, <2>1, <2>3 DEF Told, Held, Fields
  <2>4. /\ ~j.outb /\ ~j.auxb /\ j.controllerQ = k.controllerQ
        /\ j.kbd = k.kbd /\ j.mouse = k.mouse
    BY <1>0, <2>1 DEF Held, Fields
  <2> QED
    BY <2>2, <2>3, <2>4, StreamsAre DEF Followed
<1>2. CASE f.controllerQ # <<>>
  <2>1. PICK q \in Seq(Byte) : q = f.controllerQ
    BY <1>0 DEF Held
  <2>2. /\ Head(q) \in Byte /\ Tail(q) \in Seq(Byte) /\ <<Head(q)>> \o Tail(q) = q
        /\ Len(Tail(q)) < Len(q) /\ Len(Tail(q)) \in Nat /\ Len(q) \in Nat
    BY <1>2, <2>1, HeadOfQueue
  <2>3. PICK first \in Byte, rest \in Seq(Byte) : first = Head(q) /\ rest = Tail(q)
    BY <2>2
  <2>4. Len(rest) <= QSize
    BY <1>0, <2>1, <2>2, <2>3, KeyboardAssumption DEF Held
  <2>5. /\ j.auxOut = first /\ j.controllerQ = rest /\ j.outb /\ j.auxb
        /\ \A x \in Fields \ {"irq1", "irq12", "timer", "auxOut", "controllerQ", "outb", "auxb"} :
             j[x] = f[x]
    BY <1>0, <1>2, <2>1, <2>3 DEF NextQueued, Held, Fields
  <2>6. Held(j) /\ Moving(j)
    BY <1>0, <2>4, <2>5 DEF Held, Moving, Fields
  <2>7. ASSUME Told(k)
        PROVE  /\ Told(j) /\ KbdStream(j) = k.kbd
               /\ MouseStream(j) = k.controllerQ \o k.mouse
    <3>1. first \in From("mouse") /\ rest \in Seq(From("mouse"))
      BY <1>0, <1>2, <2>1, <2>3, <2>7, HeadTailProperties DEF Told
    <3>2. Told(j)
      BY <1>0, <2>5, <2>7, <3>1 DEF Told, Held, Fields
    <3>3. /\ j.outb /\ j.auxb /\ j.auxOut = first /\ j.controllerQ = rest
          /\ j.kbd = k.kbd /\ j.mouse = k.mouse
      BY <1>0, <2>5 DEF Held, Fields
    <3>4. PICK m \in Seq(Byte) : m = k.mouse
      BY DEF Held
    <3>5. KbdStream(j) = k.kbd /\ MouseStream(j) = <<first>> \o (rest \o m)
      BY <2>6, <3>2, <3>3, <3>4, StreamsAre
    <3>6. <<first>> \in Seq(Byte)
      OBVIOUS
    <3>7. (<<first>> \o rest) \o m = <<first>> \o (rest \o m)
      BY <3>6, ConcatAgain
    <3>8. <<first>> \o rest = q
      BY <2>2, <2>3
    <3> QED
      BY <1>0, <2>1, <3>2, <3>4, <3>5, <3>7, <3>8
  <2> QED
    BY <2>6, <2>7 DEF Followed
<1> QED
  BY <1>1, <1>2

LEMMA ReadAuxKeeps ==
  ASSUME NEW k, Held(k), Moving(k), k.auxb, NEW j, j = ReadAux(k)
  PROVE  /\ k.outb /\ Held(j) /\ Moving(j)
         /\ Told(k) => /\ Told(j) /\ KbdStream(j) = KbdStream(k)
                       /\ MouseStream(j) = Tail(MouseStream(k))
<1> DEFINE f == [k EXCEPT !.auxOut = None, !.outb = FALSE, !.auxb = FALSE, !.irq12 = FALSE]
           next == NextQueued(f)
<1>1. j = [[next EXCEPT !.irq12 = next.outb /\ k.allow12] EXCEPT !.timer = TRUE]
  BY DEF ReadAux, AuxTaken, activate_timer
<1>2. k.outb
  BY DEF Moving
<1>3. Emptied(k, f)
  BY DEF Emptied, Held, Fields
<1> HIDE DEF f
<1>4. DOMAIN next = Fields
  BY <1>3 DEF NextQueued, Held, Emptied
<1> HIDE DEF next
<1>5. /\ DOMAIN j = Fields /\ j.timer
      /\ \A x \in Fields \ {"irq1", "irq12", "timer"} : j[x] = next[x]
  BY <1>1, <1>4 DEF Fields
<1>6. Filled(f, j)
  BY <1>5 DEF Filled, next
<1>7. Followed(k, j)
  BY <1>3, <1>6, NextKeeps
<1>8. ASSUME Told(k)
      PROVE  KbdStream(j) = KbdStream(k) /\ MouseStream(j) = Tail(MouseStream(k))
  <2>1. PICK rest \in Seq(Byte), b \in Byte : rest = k.controllerQ \o k.mouse /\ b = k.auxOut
    BY <1>2, <1>8, StreamsAre
  <2>2. KbdStream(k) = k.kbd /\ MouseStream(k) = <<b>> \o rest
    BY <1>2, <1>8, <2>1, StreamsAre
  <2>3. Tail(<<b>> \o rest) = rest
    BY BehindFirst
  <2> QED
    BY <1>7, <1>8, <2>1, <2>2, <2>3 DEF Followed
<1> QED
  BY <1>2, <1>7, <1>8 DEF Followed

LEMMA ReadKbdKeeps ==
  ASSUME NEW k, Held(k), k.outb, ~k.auxb, NEW j, j = ReadKbd(k)
  PROVE  /\ Held(j) /\ Moving(j)
         /\ Told(k) => /\ Told(j) /\ KbdStream(j) = Tail(KbdStream(k))
                       /\ MouseStream(j) = MouseStream(k)
<1> DEFINE f == [k EXCEPT !.outb = FALSE, !.auxb = FALSE, !.irq1 = FALSE, !.bat = FALSE]
           next == NextQueued(f)
<1>1. j = [[next EXCEPT !.irq1 = next.outb /\ k.allow1] EXCEPT !.timer = TRUE]
  BY DEF ReadKbd, activate_timer
<1>3. Emptied(k, f)
  BY DEF Emptied, Held, Fields
<1> HIDE DEF f
<1>4. DOMAIN next = Fields
  BY <1>3 DEF NextQueued, Held, Emptied
<1> HIDE DEF next
<1>5. /\ DOMAIN j = Fields /\ j.timer
      /\ \A x \in Fields \ {"irq1", "irq12", "timer"} : j[x] = next[x]
  BY <1>1, <1>4 DEF Fields
<1>6. Filled(f, j)
  BY <1>5 DEF Filled, next
<1>7. Followed(k, j)
  BY <1>3, <1>6, NextKeeps
<1>8. ASSUME Told(k)
      PROVE  KbdStream(j) = Tail(KbdStream(k)) /\ MouseStream(j) = MouseStream(k)
  <2>1. PICK rest \in Seq(Byte), b \in Byte : rest = k.kbd /\ b = k.kbdOut
    BY <1>8, StreamsAre DEF Held
  <2>2. KbdStream(k) = <<b>> \o rest /\ MouseStream(k) = k.controllerQ \o k.mouse
    BY <1>8, <2>1, StreamsAre
  <2>3. Tail(<<b>> \o rest) = rest
    BY BehindFirst
  <2> QED
    BY <1>7, <1>8, <2>1, <2>2, <2>3 DEF Followed
<1> QED
  BY <1>7, <1>8 DEF Followed

LEMMA SameSent ==
  ASSUME inputs \in 0..MaxInputs, NEW k, Held(k), Told(k), NEW j,
         \A f \in {"outb", "auxb", "kbdOut", "auxOut", "controllerQ", "kbd", "mouse"} : j[f] = k[f]
  PROVE  Stay(k, j) /\ Grows(k, j)
<1>1. Stay(k, j)
  BY DEF Stay, KbdStream, MouseStream
<1> QED
  BY <1>1, StayGrows

(* An answer to software that has read the buffer goes before what waits.   *)
Answered(from, k, j) ==
  IF from = "keyboard"
  THEN Ahead("keyboard", KbdStream(k), KbdStream(j)) /\ MouseStream(j) = MouseStream(k)
  ELSE KbdStream(j) = KbdStream(k) /\ Ahead("mouse", MouseStream(k), MouseStream(j))

LEMMA FirstByte ==
  ASSUME inputs \in 0..MaxInputs, NEW from \in Senders, NEW s \in Seq(Byte)
  PROVE  /\ <<Bytes(from, 1)[1]>> = Bytes(from, 1)
         /\ Ahead(from, s, <<Bytes(from, 1)[1]>> \o s)
<1>1. 0 \in 0..3 /\ 1 \in (0 + 1)..4 /\ 0 + 1 = 1 /\ 1 \in 0..4 /\ <<>> \in Seq(Byte)
  OBVIOUS
<1>2. (<<>> \o Bytes(from, 0)) \o <<Bytes(from, 1)[1]>> = <<>> \o Bytes(from, 1)
  BY <1>1, OneMore
<1>3. Bytes(from, 0) = <<>> /\ s = s \o Bytes(from, 0)
  BY NoBytes
<1>4. Bytes(from, 1) \in Seq(Byte) /\ Bytes(from, 1)[1] \in Byte
  BY <1>1, BytesAre
<1>5. /\ <<>> \o <<>> = <<>> /\ <<>> \o Bytes(from, 1) = Bytes(from, 1)
      /\ <<>> \o <<Bytes(from, 1)[1]>> = <<Bytes(from, 1)[1]>>
  BY <1>1, <1>4, ConcatBytes
<1>6. <<Bytes(from, 1)[1]>> = Bytes(from, 1)
  BY <1>2, <1>3, <1>5
<1>7. \E m \in 1..4, n \in 0..4 :
        <<Bytes(from, 1)[1]>> \o s = Bytes(from, m) \o (s \o Bytes(from, n))
  BY <1>3, <1>6, 1 \in 1..4, 0 \in 0..4
<1> QED
  BY <1>6, <1>7 DEF Ahead

LEMMA EnqAnswers ==
  ASSUME inputs \in 0..MaxInputs,
         NEW k, Held(k), Told(k), ~k.outb, k.controllerQ = <<>>, NEW from \in Senders,
         NEW j, j = controller_enQ(k, Bytes(from, 1)[1]), Held(j), Told(j)
  PROVE  Answered(from, k, j)
<1> DEFINE byte == Bytes(from, 1)[1]
<1>0. byte \in Byte /\ byte[1] = from
  <2>1. 1 \in 0..4 /\ 1 \in 1..1
    OBVIOUS
  <2>2. byte \in From(from) /\ byte \in Byte
    BY <2>1, BytesAre
  <2> QED
    BY <2>2 DEF From
<1>1. PICK q \in Seq(Byte), m \in Seq(Byte) : q = k.kbd /\ m = k.mouse
  BY DEF Held
<1>2. Ahead(from, q, <<byte>> \o q) /\ Ahead(from, m, <<byte>> \o m)
  BY FirstByte
<1>3. j = controller_enQ(k, byte)
  OBVIOUS
<1> HIDE DEF byte
<1>4. <<>> \o m = m /\ <<byte>> \in Seq(Byte)
  BY <1>0, ConcatBytes
<1>5. KbdStream(k) = q /\ MouseStream(k) = m
  BY <1>1, <1>4, StreamsAre
<1>6. CASE from = "keyboard"
  <2>0. j = [k EXCEPT !.kbdOut = byte, !.outb = TRUE, !.auxb = FALSE, !.irq1 = @ \/ k.allow1]
    BY <1>0, <1>3, <1>6 DEF controller_enQ
  <2>1. /\ j.outb /\ ~j.auxb /\ j.kbdOut = byte
        /\ j.controllerQ = <<>> /\ j.kbd = q /\ j.mouse = m
    BY <1>1, <2>0 DEF Held, Fields
  <2>2. KbdStream(j) = <<byte>> \o q /\ MouseStream(j) = <<>> \o m
    BY <2>1, StreamsAre
  <2> QED
    BY <1>2, <1>4, <1>5, <1>6, <2>2 DEF Answered
<1>7. CASE from # "keyboard"
  <2>0. j = [k EXCEPT !.auxOut = byte, !.outb = TRUE, !.auxb = TRUE, !.irq12 = @ \/ k.allow12]
    BY <1>0, <1>3, <1>7 DEF controller_enQ
  <2>1. /\ j.outb /\ j.auxb /\ j.auxOut = byte
        /\ j.controllerQ = <<>> /\ j.kbd = q /\ j.mouse = m
    BY <1>1, <2>0 DEF Held, Fields
  <2>2. KbdStream(j) = q /\ MouseStream(j) = <<byte>> \o (<<>> \o m)
    BY <2>1, StreamsAre
  <2>3. from = "mouse"
    BY <1>7 DEF Senders
  <2> QED
    BY <1>2, <1>4, <1>5, <1>7, <2>2, <2>3 DEF Answered
<1> QED
  BY <1>6, <1>7

LEMMA AllAhead ==
  ASSUME NEW k, Held(k), Told(k), ~k.outb, k.controllerQ = <<>>,
         NEW bytes \in Seq(From("mouse")), NEW j, j = ControllerAll(k, bytes), Held(j), Told(j)
  PROVE  KbdStream(j) = KbdStream(k) /\ MouseStream(j) = bytes \o MouseStream(k)
<1>1. CASE bytes = <<>>
  <2>1. j = k
    BY <1>1 DEF ControllerAll
  <2>2. <<>> \o MouseStream(k) = MouseStream(k)
    BY StreamsAre, ConcatBytes
  <2> QED
    BY <1>1, <2>1, <2>2
<1>2. CASE bytes # <<>>
  <2>1. PICK b \in Seq(Byte) : b = bytes
    BY Senders2, SeqMonotonic
  <2>2. /\ Head(b) \in Byte /\ Tail(b) \in Seq(Byte) /\ <<Head(b)>> \o Tail(b) = b
    BY <1>2, <2>1, HeadOfQueue
  <2>3. Head(bytes) \in From("mouse")
    BY <1>2, HeadTailProperties
  <2>4. PICK first \in Byte, rest \in Seq(Byte) : first = Head(b) /\ rest = Tail(b)
    BY <2>2
  <2>5. first[1] # "keyboard"
    BY <2>1, <2>3, <2>4, SenderOf
  <2>6. PICK q \in Seq(Byte), m \in Seq(Byte) : q = k.kbd /\ m = k.mouse
    BY DEF Held
  <2>7. j = [controller_enQ(k, first) EXCEPT !.controllerQ = @ \o rest]
    BY <1>2, <2>1, <2>4 DEF ControllerAll
  <2>8. <<>> \o rest = rest /\ <<>> \o m = m /\ <<first>> \in Seq(Byte)
    BY ConcatBytes
  <2>9. /\ j.outb /\ j.auxb /\ j.auxOut = first
        /\ j.controllerQ = <<>> \o rest /\ j.kbd = q /\ j.mouse = m
    BY <2>5, <2>6, <2>7 DEF controller_enQ, Held, Fields
  <2>10. KbdStream(j) = q /\ MouseStream(j) = <<first>> \o (rest \o m)
    BY <2>8, <2>9, StreamsAre
  <2>11. (<<first>> \o rest) \o m = <<first>> \o (rest \o m)
    BY <2>8, ConcatAgain
  <2>12. <<first>> \o rest = b
    BY <2>2, <2>4
  <2>13. KbdStream(k) = q /\ MouseStream(k) = <<>> \o m
    BY <2>6, StreamsAre
  <2>14. MouseStream(j) = b \o m /\ MouseStream(k) = m
    BY <2>8, <2>10, <2>11, <2>12, <2>13
  <2> QED
    BY <2>1, <2>10, <2>13, <2>14
<1> QED
  BY <1>1, <1>2

-----------------------------------------------------------------------------
(* The actions                                                              *)

(* What every step but a read keeps.                                        *)
Safe(k, j) ==
  /\ Held(j) /\ Moving(j)
  /\ Told(k) /\ ~Racy => Told(j) /\ Grows(k, j)

LEMMA CommandKeeps ==
  ASSUME Held(kbc)
  PROVE  /\ Held(Command) /\ (Moving(kbc) => Moving(Command)) /\ (Told(kbc) => Told(Command))
         /\ \A f \in Fields \ {"expecting"} : Command[f] = kbc[f]
BY DEF Command, Held, Moving, Told, Fields, Expected

LEMMA periodicSafe ==
  ASSUME IInv, periodic PROVE Safe(kbc, kbc')
<1> DEFINE asked == [kbc EXCEPT !.irq1 = FALSE, !.irq12 = FALSE]
           idle  == [asked EXCEPT !.timer = FALSE]
<1>1. Held(kbc) /\ Moving(kbc) /\ inputs \in 0..MaxInputs
  BY DEF IInv, Lines
<1>2. /\ Held(asked) /\ Moving(asked) /\ (Told(kbc) => Told(asked))
      /\ \A f \in {"outb", "auxb", "kbdOut", "auxOut", "controllerQ", "kbd", "mouse"} :
           asked[f] = kbc[f]
  BY <1>1 DEF Held, Moving, Told, Fields
<1>3. /\ Held(idle) /\ (kbc.outb => Moving(idle)) /\ (Told(kbc) => Told(idle))
      /\ \A f \in {"outb", "auxb", "kbdOut", "auxOut", "controllerQ", "kbd", "mouse"} :
           idle[f] = kbc[f]
  BY <1>1 DEF Held, Moving, Told, Fields
<1>4. kbc' = CASE ~kbc.timer -> asked
               [] kbc.timer /\ ~kbc.outb -> MoveByte(idle)
               [] kbc.timer /\ ~~kbc.outb -> idle
  BY DEF periodic, Vacant
<1> HIDE DEF asked, idle
<1>5. CASE ~kbc.timer
  <2>1. kbc' = asked
    BY <1>4, <1>5
  <2>2. Told(kbc) => Grows(kbc, asked)
    BY <1>1, <1>2, SameSent
  <2> QED
    BY <1>2, <2>1, <2>2 DEF Safe
<1>6. CASE kbc.timer /\ kbc.outb
  <2>1. kbc' = idle
    BY <1>4, <1>6
  <2>2. Told(kbc) => Grows(kbc, idle)
    BY <1>1, <1>3, SameSent
  <2> QED
    BY <1>3, <1>6, <2>1, <2>2 DEF Safe
<1>7. CASE kbc.timer /\ ~kbc.outb
  <2>1. kbc' = MoveByte(idle)
    BY <1>4, <1>7
  <2>2. ~idle.outb /\ ~idle.auxb /\ idle.controllerQ = <<>>
    BY <1>1, <1>3, <1>7 DEF Moving
  <2>3. Held(kbc') /\ Moving(kbc') /\ (Told(idle) => Told(kbc') /\ Grows(idle, kbc'))
    BY <1>1, <1>3, <2>1, <2>2, MoveKeeps
  <2>4. Told(kbc) => Stay(kbc, idle)
    BY <1>1, <1>3, SameSent
  <2>5. Told(kbc) => Grows(kbc, kbc')
    BY <1>3, <2>3, <2>4, GrowsOn
  <2> QED
    BY <1>3, <2>3, <2>5 DEF Safe
<1> QED
  BY <1>5, <1>6, <1>7

LEMMA KeyByte ==
  ASSUME inputs \in 0..MaxInputs, NEW from \in Senders
  PROVE  Bytes(from, 1)[1] \in From(from) /\ Bytes(from, 1)[1] \in Byte
<1>1. 1 \in 0..4
  OBVIOUS
<1>2. \A i \in 1..1 : Bytes(from, 1)[i] \in From(from) /\ Bytes(from, 1)[i] \in Byte
  BY <1>1, BytesAre
<1> QED
  BY <1>2

(* What a step that is answered at once keeps.                              *)
AnswerSafe(from, k, j) ==
  /\ Held(j) /\ Moving(j)
  /\ Told(k) /\ ~Racy => Told(j) /\ Answered(from, k, j)

(* A byte is queued where there is room; software that is not racy asks for *)
(* it when the buffer is empty.                                             *)
LEMMA EnqSafe ==
  ASSUME Held(kbc), Moving(kbc), inputs \in 0..MaxInputs, NEW k, Held(k), Told(kbc) => Told(k),
         \A f \in {"kbdOut", "auxOut", "kbd", "mouse"} : k[f] = kbc[f],
         k.outb => kbc.outb /\ Racy /\ Len(k.controllerQ) < QSize,
         ~Racy => ~kbc.outb, ~kbc.outb => ~k.auxb,
         ~k.outb => k.controllerQ = <<>>,
         NEW from \in Senders, NEW j, j = controller_enQ(k, Bytes(from, 1)[1])
  PROVE  AnswerSafe(from, kbc, j)
<1>0. Bytes(from, 1)[1] \in Byte
  BY KeyByte
<1>1. k.outb => Len(k.controllerQ) < QSize
  OBVIOUS
<1>2. /\ Held(j) /\ j.outb
      /\ Told(k) /\ (k.outb => Bytes(from, 1)[1] \in From("mouse")) => Told(j)
  BY <1>0, <1>1, ControllerEnqKeeps
<1>3. Moving(j)
  BY <1>2 DEF Moving
<1>4. ASSUME Told(kbc), ~Racy PROVE Told(j) /\ Answered(from, kbc, j)
  <2>1. Told(k) /\ ~k.outb /\ k.controllerQ = <<>> /\ ~kbc.outb /\ ~kbc.auxb /\ ~k.auxb
        /\ kbc.controllerQ = <<>>
    BY <1>4 DEF Moving
  <2>2. Told(j)
    BY <1>2, <2>1
  <2>3. Answered(from, k, j)
    BY <1>2, <2>1, <2>2, EnqAnswers
  <2>4. KbdStream(k) = KbdStream(kbc) /\ MouseStream(k) = MouseStream(kbc)
    BY <1>4, <2>1, StreamsAre
  <2> QED
    BY <2>2, <2>3, <2>4 DEF Answered
<1> QED
  BY <1>2, <1>3, <1>4 DEF AnswerSafe

LEMMA CommandAnswered ==
  ASSUME IInv, NEW from \in Senders, kbc.outb => Racy /\ Len(kbc.controllerQ) + 1 <= QSize,
         NEW j, j = controller_enQ(Command, Bytes(from, 1)[1])
  PROVE  AnswerSafe(from, kbc, j)
<1> DEFINE k == Command
<1>1. Held(kbc) /\ Moving(kbc) /\ inputs \in 0..MaxInputs
  BY DEF IInv, Lines
<1>2. /\ Held(k) /\ (Told(kbc) => Told(k))
      /\ \A f \in Fields \ {"expecting"} : k[f] = kbc[f]
  BY <1>1, CommandKeeps
<1> HIDE DEF k
<1>3. /\ \A f \in {"kbdOut", "auxOut", "kbd", "mouse"} : k[f] = kbc[f]
      /\ k.outb = kbc.outb /\ k.auxb = kbc.auxb /\ k.controllerQ = kbc.controllerQ
  BY <1>2 DEF Fields
<1>4. Len(k.controllerQ) \in Nat
  BY <1>2, LenProperties DEF Held
<1>5. /\ k.outb => kbc.outb /\ Racy /\ Len(k.controllerQ) < QSize
      /\ ~Racy => ~kbc.outb
      /\ ~kbc.outb => ~k.auxb
      /\ ~k.outb => k.controllerQ = <<>>
  BY <1>1, <1>3, <1>4, KeyboardAssumption DEF Moving
<1>6. j = controller_enQ(k, Bytes(from, 1)[1])
  BY DEF k
<1> QED
  BY <1>1, <1>2, <1>3, <1>5, <1>6, EnqSafe

(* Without a byte in the buffer the controller answers.                     *)
LEMMA ReadControllerSafe ==
  ASSUME IInv, NEW mode \in BOOLEAN, ReadController(mode)
  PROVE  Safe(kbc, kbc') \/ AnswerSafe("keyboard", kbc, kbc')
<1>1. Held(kbc) /\ Moving(kbc) /\ inputs \in 0..MaxInputs
  BY DEF IInv, Lines
<1>2. CASE kbc.outb /\ ~mode
  <2>1. kbc' = Command
    BY <1>2 DEF ReadController, Becomes
  <2>2. /\ Held(Command) /\ Moving(Command) /\ (Told(kbc) => Told(Command))
        /\ \A f \in Fields \ {"expecting"} : Command[f] = kbc[f]
    BY <1>1, CommandKeeps
  <2>3. \A f \in {"outb", "auxb", "kbdOut", "auxOut", "controllerQ", "kbd", "mouse"} :
          Command[f] = kbc[f]
    BY <2>2 DEF Fields
  <2>4. Told(kbc) => Grows(kbc, Command)
    BY <1>1, <2>3, SameSent
  <2> QED
    BY <2>1, <2>2, <2>4 DEF Safe
<1>3. CASE ~(kbc.outb /\ ~mode)
  <2>1. kbc' = controller_enQ(Command, Bytes("keyboard", 1)[1])
    BY <1>3 DEF ReadController, Becomes
  <2>2. kbc.outb => Racy /\ Len(kbc.controllerQ) + 1 <= QSize
    BY <1>3 DEF ReadController, Room
  <2>3. "keyboard" \in Senders
    BY DEF Senders
  <2> QED
    BY <2>1, <2>2, <2>3, CommandAnswered
<1> QED
  BY <1>2, <1>3

LEMMA WriteOutputBufferSafe ==
  ASSUME IInv, NEW from \in Senders, WriteOutputBuffer(from)
  PROVE  AnswerSafe(from, kbc, kbc')
<1>1. kbc' = controller_enQ(Command, Bytes(from, 1)[1])
  BY DEF WriteOutputBuffer, Becomes
<1>2. kbc.outb => Racy /\ Len(kbc.controllerQ) + 1 <= QSize
  BY DEF WriteOutputBuffer, Room
<1> QED
  BY <1>1, <1>2, CommandAnswered

LEMMA SelfTestSafe ==
  ASSUME IInv, SelfTest PROVE Safe(kbc, kbc') \/ AnswerSafe("keyboard", kbc, kbc')
<1> DEFINE byte  == Bytes("keyboard", 1)[1]
           first == [Command EXCEPT !.controllerQ = <<>>, !.outb = FALSE, !.tested = TRUE]
           k     == IF kbc.tested THEN Command ELSE first
<1>1. Held(kbc) /\ Moving(kbc) /\ inputs \in 0..MaxInputs
  BY DEF IInv, Lines
<1>3. /\ Held(Command) /\ (Moving(kbc) => Moving(Command)) /\ (Told(kbc) => Told(Command))
      /\ \A f \in Fields \ {"expecting"} : Command[f] = kbc[f]
  BY <1>1, CommandKeeps
<1>4. /\ kbc.outb => Racy
      /\ kbc' = IF k.outb THEN k ELSE controller_enQ(k, byte)
  BY DEF SelfTest, Becomes
<1>5. /\ Held(first) /\ ~first.outb /\ first.controllerQ = <<>> /\ (Told(kbc) => Told(first))
      /\ \A f \in {"kbdOut", "auxOut", "kbd", "mouse", "auxb"} : first[f] = kbc[f]
  <2>1. Len(<<>>) <= QSize
    BY KeyboardAssumption
  <2> QED
    BY <1>3, <2>1 DEF Held, Told, Fields
<1> HIDE DEF byte, first
<1>6. CASE kbc.tested /\ kbc.outb
  <2>1. kbc' = Command
    BY <1>3, <1>4, <1>6 DEF Fields
  <2>2. \A f \in {"outb", "auxb", "kbdOut", "auxOut", "controllerQ", "kbd", "mouse"} :
          Command[f] = kbc[f]
    BY <1>3 DEF Fields
  <2>3. Told(kbc) => Grows(kbc, Command)
    BY <1>1, <1>3, <2>2, SameSent
  <2> QED
    BY <1>1, <1>3, <2>1, <2>3 DEF Safe
<1>7. CASE ~(kbc.tested /\ kbc.outb)
  <2>1. /\ Held(k) /\ ~k.outb /\ k.controllerQ = <<>> /\ (Told(kbc) => Told(k))
        /\ \A f \in {"kbdOut", "auxOut", "kbd", "mouse"} : k[f] = kbc[f]
        /\ k.auxb = kbc.auxb
    BY <1>1, <1>3, <1>5, <1>7 DEF Moving, Fields
  <2>2. kbc' = controller_enQ(k, byte)
    BY <1>4, <2>1
  <2> HIDE DEF k
  <2>3. /\ k.outb => kbc.outb /\ Racy /\ Len(k.controllerQ) < QSize
        /\ ~Racy => ~kbc.outb
        /\ ~kbc.outb => ~k.auxb
    BY <1>1, <1>4, <2>1 DEF Moving
  <2> QED
    BY <1>1, <2>1, <2>2, <2>3, EnqSafe DEF byte, Senders
<1> QED
  BY <1>6, <1>7

LEMMA SetClockSafe ==
  ASSUME IInv, NEW device \in Senders, NEW value \in BOOLEAN, SetClock(device, value)
  PROVE  Safe(kbc, kbc')
<1>1. Held(kbc) /\ Moving(kbc) /\ inputs \in 0..MaxInputs
  BY DEF IInv, Lines
<1>2. /\ Held(Command) /\ Moving(Command) /\ (Told(kbc) => Told(Command))
      /\ \A f \in Fields \ {"expecting"} : Command[f] = kbc[f]
  BY <1>1, CommandKeeps
<1>3. kbc' \in {set_kbd_clock_enable(Command, value), set_aux_clock_enable(Command, value)}
  BY DEF SetClock, Becomes
<1>4. /\ Held(kbc') /\ Moving(kbc') /\ (Told(Command) => Told(kbc'))
      /\ \A f \in {"outb", "auxb", "kbdOut", "auxOut", "controllerQ", "kbd", "mouse",
                   "expecting", "parameter", "allow1", "allow12", "bat"} : kbc'[f] = Command[f]
  BY <1>2, <1>3, ClockKeeps
<1>5. \A f \in {"outb", "auxb", "kbdOut", "auxOut", "controllerQ", "kbd", "mouse"} :
        kbc'[f] = kbc[f]
  BY <1>2, <1>4 DEF Fields
<1>6. Told(kbc) => Told(kbc') /\ Grows(kbc, kbc')
  BY <1>1, <1>2, <1>4, <1>5, SameSent
<1> QED
  BY <1>4, <1>6 DEF Safe

LEMMA ExpectSafe ==
  ASSUME IInv, NEW what \in Expected, Expect(what)
  PROVE  Safe(kbc, kbc')
<1>1. /\ Held(kbc) /\ Moving(kbc) /\ kbc' = [kbc EXCEPT !.expecting = what]
      /\ inputs \in 0..MaxInputs
  BY DEF IInv, Lines, Expect, Becomes
<1>2. /\ Held(kbc') /\ Moving(kbc') /\ (Told(kbc) => Told(kbc'))
      /\ \A f \in {"outb", "auxb", "kbdOut", "auxOut", "controllerQ", "kbd", "mouse"} :
           kbc'[f] = kbc[f]
  BY <1>1 DEF Held, Moving, Told, Fields
<1> QED
  BY <1>1, <1>2, SameSent DEF Safe

LEMMA WriteCommandByteSafe ==
  ASSUME IInv, NEW one \in BOOLEAN, NEW twelve \in BOOLEAN, NEW kbd \in BOOLEAN,
         NEW aux \in BOOLEAN, WriteCommandByte(one, twelve, kbd, aux)
  PROVE  Safe(kbc, kbc')
<1> DEFINE g  == [Command EXCEPT !.allow1 = one, !.allow12 = twelve]
           g1 == set_kbd_clock_enable(g, kbd)
           k  == set_aux_clock_enable(g1, aux)
           Sent == {"outb", "auxb", "kbdOut", "auxOut", "controllerQ", "kbd", "mouse"}
<1>1. Held(kbc) /\ Moving(kbc) /\ inputs \in 0..MaxInputs
  BY DEF IInv, Lines
<1>2. /\ Held(Command) /\ Moving(Command) /\ (Told(kbc) => Told(Command))
      /\ \A f \in Fields \ {"expecting"} : Command[f] = kbc[f]
  BY <1>1, CommandKeeps
<1>3. kbc' = [k EXCEPT !.irq12 = @ \/ (twelve /\ k.auxb),
                       !.irq1  = @ \/ (~(twelve /\ k.auxb) /\ one /\ k.outb)]
  BY DEF WriteCommandByte, Becomes
<1>4. /\ Held(g) /\ Moving(g) /\ (Told(kbc) => Told(g))
      /\ \A f \in Sent : g[f] = kbc[f]
  BY <1>2 DEF Held, Moving, Told, Fields
<1> HIDE DEF g
<1>5. /\ Held(g1) /\ Moving(g1) /\ (Told(g) => Told(g1))
      /\ \A f \in {"outb", "auxb", "kbdOut", "auxOut", "controllerQ", "kbd", "mouse",
                   "expecting", "parameter", "allow1", "allow12", "bat"} : g1[f] = g[f]
  BY <1>4, ClockKeeps
<1> HIDE DEF g1
<1>6. /\ Held(k) /\ Moving(k) /\ (Told(g1) => Told(k))
      /\ \A f \in {"outb", "auxb", "kbdOut", "auxOut", "controllerQ", "kbd", "mouse",
                   "expecting", "parameter", "allow1", "allow12", "bat"} : k[f] = g1[f]
  BY <1>5, ClockKeeps
<1> HIDE DEF k
<1>7. /\ Held(kbc') /\ Moving(kbc') /\ (Told(k) => Told(kbc'))
      /\ \A f \in Sent : kbc'[f] = k[f]
  BY <1>3, <1>6 DEF Held, Moving, Told, Fields
<1>8. \A f \in Sent : kbc'[f] = kbc[f]
  BY <1>4, <1>5, <1>6, <1>7
<1>9. Told(kbc) => Told(kbc') /\ Grows(kbc, kbc')
  BY <1>1, <1>4, <1>5, <1>6, <1>7, <1>8, SameSent
<1> QED
  BY <1>7, <1>9 DEF Safe

LEMMA mouseSafe ==
  ASSUME IInv, NEW c, kbd_ctrl_to_mouse(c)
  PROVE  /\ Held(kbc') /\ Moving(kbc')
         /\ Told(kbc) /\ ~Racy =>
              /\ Told(kbc') /\ KbdStream(kbc') = KbdStream(kbc)
              /\ \/ Behind("mouse", MouseStream(kbc), MouseStream(kbc'))
                 \/ Ahead("mouse", MouseStream(kbc), MouseStream(kbc'))
<1> DEFINE n     == IF kbc.mouseParameter THEN 1 ELSE AnswerLength(c)
           k     == [Command EXCEPT !.mouseParameter = FALSE]
           bytes == Bytes("mouse", n)
           answered == ControllerAll(k, bytes)
           Same(g) ==
             /\ Held(g) /\ Moving(g) /\ (Told(answered) => Told(g))
             /\ \A f \in {"outb", "auxb", "kbdOut", "auxOut", "controllerQ", "kbd", "mouse"} :
                  g[f] = answered[f]
<1>1. Held(kbc) /\ Moving(kbc) /\ inputs \in 0..MaxInputs
  BY DEF IInv, Lines
<1>2. /\ Held(Command) /\ Moving(Command) /\ (Told(kbc) => Told(Command))
      /\ \A f \in Fields \ {"expecting"} : Command[f] = kbc[f]
  BY <1>1, CommandKeeps
<1>3. /\ Held(k) /\ Moving(k) /\ (Told(kbc) => Told(k))
      /\ \A f \in {"outb", "auxb", "kbdOut", "auxOut", "controllerQ", "kbd", "mouse"} :
           k[f] = kbc[f]
  BY <1>2 DEF Held, Moving, Told, Fields
<1>4. n \in 0..4 /\ "mouse" \in Senders
  BY DEF AnswerLength, Senders
<1>5. IF kbc.outb THEN Racy /\ Len(kbc.controllerQ) + n <= QSize ELSE n <= QSize + 1
  BY DEF kbd_ctrl_to_mouse, Room
<1>6. \/ kbc' = answered
      \/ kbc' = [answered EXCEPT !.mouseParameter = TRUE]
      \/ kbc' = [answered EXCEPT !.enable = TRUE]
      \/ kbc' = [answered EXCEPT !.enable = FALSE]
      \/ kbc' = [answered EXCEPT !.enable = FALSE, !.remote = FALSE]
      \/ kbc' = [answered EXCEPT !.remote = TRUE]
      \/ kbc' = [answered EXCEPT !.remote = FALSE]
      \/ kbc' = mouse_enQ_packet(answered)
  BY DEF kbd_ctrl_to_mouse, Becomes
<1> HIDE DEF n, k
<1>7. bytes \in Seq(From("mouse")) /\ bytes \in Seq(Byte) /\ Len(bytes) = n
  BY <1>1, <1>4, BytesAre
<1> HIDE DEF bytes
<1>8. /\ k.outb => Len(k.controllerQ) + Len(bytes) <= QSize
      /\ ~k.outb => k.controllerQ = <<>> /\ Len(bytes) <= QSize + 1
  BY <1>3, <1>5, <1>7 DEF Moving
<1>9. /\ Held(answered) /\ (Moving(k) => Moving(answered))
      /\ Told(k) /\ bytes \in Seq(From("mouse")) => Told(answered)
  BY <1>3, <1>7, <1>8, ControllerAllKeeps
<1>10. ASSUME Told(kbc), ~Racy
       PROVE  /\ Told(answered) /\ KbdStream(answered) = KbdStream(kbc)
              /\ MouseStream(answered) = bytes \o MouseStream(kbc)
  <2>1. Told(k) /\ ~k.outb /\ k.controllerQ = <<>>
    BY <1>3, <1>5, <1>10 DEF Moving
  <2>2. Told(answered)
    BY <1>7, <1>9, <2>1
  <2>3. KbdStream(answered) = KbdStream(k) /\ MouseStream(answered) = bytes \o MouseStream(k)
    BY <1>3, <1>7, <1>9, <2>1, <2>2, AllAhead
  <2>4. Stay(kbc, k)
    BY <1>1, <1>3, <1>10, SameSent
  <2> QED
    BY <2>2, <2>3, <2>4 DEF Stay
<1> HIDE DEF answered
(* Behind it the packet that was asked for, if any.                         *)
<1>11. /\ Held(kbc') /\ Moving(kbc') /\ (Told(answered) => Told(kbc'))
       /\ \A f \in {"outb", "auxb", "kbdOut", "auxOut", "controllerQ", "kbd"} : kbc'[f] = answered[f]
       /\ \E p \in 0..4 : kbc'.mouse = answered.mouse \o Bytes("mouse", p)
  <2>1. CASE kbc' = mouse_enQ_packet(answered)
    <3>1. Packed(answered, kbc')
      BY <1>1, <1>9, <2>1, PacketKeeps
    <3> QED
      BY <1>3, <1>9, <3>1 DEF Packed
  <2>2. CASE kbc' # mouse_enQ_packet(answered)
    <3>1. /\ DOMAIN kbc' = Fields
          /\ \A f \in Fields \ {"mouseParameter", "enable", "remote"} : kbc'[f] = answered[f]
      BY <1>6, <1>9, <2>2 DEF Held, Fields
    <3>2. Same(kbc')
      BY <1>3, <1>9, <3>1 DEF Held, Moving, Told, Fields
    <3>3. answered.mouse = answered.mouse \o Bytes("mouse", 0) /\ 0 \in 0..4
      BY <1>1, <1>4, <1>9, NoBytes DEF Held
    <3>4. kbc'.mouse = answered.mouse
      BY <3>2
    <3>5. kbc'.mouse = answered.mouse \o Bytes("mouse", 0)
      BY <3>3, <3>4
    <3> QED
      BY <3>2, <3>3, <3>5
  <2> QED
    BY <2>1, <2>2
<1>12. ASSUME Told(kbc), ~Racy
       PROVE  /\ KbdStream(kbc') = KbdStream(kbc)
              /\ \/ Behind("mouse", MouseStream(kbc), MouseStream(kbc'))
                 \/ Ahead("mouse", MouseStream(kbc), MouseStream(kbc'))
  <2>1. PICK p \in 0..4 : kbc'.mouse = answered.mouse \o Bytes("mouse", p)
    BY <1>11
  <2>2. PICK more \in Seq(Byte) : more = Bytes("mouse", p)
    BY <1>1, <1>4, BytesAre
  <2>3. answered.kbd = answered.kbd \o <<>> /\ <<>> \in Seq(Byte)
    BY <1>9, ConcatBytes DEF Held
  <2>4. kbc'.kbd = answered.kbd \o <<>> /\ kbc'.mouse = answered.mouse \o more
    BY <1>11, <2>1, <2>2, <2>3
  <2>5. /\ KbdStream(kbc') = KbdStream(answered) \o <<>>
        /\ MouseStream(kbc') = MouseStream(answered) \o more
    <3>1. /\ Told(answered) /\ Told(kbc')
          /\ \A f \in {"outb", "auxb", "kbdOut", "auxOut", "controllerQ"} : kbc'[f] = answered[f]
      BY <1>10, <1>11, <1>12
    <3> QED
      BY <1>9, <1>11, <2>3, <2>4, <3>1, MoreSent
  <2>6. PICK ks \in Seq(Byte), ms \in Seq(Byte) : ks = KbdStream(kbc) /\ ms = MouseStream(kbc)
    BY <1>1, <1>12, StreamsAre
  <2>7. ks \o <<>> = ks /\ (bytes \o ms) \o more = bytes \o (ms \o more)
    <3>1. ks \o <<>> = ks
      BY ConcatBytes
    <3>2. (bytes \o ms) \o more = bytes \o (ms \o more)
      BY <1>7, ConcatAgain
    <3> QED
      BY <3>1, <3>2
  <2>8. KbdStream(kbc') = ks /\ MouseStream(kbc') = bytes \o (ms \o more)
    BY <1>10, <1>12, <2>5, <2>6, <2>7
  <2>9. CASE n = 0
    <3>1. bytes = <<>>
      BY <1>7, <2>9, EmptySeq
    <3>2. <<>> \o (ms \o more) = ms \o more
      BY ConcatBytes
    <3>3. MouseStream(kbc') = ms \o Bytes("mouse", p)
      BY <2>2, <2>8, <3>1, <3>2
    <3> QED
      BY <2>6, <2>8, <3>3 DEF Behind
  <2>10. CASE n # 0
    <3>1. n \in 1..4
      BY <1>4, <2>10
    <3>2. MouseStream(kbc') = Bytes("mouse", n) \o (ms \o Bytes("mouse", p))
      BY <2>2, <2>8 DEF bytes
    <3> QED
      BY <2>6, <2>8, <3>1, <3>2 DEF Ahead
  <2> QED
    BY <2>9, <2>10
<1> QED
  BY <1>10, <1>11, <1>12

LEMMA TypedSafe ==
  ASSUME IInv, NEW g, Held(g), Moving(g), Told(kbc) => Told(g),
         \A f \in {"outb", "auxb", "kbdOut", "auxOut", "controllerQ", "kbd", "mouse"} :
           g[f] = kbc[f],
         NEW n \in 1..3, NEW j, j = KbdAll(g, Bytes("keyboard", n))
  PROVE  Safe(kbc, j)
<1>1. Held(kbc) /\ Moving(kbc) /\ inputs \in 0..MaxInputs
  BY DEF IInv, Lines
<1>2. PICK m \in 0..4 : Typed(g, j, m)
  BY <1>1, KbdAllKeeps
<1>3. Held(j) /\ Moving(j) /\ (Told(kbc) => Told(j))
  BY <1>2 DEF Typed
<1>4. ASSUME Told(kbc) PROVE Grows(kbc, j)
  <2>1. kbc.mouse = kbc.mouse \o Bytes("mouse", 0) /\ 0 \in 0..4
    BY <1>1, NoBytes DEF Held, Senders
  <2>2. j.mouse = kbc.mouse \o Bytes("mouse", 0)
    BY <1>2, <2>1 DEF Typed
  <2>3. j.kbd = kbc.kbd \o Bytes("keyboard", m)
    BY <1>2 DEF Typed
  <2>4. \A f \in {"outb", "auxb", "kbdOut", "auxOut", "controllerQ"} : j[f] = kbc[f]
    BY <1>2 DEF Typed
  <2> QED
    BY <1>1, <1>3, <1>4, <2>1, <2>2, <2>3, <2>4, MoreGrows
<1> QED
  BY <1>3, <1>4 DEF Safe

(* Reset, F5 and F6 empty the keyboard's buffer first.                      *)
LEMMA FlushedSafe ==
  ASSUME IInv, NEW g, Held(g), Moving(g), Told(kbc) => Told(g), g.kbd = <<>>,
         \A f \in {"outb", "auxb", "kbdOut", "auxOut", "controllerQ", "mouse"} : g[f] = kbc[f],
         NEW n \in 1..3, NEW j, j = KbdAll(g, Bytes("keyboard", n))
  PROVE  /\ Held(j) /\ Moving(j)
         /\ Told(kbc) =>
              /\ Told(j) /\ MouseStream(j) = MouseStream(kbc)
              /\ Behind("keyboard", KbdStream([kbc EXCEPT !.kbd = <<>>]), KbdStream(j))
<1>1. Held(kbc) /\ Moving(kbc) /\ inputs \in 0..MaxInputs
  BY DEF IInv, Lines
<1>2. PICK m \in 0..4 : Typed(g, j, m)
  BY <1>1, KbdAllKeeps
<1>3. /\ Held(j) /\ Moving(j) /\ (Told(kbc) => Told(j))
      /\ \A f \in {"outb", "auxb", "kbdOut", "auxOut", "controllerQ", "mouse"} : j[f] = g[f]
  BY <1>2 DEF Typed
<1>4. MouseStream(j) = MouseStream(kbc)
  BY <1>3 DEF MouseStream
<1>5. ASSUME Told(kbc)
      PROVE  Behind("keyboard", KbdStream([kbc EXCEPT !.kbd = <<>>]), KbdStream(j))
  <2>1. g.mouse = g.mouse \o Bytes("mouse", 0) /\ 0 \in 0..4
    BY <1>1, NoBytes DEF Held, Senders
  <2>2. j.mouse = g.mouse \o Bytes("mouse", 0)
    BY <1>3, <2>1
  <2>3. j.kbd = g.kbd \o Bytes("keyboard", m)
    BY <1>2 DEF Typed
  <2>4. \A f \in {"outb", "auxb", "kbdOut", "auxOut", "controllerQ"} : j[f] = g[f]
    BY <1>3
  <2>5. Grows(g, j)
    BY <1>1, <1>3, <1>5, <2>1, <2>2, <2>3, <2>4, MoreGrows
  <2>6. KbdStream(g) = KbdStream([kbc EXCEPT !.kbd = <<>>])
    BY <1>1 DEF KbdStream, Held, Fields
  <2> QED
    BY <2>5, <2>6 DEF Grows
<1> QED
  BY <1>3, <1>4, <1>5

(* EDh is answered past the buffer, in front of what waits.                 *)
LEMMA LedSafe ==
  ASSUME IInv, NEW g, Held(g), Told(kbc) => Told(g),
         \A f \in {"outb", "auxb", "kbdOut", "auxOut", "controllerQ", "kbd", "mouse"} :
           g[f] = kbc[f],
         kbc.outb => Racy,
         NEW j, j = kbd_enQ_imm(g, Bytes("keyboard", 1)[1])
  PROVE  AnswerSafe("keyboard", kbc, j)
<1> DEFINE byte == Bytes("keyboard", 1)[1]
<1>1. Held(kbc) /\ Moving(kbc) /\ inputs \in 0..MaxInputs
  BY DEF IInv, Lines
<1>2. j = [g EXCEPT !.kbdOut = byte, !.outb = TRUE, !.irq1 = @ \/ g.allow1]
  BY DEF kbd_enQ_imm
<1>3. byte \in Byte /\ byte \in From("keyboard")
  BY <1>1, KeyByte DEF Senders
<1>0. \A q \in Seq(Byte) : Ahead("keyboard", q, <<byte>> \o q)
  BY <1>1, FirstByte DEF Senders
<1> HIDE DEF byte
<1>4. Held(j) /\ Moving(j)
  BY <1>2, <1>3 DEF Held, Moving, Fields
<1>5. ASSUME Told(kbc), ~Racy PROVE Told(j) /\ Answered("keyboard", kbc, j)
  <2>1. ~kbc.outb /\ ~kbc.auxb /\ kbc.controllerQ = <<>>
    BY <1>1, <1>5 DEF Moving
  <2>2. /\ j.outb /\ ~j.auxb /\ j.kbdOut = byte
        /\ j.controllerQ = kbc.controllerQ /\ j.kbd = kbc.kbd /\ j.mouse = kbc.mouse
    BY <1>2, <2>1 DEF Held, Fields
  <2>3. Told(j)
    BY <1>3, <1>5, <2>2 DEF Told
  <2>4. PICK q \in Seq(Byte) : q = kbc.kbd
    BY <1>1 DEF Held
  <2>5. KbdStream(kbc) = q /\ KbdStream(j) = <<byte>> \o q
    BY <1>1, <1>4, <1>5, <2>1, <2>2, <2>3, <2>4, StreamsAre
  <2>6. MouseStream(j) = MouseStream(kbc)
    BY <1>1, <1>4, <1>5, <2>1, <2>2, <2>3, StreamsAre
  <2> QED
    BY <1>0, <2>3, <2>5, <2>6 DEF Answered
<1> QED
  BY <1>4, <1>5 DEF AnswerSafe

(* What a step that does not read does with the streams.                    *)
InOrder ==
  /\ \/ Behind("keyboard", KbdStream(kbc), KbdStream(kbc'))
     \/ AnswersKeys /\ Ahead("keyboard", KbdStream(kbc), KbdStream(kbc'))
     \/ Flush /\ Behind("keyboard", KbdStream([kbc EXCEPT !.kbd = <<>>]), KbdStream(kbc'))
  /\ \/ Behind("mouse", MouseStream(kbc), MouseStream(kbc'))
     \/ AnswersMouse /\ Ahead("mouse", MouseStream(kbc), MouseStream(kbc'))

Sends ==
  /\ Held(kbc') /\ Moving(kbc')
  /\ Told(kbc) /\ ~Racy => Told(kbc') /\ InOrder

LEMMA StreamsGoOn ==
  ASSUME IInv, Told(kbc)
  PROVE  /\ KbdStream(kbc') = KbdStream(kbc) =>
              Behind("keyboard", KbdStream(kbc), KbdStream(kbc'))
         /\ MouseStream(kbc') = MouseStream(kbc) =>
              Behind("mouse", MouseStream(kbc), MouseStream(kbc'))
<1>1. KbdStream(kbc) \in Seq(Byte) /\ MouseStream(kbc) \in Seq(Byte) /\ inputs \in 0..MaxInputs
  BY StreamsAre DEF IInv, Lines
<1>2. /\ KbdStream(kbc) = KbdStream(kbc) \o Bytes("keyboard", 0)
      /\ MouseStream(kbc) = MouseStream(kbc) \o Bytes("mouse", 0)
  BY <1>1, NoBytes DEF Senders
<1> QED
  BY <1>2, 0 \in 0..4 DEF Behind

LEMMA SafeSends ==
  ASSUME IInv
  PROVE  /\ Safe(kbc, kbc') => Sends
         /\ AnswerSafe("keyboard", kbc, kbc') /\ AnswersKeys => Sends
         /\ AnswerSafe("mouse", kbc, kbc') /\ AnswersMouse => Sends
<1>1. Safe(kbc, kbc') => Sends
  BY DEF Safe, Sends, InOrder, Grows
<1>2. AnswerSafe("keyboard", kbc, kbc') /\ AnswersKeys => Sends
  BY StreamsGoOn DEF AnswerSafe, Answered, Sends, InOrder
<1>3. AnswerSafe("mouse", kbc, kbc') /\ AnswersMouse => Sends
  BY StreamsGoOn DEF AnswerSafe, Answered, Sends, InOrder
<1> QED
  BY <1>1, <1>2, <1>3

LEMMA kbdSafe ==
  ASSUME IInv, NEW c \in KeyCommands, kbd_ctrl_to_kbd(c)
  PROVE  Sends
<1> DEFINE k == set_kbd_clock_enable(kbc, TRUE)
           Sent == {"outb", "auxb", "kbdOut", "auxOut", "controllerQ", "kbd", "mouse"}
<1>1. Held(kbc) /\ Moving(kbc) /\ inputs \in 0..MaxInputs
  BY DEF IInv, Lines
<1>2. /\ Held(k) /\ Moving(k) /\ (Told(kbc) => Told(k))
      /\ \A f \in Sent : k[f] = kbc[f]
  BY <1>1 DEF set_kbd_clock_enable, EnableStarts, activate_timer, Held, Moving, Told, Fields
<1>3. c \in AllKeyCommands
  BY KeyboardAssumption
<1>4. \/ \E n \in 1..2 : kbc' = KbdAll([k EXCEPT !.parameter = FALSE], Bytes("keyboard", n))
      \/ /\ ~kbc.parameter /\ c = "resend" /\ (k.outb => Racy)
         /\ kbc' = kbd_enQ_imm(k, Bytes("keyboard", 1)[1])
      \/ /\ c = "ack" /\ kbc' = KbdAll(k, Bytes("keyboard", 1))
      \/ /\ c = "param" /\ kbc' = KbdAll([k EXCEPT !.parameter = TRUE], Bytes("keyboard", 1))
      \/ /\ ~kbc.parameter /\ c = "led" /\ (k.outb => Racy)
         /\ kbc' = kbd_enQ_imm([k EXCEPT !.parameter = TRUE], Bytes("keyboard", 1)[1])
      \/ /\ c = "identify" /\ kbc' = KbdAll(k, Bytes("keyboard", 3))
      \/ /\ c = "scan on" /\ kbc' = KbdAll([k EXCEPT !.scanning = TRUE], Bytes("keyboard", 1))
      \/ /\ ~kbc.parameter /\ c = "scan off"
         /\ kbc' = KbdAll([resetinternals(k) EXCEPT !.scanning = FALSE], Bytes("keyboard", 1))
      \/ /\ ~kbc.parameter /\ c = "defaults"
         /\ kbc' = KbdAll([resetinternals(k) EXCEPT !.scanning = TRUE], Bytes("keyboard", 1))
      \/ /\ ~kbc.parameter /\ c = "reset"
         /\ kbc' = KbdAll([resetinternals(k) EXCEPT !.bat = TRUE], Bytes("keyboard", 2))
  BY <1>3, Zenon DEF kbd_ctrl_to_kbd, Becomes, AllKeyCommands
<1> HIDE DEF k
<1>5. ASSUME NEW g, DOMAIN g = Fields,
             \A f \in Fields \ {"parameter", "scanning"} : g[f] = k[f]
      PROVE  /\ Held(g) /\ Moving(g) /\ (Told(kbc) => Told(g))
             /\ \A f \in Sent : g[f] = kbc[f]
  BY <1>2, <1>5 DEF Held, Moving, Told, Fields
<1>6. ASSUME NEW g, DOMAIN g = Fields, g.kbd = <<>>,
             \A f \in Fields \ {"parameter", "scanning", "bat", "kbd"} : g[f] = k[f]
      PROVE  /\ Held(g) /\ Moving(g) /\ (Told(kbc) => Told(g))
             /\ \A f \in Sent \ {"kbd"} : g[f] = kbc[f]
  <2>1. Len(<<>>) <= KbdElements /\ <<>> \in Seq(Byte) /\ <<>> \in Seq(From("keyboard"))
    BY KeyboardAssumption
  <2> QED
    BY <1>2, <1>6, <2>1 DEF Held, Moving, Told, Fields
<1>7. ASSUME NEW g, DOMAIN g = Fields, NEW n \in 1..3,
             \A f \in Fields \ {"parameter", "scanning"} : g[f] = k[f],
             kbc' = KbdAll(g, Bytes("keyboard", n))
      PROVE  Safe(kbc, kbc')
  BY <1>5, <1>7, TypedSafe
<1>8. ASSUME NEW g, DOMAIN g = Fields, g.kbd = <<>>, NEW n \in 1..3,
             \A f \in Fields \ {"parameter", "scanning", "bat", "kbd"} : g[f] = k[f],
             kbc' = KbdAll(g, Bytes("keyboard", n))
      PROVE  /\ Held(kbc') /\ Moving(kbc')
             /\ Told(kbc) =>
                  /\ Told(kbc') /\ MouseStream(kbc') = MouseStream(kbc)
                  /\ Behind("keyboard", KbdStream([kbc EXCEPT !.kbd = <<>>]), KbdStream(kbc'))
  BY <1>6, <1>8, FlushedSafe
<1>9. DOMAIN k = Fields
  BY <1>2 DEF Held
<1>10. CASE \E n \in 1..2 : kbc' = KbdAll([k EXCEPT !.parameter = FALSE], Bytes("keyboard", n))
  <2> DEFINE g == [k EXCEPT !.parameter = FALSE]
  <2>1. DOMAIN g = Fields /\ \A f \in Fields \ {"parameter", "scanning"} : g[f] = k[f]
    BY <1>9 DEF Fields
  <2>2. PICK n \in 1..3 : kbc' = KbdAll(g, Bytes("keyboard", n))
    BY <1>10
  <2> HIDE DEF g
  <2> QED
    BY <1>7, <2>1, <2>2, SafeSends
<1>11. CASE /\ c = "param" /\ kbc' = KbdAll([k EXCEPT !.parameter = TRUE], Bytes("keyboard", 1))
  <2> DEFINE g == [k EXCEPT !.parameter = TRUE]
  <2>1. DOMAIN g = Fields /\ \A f \in Fields \ {"parameter", "scanning"} : g[f] = k[f]
    BY <1>9 DEF Fields
  <2>2. kbc' = KbdAll(g, Bytes("keyboard", 1)) /\ 1 \in 1..3
    BY <1>11
  <2> HIDE DEF g
  <2> QED
    BY <1>7, <2>1, <2>2, SafeSends
<1>12. CASE /\ c = "scan on" /\ kbc' = KbdAll([k EXCEPT !.scanning = TRUE], Bytes("keyboard", 1))
  <2> DEFINE g == [k EXCEPT !.scanning = TRUE]
  <2>1. DOMAIN g = Fields /\ \A f \in Fields \ {"parameter", "scanning"} : g[f] = k[f]
    BY <1>9 DEF Fields
  <2>2. kbc' = KbdAll(g, Bytes("keyboard", 1))
    BY <1>12, Zenon
  <2>3. 1 \in 1..3
    OBVIOUS
  <2> HIDE DEF g
  <2> QED
    BY <1>7, <2>1, <2>2, <2>3, SafeSends
<1>13. CASE \/ /\ c = "ack" /\ kbc' = KbdAll(k, Bytes("keyboard", 1))
            \/ /\ c = "identify" /\ kbc' = KbdAll(k, Bytes("keyboard", 3))
  <2>1. PICK n \in 1..3 : kbc' = KbdAll(k, Bytes("keyboard", n))
    BY <1>13
  <2> QED
    BY <1>7, <1>9, <2>1, SafeSends
<1>14. CASE \/ /\ ~kbc.parameter /\ c = "led" /\ (k.outb => Racy)
               /\ kbc' = kbd_enQ_imm([k EXCEPT !.parameter = TRUE], Bytes("keyboard", 1)[1])
            \/ /\ ~kbc.parameter /\ c = "resend" /\ (k.outb => Racy)
               /\ kbc' = kbd_enQ_imm(k, Bytes("keyboard", 1)[1])
  <2> DEFINE g == [k EXCEPT !.parameter = TRUE]
             Alike(h) == DOMAIN h = Fields /\ \A f \in Fields \ {"parameter", "scanning"} : h[f] = k[f]
  <2>1. Alike(g) /\ Alike(k)
    BY <1>9 DEF Fields
  <2>2. /\ ~kbc.parameter /\ c \in {"led", "resend"} /\ (kbc.outb => Racy)
        /\ \/ kbc' = kbd_enQ_imm(g, Bytes("keyboard", 1)[1])
           \/ kbc' = kbd_enQ_imm(k, Bytes("keyboard", 1)[1])
    BY <1>2, <1>14
  <2> HIDE DEF g
  <2>3. PICK h : Alike(h) /\ kbc' = kbd_enQ_imm(h, Bytes("keyboard", 1)[1])
    BY <2>1, <2>2
  <2> HIDE DEF Alike
  <2>4. Held(h) /\ (Told(kbc) => Told(h)) /\ \A f \in Sent : h[f] = kbc[f]
    BY <1>5, <2>3 DEF Alike
  <2>5. AnswerSafe("keyboard", kbc, kbc')
    BY <2>2, <2>3, <2>4, LedSafe
  <2>6. AnswersKeys
    BY <2>2 DEF AnswersKeys, KeyCommand
  <2> QED
    BY <2>5, <2>6, SafeSends
<1>15. CASE \/ /\ ~kbc.parameter /\ c = "scan off"
               /\ kbc' = KbdAll([resetinternals(k) EXCEPT !.scanning = FALSE], Bytes("keyboard", 1))
            \/ /\ ~kbc.parameter /\ c = "defaults"
               /\ kbc' = KbdAll([resetinternals(k) EXCEPT !.scanning = TRUE], Bytes("keyboard", 1))
            \/ /\ ~kbc.parameter /\ c = "reset"
               /\ kbc' = KbdAll([resetinternals(k) EXCEPT !.bat = TRUE], Bytes("keyboard", 2))
  <2> DEFINE g1 == [resetinternals(k) EXCEPT !.scanning = FALSE]
             g2 == [resetinternals(k) EXCEPT !.scanning = TRUE]
             g3 == [resetinternals(k) EXCEPT !.bat = TRUE]
             Emptying(g) == /\ DOMAIN g = Fields /\ g.kbd = <<>>
                            /\ \A f \in Fields \ {"parameter", "scanning", "bat", "kbd"} : g[f] = k[f]
  <2>1. Emptying(g1) /\ Emptying(g2) /\ Emptying(g3)
    BY <1>9 DEF resetinternals, Fields
  <2>2. \/ kbc' = KbdAll(g1, Bytes("keyboard", 1))
        \/ kbc' = KbdAll(g2, Bytes("keyboard", 1))
        \/ kbc' = KbdAll(g3, Bytes("keyboard", 2))
    BY <1>15, Zenon
  <2> HIDE DEF g1, g2, g3
  <2>3. /\ Held(kbc') /\ Moving(kbc')
        /\ Told(kbc) =>
             /\ Told(kbc') /\ MouseStream(kbc') = MouseStream(kbc)
             /\ Behind("keyboard", KbdStream([kbc EXCEPT !.kbd = <<>>]), KbdStream(kbc'))
    BY <1>8, <2>1, <2>2, 1 \in 1..3, 2 \in 1..3
  <2>4. Flush
    <3>1. c \in {"scan off", "defaults", "reset"} /\ ~kbc.parameter
      BY <1>15
    <3> QED
      BY <3>1 DEF Flush, KeyCommand
  <2> QED
    BY <2>3, <2>4, StreamsGoOn DEF Sends, InOrder
<1> QED
  BY <1>4, <1>10, <1>11, <1>12, <1>13, <1>14, <1>15

LEMMA gen_scancodeSafe ==
  ASSUME IInv, NEW n \in 1..2, gen_scancode(n) PROVE Safe(kbc, kbc')
<1>1. Held(kbc) /\ Moving(kbc) /\ inputs \in 0..MaxInputs
  BY DEF IInv, Lines
<1>2. n \in 1..3 /\ kbc' = KbdAll(kbc, Bytes("keyboard", n))
  BY DEF gen_scancode, Becomes
<1> QED
  BY <1>1, <1>2, TypedSafe

(* A packet is made of the movements, or they are kept behind one.          *)
LEMMA CreateSafe ==
  ASSUME IInv, NEW g, DOMAIN g = Fields,
         \A f \in Fields \ {"delayed"} : g[f] = kbc[f],
         NEW force \in BOOLEAN, NEW j, j = create_mouse_packet(g, force)
  PROVE  Safe(kbc, j)
<1>1. Held(kbc) /\ Moving(kbc) /\ inputs \in 0..MaxInputs
  BY DEF IInv, Lines
<1>2. CASE ~force /\ (g.mouse # <<>> \/ ~g.delayed)
  <2>1. j = g
    BY <1>2 DEF create_mouse_packet
  <2>2. /\ Held(g) /\ Moving(g) /\ (Told(kbc) => Told(g))
        /\ \A f \in {"outb", "auxb", "kbdOut", "auxOut", "controllerQ", "kbd", "mouse"} :
             g[f] = kbc[f]
    BY <1>1, <1>2 DEF Held, Moving, Told, Fields
  <2>3. Told(kbc) => Grows(kbc, g)
    BY <1>1, <2>2, SameSent
  <2> QED
    BY <2>1, <2>2, <2>3 DEF Safe
<1>3. CASE ~(~force /\ (g.mouse # <<>> \/ ~g.delayed))
  <2> DEFINE h == [g EXCEPT !.delayed = FALSE]
  <2>1. j = mouse_enQ_packet(h)
    BY <1>3 DEF create_mouse_packet
  <2>2. /\ Held(h) /\ Moving(h) /\ (Told(kbc) => Told(h))
        /\ \A f \in {"outb", "auxb", "kbdOut", "auxOut", "controllerQ", "kbd", "mouse"} :
             h[f] = kbc[f]
    BY <1>1 DEF Held, Moving, Told, Fields
  <2> HIDE DEF h
  <2>3. Packed(h, j)
    BY <1>1, <2>1, <2>2, PacketKeeps
  <2>4. Held(j) /\ Moving(j) /\ (Told(kbc) => Told(j))
    BY <2>2, <2>3 DEF Packed
  <2>5. ASSUME Told(kbc) PROVE Grows(kbc, j)
    <3>1. kbc.kbd = kbc.kbd \o Bytes("keyboard", 0) /\ 0 \in 0..4
      BY <1>1, NoBytes DEF Held, Senders
    <3>2. j.kbd = kbc.kbd
      BY <2>2, <2>3 DEF Packed
    <3>3. j.kbd = kbc.kbd \o Bytes("keyboard", 0)
      BY <3>1, <3>2
    <3>4. PICK n \in 0..4 : j.mouse = kbc.mouse \o Bytes("mouse", n)
      BY <2>2, <2>3 DEF Packed
    <3>5. \A f \in {"outb", "auxb", "kbdOut", "auxOut", "controllerQ"} : j[f] = kbc[f]
      BY <2>2, <2>3 DEF Packed
    <3> QED
      BY <1>1, <2>4, <2>5, <3>1, <3>3, <3>4, <3>5, MoreGrows
  <2> QED
    BY <2>4, <2>5 DEF Safe
<1> QED
  BY <1>2, <1>3

LEMMA mouse_motionSafe ==
  ASSUME IInv, NEW moves \in BOOLEAN, NEW button \in BOOLEAN, mouse_motion(moves, button)
  PROVE  Safe(kbc, kbc')
<1> DEFINE g == [kbc EXCEPT !.delayed = @ \/ moves]
<1>1. DOMAIN g = Fields /\ \A f \in Fields \ {"delayed"} : g[f] = kbc[f]
  BY DEF IInv, Held, Fields
<1>2. kbc' = create_mouse_packet(g, button)
  BY DEF mouse_motion, Becomes
<1> HIDE DEF g
<1> QED
  BY <1>1, <1>2, CreateSafe

LEMMA mouse_enabled_changedSafe ==
  ASSUME IInv, mouse_enabled_changed PROVE Safe(kbc, kbc')
<1>1. DOMAIN kbc = Fields
  BY DEF IInv, Held
<1>2. PICK force \in BOOLEAN : force = TRUE
  OBVIOUS
<1>3. kbc' = create_mouse_packet(kbc, force)
  BY <1>2 DEF mouse_enabled_changed, Becomes
<1> QED
  BY <1>1, <1>3, CreateSafe

(* A read takes the byte in the buffer out of its stream, and no other.     *)
Reads ==
  /\ Held(kbc') /\ Moving(kbc')
  /\ Told(kbc) =>
       /\ Told(kbc')
       /\ KbdStream(kbc') =
            IF kbc.outb /\ ~kbc.auxb THEN Tail(KbdStream(kbc)) ELSE KbdStream(kbc)
       /\ MouseStream(kbc') =
            IF kbc.outb /\ kbc.auxb THEN Tail(MouseStream(kbc)) ELSE MouseStream(kbc)

LEMMA readTakes ==
  ASSUME IInv, NEW requests, requests \subseteq request, read(requests)
  PROVE  Reads /\ request' \subseteq lineUp' /\ lineUp' \subseteq {1, 12}
<1>1. Held(kbc) /\ Moving(kbc) /\ inputs \in 0..MaxInputs
  BY DEF IInv, Lines
<1>2. request' \subseteq lineUp' /\ lineUp' \subseteq {1, 12}
  BY DEF IInv, Lines, read, lower_irq, Lower
<1>3. CASE kbc.auxb
  <2>1. kbc' = ReadAux(kbc)
    BY <1>3 DEF read
  <2> QED
    BY <1>1, <1>2, <1>3, <2>1, ReadAuxKeeps DEF Reads
<1>4. CASE ~kbc.auxb /\ kbc.outb
  <2>1. kbc' = ReadKbd(kbc)
    BY <1>4 DEF read
  <2> QED
    BY <1>1, <1>2, <1>4, <2>1, ReadKbdKeeps DEF Reads
<1>5. CASE ~kbc.auxb /\ ~kbc.outb
  <2>1. kbc' = kbc
    BY <1>5 DEF read
  <2> QED
    BY <1>1, <1>2, <1>5, <2>1 DEF Reads
<1> QED
  BY <1>3, <1>4, <1>5

-----------------------------------------------------------------------------
(* The invariant                                                            *)

LEMMA InitInv ==
  ASSUME Init PROVE IInv /\ Told(kbc)
<1>1. <<>> \in Seq(Byte) /\ <<>> \in Seq(From("mouse")) /\ <<>> \in Seq(From("keyboard"))
  OBVIOUS
<1>2. Len(<<>>) <= QSize /\ Len(<<>>) <= KbdElements /\ Len(<<>>) < MouseBuffSize
  BY KeyboardAssumption
<1>3. PICK k : k = PowerOn
  OBVIOUS
<1>4. DOMAIN k = Fields
  BY <1>3 DEF PowerOn, Fields
<1>5. /\ k.kbdOut = None /\ k.auxOut = None /\ k.expecting = "none"
      /\ k.controllerQ = <<>> /\ k.kbd = <<>> /\ k.mouse = <<>>
      /\ ~k.outb /\ ~k.auxb /\ ~k.delayed
  BY <1>3 DEF PowerOn
<1>6. kbc = k \/ kbc = [k EXCEPT !.auxClock = TRUE, !.enable = TRUE, !.tested = TRUE]
  BY <1>3 DEF Init, Running
<1>7. DOMAIN kbc = Fields
  BY <1>4, <1>6 DEF Fields
<1>8. /\ kbc.kbdOut = None /\ kbc.auxOut = None /\ kbc.expecting = "none"
      /\ kbc.controllerQ = <<>> /\ kbc.kbd = <<>> /\ kbc.mouse = <<>>
      /\ ~kbc.outb /\ ~kbc.auxb /\ ~kbc.delayed
  BY <1>4, <1>5, <1>6 DEF Fields
<1>9. Held(kbc)
  BY <1>1, <1>2, <1>7, <1>8 DEF Held, Expected
<1>10. Moving(kbc) /\ Told(kbc)
  BY <1>1, <1>8 DEF Moving, Told
<1>11. Lines
  BY KeyboardAssumption DEF Init, Lines
<1> QED
  BY <1>9, <1>10, <1>11 DEF IInv

LEMMA ReadingStep ==
  ASSUME IInv, Reading PROVE Reads /\ Lines'
<1>1. CASE PollData
  <2>1. read(request) /\ inputs' = inputs
    BY <1>1 DEF PollData
  <2> QED
    BY <2>1, readTakes DEF IInv, Lines
<1>2. ASSUME NEW line \in {1, 12}, Interrupt(line) PROVE Reads /\ Lines'
  <2>1. read(request \ {line}) /\ inputs' = inputs /\ request \ {line} \subseteq request
    BY <1>2 DEF Interrupt
  <2> QED
    BY <2>1, readTakes DEF IInv, Lines
<1> QED
  BY <1>1, <1>2 DEF Reading

LEMMA SoftwareStep ==
  ASSUME IInv, Software PROVE Sends /\ Lines'
<1>1. inputs' \in 0..MaxInputs
  BY KeyboardAssumption DEF Software, Input, IInv, Lines
<1>2. UNCHANGED <<lineUp, request>>
  <2>1. \E k : Becomes(k)
    <3>1. ASSUME NEW mode \in BOOLEAN, ReadController(mode) PROVE \E k : Becomes(k)
      BY <3>1 DEF ReadController
    <3>2. ASSUME SelfTest PROVE \E k : Becomes(k)
      BY <3>2 DEF SelfTest
    <3>3. ASSUME NEW device \in Senders, NEW value \in BOOLEAN, SetClock(device, value)
          PROVE \E k : Becomes(k)
      BY <3>3 DEF SetClock
    <3>4. ASSUME NEW what \in Expected, Expect(what) PROVE \E k : Becomes(k)
      BY <3>4 DEF Expect
    <3>5. ASSUME NEW one \in BOOLEAN, NEW twelve \in BOOLEAN, NEW kbd \in BOOLEAN,
                 NEW aux \in BOOLEAN, WriteCommandByte(one, twelve, kbd, aux)
          PROVE \E k : Becomes(k)
      BY <3>5 DEF WriteCommandByte
    <3>6. ASSUME NEW from \in Senders, WriteOutputBuffer(from) PROVE \E k : Becomes(k)
      BY <3>6 DEF WriteOutputBuffer
    <3>7. ASSUME NEW c, kbd_ctrl_to_mouse(c) PROVE \E k : Becomes(k)
      BY <3>7 DEF kbd_ctrl_to_mouse
    <3>8. ASSUME NEW c, kbd_ctrl_to_kbd(c) PROVE \E k : Becomes(k)
      BY <3>8 DEF kbd_ctrl_to_kbd
    <3> QED
      BY <3>1, <3>2, <3>3, <3>4, <3>5, <3>6, <3>7, <3>8 DEF Software
  <2> QED
    BY <2>1 DEF Becomes
<1>3. Safe(kbc, kbc') => Sends
  BY SafeSends
<1>4. ASSUME NEW c \in MouseCommands, kbd_ctrl_to_mouse(c) PROVE Sends
  <2>1. AnswersMouse
    BY <1>4 DEF AnswersMouse
  <2> QED
    BY <1>4, <2>1, mouseSafe, StreamsGoOn DEF Sends, InOrder
<1>5. ASSUME NEW mode \in BOOLEAN, ReadController(mode) PROVE Sends
  BY <1>5, ReadControllerSafe, SafeSends DEF AnswersKeys
<1>6. ASSUME SelfTest PROVE Sends
  BY <1>6, SelfTestSafe, SafeSends DEF AnswersKeys
<1>7. ASSUME NEW from \in Senders, WriteOutputBuffer(from) PROVE Sends
  BY <1>7, WriteOutputBufferSafe, SafeSends DEF AnswersKeys, AnswersMouse, Senders
<1>8. Sends
  BY <1>3, <1>4, <1>5, <1>6, <1>7, kbdSafe, SetClockSafe, ExpectSafe, WriteCommandByteSafe DEF Software
<1> QED
  BY <1>1, <1>2, <1>8 DEF IInv, Lines

LEMMA UserStep ==
  ASSUME IInv, User PROVE Sends /\ Lines'
<1>1. inputs' \in 0..MaxInputs
  BY KeyboardAssumption DEF User, Input, IInv, Lines
<1>2. UNCHANGED <<lineUp, request>>
  BY DEF User, gen_scancode, mouse_motion, mouse_enabled_changed, Becomes
<1>3. Safe(kbc, kbc')
  BY gen_scancodeSafe, mouse_motionSafe, mouse_enabled_changedSafe DEF User
<1> QED
  BY <1>1, <1>2, <1>3, SafeSends DEF IInv, Lines

LEMMA periodicStep ==
  ASSUME IInv, periodic PROVE Sends /\ Lines'
<1>1. Lines'
  BY DEF periodic, raise_irq, Asked, IInv, Lines
<1>2. Safe(kbc, kbc')
  BY periodicSafe
<1> QED
  BY <1>1, <1>2, SafeSends

(* Every step either reads or sends.                                        *)
LEMMA EveryStep ==
  ASSUME IInv, Next PROVE Lines' /\ (Reads \/ Sends) /\ (~Reading => Sends)
BY ReadingStep, SoftwareStep, UserStep, periodicStep DEF Next, Reading

LEMMA NextInv ==
  ASSUME IInv, [Next]_vars PROVE IInv' /\ (Told(kbc) /\ ~Racy => Told(kbc)')
<1>1. CASE Next
  BY <1>1, EveryStep DEF IInv, Reads, Sends
<1>2. CASE UNCHANGED vars
  BY <1>2 DEF vars, IInv, Lines, Held, Moving, Told
<1> QED
  BY <1>1, <1>2

(* Types: no queue is ever beyond its array, whatever software asks for.    *)
THEOREM TypeCorrect == Spec => []TypeOK
<1>1. Init => IInv
  BY InitInv
<1>2. IInv /\ [Next]_vars => IInv'
  BY NextInv
<1>3. IInv => TypeOK
  BY DEF IInv, Held, Lines, TypeOK
<1> QED
  BY <1>1, <1>2, <1>3, PTL DEF Spec

(* No byte waits behind an empty buffer without the timer on its way,       *)
(* whatever clocks are stopped and started around it, for software of any   *)
(* kind (keyboard.cc 714-746, 1049-1109).                                   *)
THEOREM NobodyIsStranded == Spec => []NothingStranded
<1>1. Init => IInv
  BY InitInv
<1>2. IInv /\ [Next]_vars => IInv'
  BY NextInv
<1>3. IInv => NothingStranded
  BY DEF IInv, Moving, NothingStranded
<1> QED
  BY <1>1, <1>2, <1>3, PTL DEF Spec

(* Software that reads the buffer before it asks for an answer is told      *)
(* whose byte it reads (keyboard.cc 28-32).                                 *)
THEOREM SourceIsTold == ~Racy => (Spec => []BufferTellsSource)
<1> SUFFICES ASSUME ~Racy PROVE Spec => []BufferTellsSource
  OBVIOUS
<1> DEFINE TInv == IInv /\ Told(kbc)
<1>1. Init => TInv
  BY InitInv
<1>2. TInv /\ [Next]_vars => TInv'
  BY NextInv
<1>3. TInv => BufferTellsSource
  BY SenderOf DEF Told, BufferTellsSource
<1> HIDE DEF TInv
<1> QED
  BY <1>1, <1>2, <1>3, PTL DEF Spec

(* And what a device has sent is read in order, each byte once: a read      *)
(* takes the oldest byte of one stream, every other step leaves them or     *)
(* adds new bytes behind; only answers go ahead of what waits, and only the *)
(* commands that empty the keyboard's buffer lose what is in it             *)
(* (keyboard.cc 319-344, 802, 1076-1106).                                   *)
THEOREM OrderIsKept == ~Racy => (Spec => StreamsKeepOrder)
<1> SUFFICES ASSUME ~Racy PROVE Spec => StreamsKeepOrder
  OBVIOUS
<1> DEFINE TInv == IInv /\ Told(kbc)
           Ordered ==
             IF Reading
             THEN /\ KbdStream(kbc') =
                       IF kbc.outb /\ ~kbc.auxb THEN Tail(KbdStream(kbc)) ELSE KbdStream(kbc)
                  /\ MouseStream(kbc') =
                       IF kbc.outb /\ kbc.auxb THEN Tail(MouseStream(kbc)) ELSE MouseStream(kbc)
             ELSE InOrder
<1>1. Init => TInv
  BY InitInv
<1>2. TInv /\ [Next]_vars => TInv'
  BY NextInv
<1>3. TInv /\ [Next]_vars => [Ordered]_vars
  <2> SUFFICES ASSUME TInv, Next PROVE Ordered
    OBVIOUS
  <2>1. CASE Reading
    BY <2>1, ReadingStep DEF Reads
  <2>2. CASE ~Reading
    BY <2>2, EveryStep DEF Sends
  <2> QED
    BY <2>1, <2>2
<1>4. StreamsKeepOrder <=> [][Ordered]_vars
  BY PTL DEF StreamsKeepOrder, InOrder
<1> HIDE DEF TInv, Ordered
<1> QED
  BY <1>1, <1>2, <1>3, <1>4, PTL DEF Spec
=============================================================================
