-------------------------- MODULE Protocolo_proofs --------------------------
(***************************************************************************)
(* What is sent is what is read, for every pcb and every instruction, and  *)
(* whatever comes behind it on the socket: the functions of the two ends   *)
(* of module Protocolo agree on the order and the number of the words.     *)
(***************************************************************************)
EXTENDS Protocolo, SequenceTheorems, WellFoundedInduction, TLAPS

(* A pcb, with instructions of any kind: the codec does not look at them.  *)
Pcbs(I) ==
  [id : Int, tam_proceso : Int, pc : Int, rafaga : Int, estimacion_anterior : Int,
   tabla_paginas : Int, instrucciones : Seq(I)]

(* Instructions as the parser makes them: 0 for what they do not have.     *)
Instrucciones ==
  {Instruccion(tipo, 0, 0) : tipo \in {NO_OP, EXIT}}
    \union {Instruccion(tipo, a, 0) : tipo \in {I_O, READ}, a \in Int}
    \union {Instruccion(tipo, a, b) : tipo \in {WRITE, COPY}, a \in Int, b \in Int}

(* Two sequences joined.                                                   *)
LEMMA Unidas ==
  ASSUME NEW S, NEW a \in Seq(S), NEW b \in Seq(S)
  PROVE  /\ a \o b \in Seq(S)
         /\ Len(a \o b) = Len(a) + Len(b)
         /\ \A k \in 1 .. Len(a) : (a \o b)[k] = a[k]
         /\ \A k \in 1 .. Len(b) : (a \o b)[Len(a) + k] = b[k]
  OBVIOUS

(* The part of s from n on that agrees with b, place by place, is b.       *)
LEMMA Parte ==
  ASSUME NEW S, NEW s \in Seq(S), NEW b \in Seq(S), NEW n \in Nat,
         n + Len(b) <= Len(s),
         \A k \in 1 .. Len(b) : s[n + k] = b[k]
  PROVE  SubSeq(s, n + 1, n + Len(b)) = b
<1> DEFINE m == SubSeq(s, n + 1, n + Len(b))
<1>1. Len(b) \in Nat /\ n + 1 \in Int /\ n + Len(b) \in Int
  OBVIOUS
<1>2. \A k \in n + 1 .. n + Len(b) : s[k] \in S
  BY <1>1, ElementOfSeq
<1>3. /\ m \in Seq(S)
      /\ Len(m) = IF n + 1 <= n + Len(b) THEN (n + Len(b)) - (n + 1) + 1 ELSE 0
      /\ \A k \in 1 .. (n + Len(b)) - (n + 1) + 1 : m[k] = s[(n + 1) + k - 1]
  BY <1>1, <1>2, SubSeqProperties
<1> HIDE DEF m
<1>4. Len(m) = Len(b)
  BY <1>1, <1>3
<1>5. ASSUME NEW k \in 1 .. Len(m)
      PROVE  m[k] = b[k]
  <2>1. m[k] = s[(n + 1) + k - 1] /\ (n + 1) + k - 1 = n + k
    BY <1>1, <1>3, <1>4
  <2>2. s[n + k] = b[k]
    BY <1>4
  <2>3. QED
    BY <2>1, <2>2
<1>6. m = b
  BY <1>3, <1>4, <1>5, SeqEqual
<1>7. QED
  BY <1>6 DEF m

(* Three sequences joined: their length, and the second and the third.     *)
LEMMA EnMedio ==
  ASSUME NEW S, NEW a \in Seq(S), NEW b \in Seq(S), NEW c \in Seq(S),
         NEW s, s = (a \o b) \o c
  PROVE  /\ Len(s) = Len(a) + Len(b) + Len(c)
         /\ \A k \in 1 .. Len(a) : s[k] = a[k]
         /\ SubSeq(s, Len(a) + 1, Len(a) + Len(b)) = b
         /\ SubSeq(s, Len(a) + Len(b) + 1, Len(a) + Len(b) + Len(c)) = c
<1> DEFINE u == a \o b
<1>1. Len(a) \in Nat /\ Len(b) \in Nat /\ Len(c) \in Nat
  OBVIOUS
<1>2. u \in Seq(S)
  BY Unidas
<1>3. /\ Len(u) = Len(a) + Len(b)
      /\ \A k \in 1 .. Len(a) : u[k] = a[k]
      /\ \A k \in 1 .. Len(b) : u[Len(a) + k] = b[k]
  BY Unidas
<1>4. s = u \o c
  OBVIOUS
<1> HIDE DEF u
<1>5. s \in Seq(S)
  BY <1>2, <1>4
<1>6. /\ Len(s) = Len(u) + Len(c)
      /\ \A k \in 1 .. Len(u) : s[k] = u[k]
      /\ \A k \in 1 .. Len(c) : s[Len(u) + k] = c[k]
  BY <1>2, <1>4, Unidas
<1>7. Len(s) = Len(a) + Len(b) + Len(c)
  BY <1>1, <1>3, <1>6
<1>8. \A k \in 1 .. Len(a) : s[k] = a[k]
  BY <1>1, <1>3, <1>6
<1>9. SubSeq(s, Len(a) + 1, Len(a) + Len(b)) = b
  <2>1. \A k \in 1 .. Len(b) : s[Len(a) + k] = b[k]
    <3>1. TAKE k \in 1 .. Len(b)
    <3>2. Len(a) + k \in 1 .. Len(u)
      BY <1>1, <1>3
    <3>3. s[Len(a) + k] = u[Len(a) + k]
      BY <3>2, <1>6
    <3>4. QED
      BY <3>3, <1>3
  <2> DEFINE n == Len(a)
  <2>2. n \in Nat /\ n + Len(b) <= Len(s)
    BY <1>1, <1>7
  <2>3. \A k \in 1 .. Len(b) : s[n + k] = b[k]
    BY <2>1
  <2> HIDE DEF n
  <2>4. SubSeq(s, n + 1, n + Len(b)) = b
    BY <2>2, <2>3, <1>5, Parte
  <2>5. QED
    BY <2>4 DEF n
<1>10. SubSeq(s, Len(a) + Len(b) + 1, Len(a) + Len(b) + Len(c)) = c
  <2> DEFINE n == Len(a) + Len(b)
  <2>1. n \in Nat /\ n + Len(c) <= Len(s)
    BY <1>1, <1>7
  <2>2. \A k \in 1 .. Len(c) : s[n + k] = c[k]
    BY <1>3, <1>6
  <2> HIDE DEF n
  <2>3. SubSeq(s, n + 1, n + Len(c)) = c
    BY <2>1, <2>2, <1>5, Parte
  <2>4. QED
    BY <2>3 DEF n
<1>11. QED
  BY <1>7, <1>8, <1>9, <1>10 DEF u

(* recibir_pcb reads from the words of enviar_pcb the pcb that was sent,   *)
(* and leaves on the socket what came behind it.                           *)
THEOREM PcbLeido ==
  ASSUME NEW I, NEW p \in Pcbs(I), NEW Palabra, I \subseteq Palabra, Int \subseteq Palabra,
         NEW resto \in Seq(Palabra)
  PROVE  /\ LeerPcb(SerializarPcb(p) \o resto) = p
         /\ TrasPcb(SerializarPcb(p) \o resto, 0) = resto
<1> DEFINE ins == p.instrucciones
           cabeza == <<p.id, p.tam_proceso, p.pc, p.rafaga, p.estimacion_anterior,
                       p.tabla_paginas, Len(ins)>>
           s == SerializarPcb(p) \o resto
<1>1. ins \in Seq(I) /\ ins \in Seq(Palabra) /\ Len(ins) \in Nat
  BY DEF Pcbs
<1>2. /\ cabeza \in Seq(Palabra)
      /\ Len(cabeza) = 7
  BY <1>1 DEF Pcbs
<1>3. /\ cabeza[1] = p.id /\ cabeza[2] = p.tam_proceso /\ cabeza[3] = p.pc
      /\ cabeza[4] = p.rafaga /\ cabeza[5] = p.estimacion_anterior
      /\ cabeza[6] = p.tabla_paginas /\ cabeza[7] = Len(ins)
  OBVIOUS
<1>4. s = (cabeza \o ins) \o resto
  BY DEF SerializarPcb
<1> HIDE DEF cabeza, s, ins
<1>5. /\ Len(s) = 7 + Len(ins) + Len(resto)
      /\ \A k \in 1 .. 7 : s[k] = cabeza[k]
      /\ SubSeq(s, 8, 7 + Len(ins)) = ins
      /\ SubSeq(s, 7 + Len(ins) + 1, 7 + Len(ins) + Len(resto)) = resto
  <2>1. /\ Len(s) = Len(cabeza) + Len(ins) + Len(resto)
        /\ \A k \in 1 .. Len(cabeza) : s[k] = cabeza[k]
        /\ SubSeq(s, Len(cabeza) + 1, Len(cabeza) + Len(ins)) = ins
        /\ SubSeq(s, Len(cabeza) + Len(ins) + 1, Len(cabeza) + Len(ins) + Len(resto)) = resto
    <3>1. cabeza \in Seq(Palabra) /\ ins \in Seq(Palabra) /\ resto \in Seq(Palabra)
      BY <1>1, <1>2
    <3>2. QED
      BY <3>1, <1>4, EnMedio
  <2>2. QED
    BY <2>1, <1>2
<1>6. s[1] = p.id /\ s[2] = p.tam_proceso /\ s[3] = p.pc /\ s[4] = p.rafaga
      /\ s[5] = p.estimacion_anterior /\ s[6] = p.tabla_paginas /\ s[7] = Len(ins)
  BY <1>3, <1>5
<1>7. 0 + 8 + s[0 + 7] = 7 + Len(ins) + 1
  BY <1>1, <1>6
<1>8. LeerPcb(s) = p
  <2>1. LeerPcb(s) = [id |-> p.id, tam_proceso |-> p.tam_proceso, pc |-> p.pc,
                      rafaga |-> p.rafaga, estimacion_anterior |-> p.estimacion_anterior,
                      tabla_paginas |-> p.tabla_paginas, instrucciones |-> ins]
    BY <1>5, <1>6 DEF LeerPcb
  <2>2. QED
    BY <2>1 DEF Pcbs, ins
<1>9. TrasPcb(s, 0) = resto
  BY <1>5, <1>7 DEF TrasPcb
<1>10. QED
  BY <1>8, <1>9 DEF s

(* The handler takes as many words as the console sent, and makes of them  *)
(* the instruction that was sent.                                          *)
THEOREM InstruccionLeida ==
  ASSUME NEW ins \in Instrucciones
  PROVE  /\ Len(EnviarInstruccion(ins)) = PalabrasDe(Head(EnviarInstruccion(ins)))
         /\ LeerInstruccion(EnviarInstruccion(ins)) = ins
         /\ Head(EnviarInstruccion(ins)) # FIN
<1> USE DEF NO_OP, I_O, READ, WRITE, COPY, EXIT, FIN
<1>1. CASE \E tipo \in {NO_OP, EXIT} : ins = Instruccion(tipo, 0, 0)
  BY <1>1 DEF Instruccion, EnviarInstruccion, PalabrasDe, LeerInstruccion
<1>2. CASE \E tipo \in {I_O, READ}, a \in Int : ins = Instruccion(tipo, a, 0)
  BY <1>2 DEF Instruccion, EnviarInstruccion, PalabrasDe, LeerInstruccion
<1>3. CASE \E tipo \in {WRITE, COPY}, a \in Int, b \in Int : ins = Instruccion(tipo, a, b)
  BY <1>3 DEF Instruccion, EnviarInstruccion, PalabrasDe, LeerInstruccion
<1>4. QED
  BY <1>1, <1>2, <1>3 DEF Instrucciones

-----------------------------------------------------------------------------
(* Induction on the naturals, for a set of them.                           *)
LEMMA InduccionNat ==
  ASSUME NEW S, 0 \in S, \A n \in Nat : n \in S => n + 1 \in S
  PROVE  \A n \in Nat : n \in S
<1> DEFINE R == {ss \in Nat \X Nat : ss[1] < ss[2]}
           T == Nat \ S
<1>1. IsWellFoundedOn(R, Nat)
  BY NatLessThanWellFounded DEF OpToRel
<1>2. T # {} => \E x \in T : \A y \in T : ~(<<y, x>> \in R)
  <2> HIDE DEF R
  <2> QED BY <1>1, WFMin
<1>3. ASSUME NEW x \in T, \A y \in T : ~(<<y, x>> \in R) PROVE FALSE
  <2>1. x # 0 /\ x \in Nat
    OBVIOUS
  <2>2. x - 1 \in Nat /\ <<x - 1, x>> \in R
    BY <2>1
  <2>3. x - 1 \in S
    BY <1>3, <2>2
  <2> QED BY <2>1, <2>2, <2>3
<1> HIDE DEF R
<1> QED BY <1>2, <1>3

(* What the loop of FlattenSeq has joined after each sequence.             *)
EsAplanado(g, s, n) ==
  g = [i \in 1 .. n |-> IF i = 1 THEN s[i] ELSE g[i - 1] \o s[i]]

(* The joined sequence is the last of that loop.                           *)
LEMMA AplanarDef ==
  ASSUME NEW s, Len(s) # 0
  PROVE  FlattenSeq(s) = (CHOOSE g : EsAplanado(g, s, Len(s)))[Len(s)]
BY DEF FlattenSeq, EsAplanado

(* Lists of sequences.                                                     *)
Listas(S) == Seq(Seq(S))

(* The loop is well defined: each sequence has one value before it.        *)
LEMMA AplanadoExiste ==
  ASSUME NEW S, NEW s \in Listas(S), NEW n \in 0 .. Len(s)
  PROVE  /\ \E g : EsAplanado(g, s, n)
         /\ \A g : EsAplanado(g, s, n) => g \in [1 .. n -> Seq(S)]
<1> DEFINE Bien(m) == (\E g : EsAplanado(g, s, m)) 
                      /\ (\A g : EsAplanado(g, s, m) => g \in [1 .. m -> Seq(S)])
           B == {m \in Nat : m <= Len(s) => Bien(m)}
<1>1. Bien(0)
  <2>1. EsAplanado([i \in {} |-> <<>>], s, 0)
    BY DEF EsAplanado
  <2>2. \A g : EsAplanado(g, s, 0) => g \in [1 .. 0 -> Seq(S)]
    BY DEF EsAplanado
  <2> QED BY <2>1, <2>2
<1>2. ASSUME NEW m \in Nat, m + 1 <= Len(s), Bien(m) PROVE Bien(m + 1)
  <2> HIDE DEF Bien
  <2>1. PICK g : EsAplanado(g, s, m)
    BY <1>2 DEF Bien
  <2>2. g \in [1 .. m -> Seq(S)]
    BY <1>2, <2>1 DEF Bien
  <2>3. s[m + 1] \in Seq(S) 
    BY <1>2 DEF Listas
  <2> DEFINE ult == IF m + 1 = 1 THEN s[m + 1] ELSE g[m] \o s[m + 1]
             h == [i \in 1 .. m + 1 |-> IF i <= m THEN g[i] ELSE ult]
  <2>4. \A i \in 1 .. m : g[i] = IF i = 1 THEN s[i] ELSE g[i - 1] \o s[i]
    BY <2>1 DEF EsAplanado
  <2>5. EsAplanado(h, s, m + 1)
    <3> HIDE DEF ult
    <3>1. ASSUME NEW i \in 1 .. m + 1
          PROVE  h[i] = IF i = 1 THEN s[i] ELSE h[i - 1] \o s[i]
      <4>1. CASE i <= m
        <5>1. i \in 1 .. m /\ (i # 1 => i - 1 \in 1 .. m) /\ i - 1 <= m /\ i - 1 \in Int
          BY <4>1
        <5>2. h[i] = g[i] /\ (i # 1 => h[i - 1] = g[i - 1])
          BY <5>1
        <5> QED BY <2>4, <5>1, <5>2
      <4>2. CASE ~(i <= m)
        <5>1. i = m + 1 /\ (i # 1 => i - 1 \in 1 .. m) /\ i - 1 = m
          BY <4>2
        <5>2. h[i] = ult /\ (i # 1 => h[i - 1] = g[m])
          BY <5>1
        <5> QED BY <5>1, <5>2 DEF ult
      <4> QED BY <4>1, <4>2
    <3> QED BY <3>1 DEF EsAplanado
  <2>6. ASSUME NEW f, EsAplanado(f, s, m + 1) PROVE f \in [1 .. m + 1 -> Seq(S)]
    <3> DEFINE r == [i \in 1 .. m |-> f[i]]
    <3>1. \A i \in 1 .. m + 1 : f[i] = IF i = 1 THEN s[i] ELSE f[i - 1] \o s[i]
      BY <2>6 DEF EsAplanado
    <3>2. \A i \in 1 .. m : r[i] = IF i = 1 THEN s[i] ELSE r[i - 1] \o s[i]
      <4> SUFFICES ASSUME NEW i \in 1 .. m
                   PROVE  r[i] = IF i = 1 THEN s[i] ELSE r[i - 1] \o s[i]
        OBVIOUS
      <4>1. i \in 1 .. m + 1 /\ (i # 1 => i - 1 \in 1 .. m)
        OBVIOUS
      <4>2. r[i] = f[i] /\ (i # 1 => r[i - 1] = f[i - 1])
        BY <4>1
      <4> QED BY <3>1, <4>1, <4>2
    <3>3. EsAplanado(r, s, m)
      BY <3>2 DEF EsAplanado
    <3>4. r \in [1 .. m -> Seq(S)]
      BY <1>2, <3>3 DEF Bien
    <3>5. \A i \in 1 .. m : f[i] \in Seq(S)
      BY <3>4
    <3>6. f[m + 1] \in Seq(S)
      <4>1. CASE m = 0
        BY <2>3, <3>1, <4>1
      <4>2. CASE m # 0
        <5>1. m \in 1 .. m /\ m + 1 \in 1 .. m + 1 /\ m + 1 # 1 /\ (m + 1) - 1 = m
          BY <4>2
        <5>2. f[m + 1] = f[m] \o s[m + 1]
          BY <3>1, <5>1
        <5> QED BY <2>3, <3>5, <5>1, <5>2
      <4> QED BY <4>1, <4>2
    <3>7. \A i \in 1 .. m + 1 : f[i] \in Seq(S)
      <4>1. \A i \in 1 .. m + 1 : i \in 1 .. m \/ i = m + 1
        OBVIOUS
      <4> QED BY <3>5, <3>6, <4>1
    <3>8. f = [i \in 1 .. m + 1 |-> f[i]]
      BY <2>6, <3>1 DEF EsAplanado
    <3> QED BY <3>7, <3>8
  <2> HIDE DEF h
  <2> QED BY <2>5, <2>6 DEF Bien
<1>3. Len(s) \in Nat
  OBVIOUS
<1> HIDE DEF Bien
<1>4. 0 \in B
  BY <1>1
<1>5. \A m \in Nat : m \in B => m + 1 \in B
  BY <1>2, <1>3
<1>6. \A m \in Nat : m \in B
  <2> HIDE DEF B
  <2> QED BY <1>4, <1>5, InduccionNat
<1>7. Bien(n)
  BY <1>3, <1>6
<1> QED BY <1>7 DEF Bien

(* A sequence more at the end does not change what was joined before it.   *)
Prolonga(t, s) == Len(s) \in Nat /\ \A i \in 1 .. Len(s) : t[i] = s[i]
(* By the least index at which the two loops would differ.                 *)
LEMMA AplanadoUnico ==
  ASSUME NEW s, NEW t, Prolonga(t, s), NEW g, NEW h,
         EsAplanado(g, s, Len(s)), EsAplanado(h, t, Len(s) + 1)
  PROVE  \A i \in 1 .. Len(s) : g[i] = h[i]
<1> DEFINE B == {i \in Nat : i \in 1 .. Len(s) => g[i] = h[i]}
<1>1. \A i \in 1 .. Len(s) : g[i] = IF i = 1 THEN s[i] ELSE g[i - 1] \o s[i]
  BY DEF EsAplanado
<1>2. \A i \in 1 .. Len(s) + 1 : h[i] = IF i = 1 THEN t[i] ELSE h[i - 1] \o t[i]
  BY DEF EsAplanado
<1>3. 0 \in B
  OBVIOUS
<1>4. ASSUME NEW i \in Nat, i \in B PROVE i + 1 \in B
  <2> SUFFICES ASSUME i + 1 \in 1 .. Len(s) PROVE g[i + 1] = h[i + 1]
    OBVIOUS
  <2>1. i + 1 \in 1 .. Len(s) + 1 /\ s[i + 1] = t[i + 1]
    BY DEF Prolonga
  <2>2. CASE i = 0
    <3>1. i + 1 = 1
      BY <2>2
    <3> QED BY <1>1, <1>2, <2>1, <3>1
  <2>3. CASE i # 0
    <3>1. i + 1 # 1 /\ (i + 1) - 1 = i /\ i \in 1 .. Len(s)
      BY <2>3
    <3>2. g[i] = h[i]
      BY <1>4, <3>1
    <3>3. g[i + 1] = g[i] \o s[i + 1]
      BY <1>1, <3>1
    <3>4. h[i + 1] = h[i] \o t[i + 1]
      BY <1>2, <2>1, <3>1
    <3> QED BY <2>1, <3>2, <3>3, <3>4
  <2> QED BY <2>2, <2>3
<1>5. \A i \in Nat : i \in B
  <2> HIDE DEF B
  <2> QED BY <1>3, <1>4, InduccionNat
<1> QED BY <1>5

(* Flattening nothing.                                                     *)
LEMMA AplanarVacia == FlattenSeq(<<>>) = <<>>
  BY DEF FlattenSeq

(* The value of the loop is that of its last turn.                         *)
LEMMA AplanarValor ==
  ASSUME NEW S, NEW t \in Listas(S), Len(t) # 0
  PROVE  \E g : /\ EsAplanado(g, t, Len(t)) /\ g \in [1 .. Len(t) -> Seq(S)]
                /\ FlattenSeq(t) = g[Len(t)]
<1> DEFINE g == CHOOSE f : EsAplanado(f, t, Len(t))
<1>1. Len(t) \in 0 .. Len(t)
  BY DEF Listas
<1>2. \E f : EsAplanado(f, t, Len(t))
  BY <1>1, AplanadoExiste
<1>3. EsAplanado(g, t, Len(t))
  BY <1>2
<1>4. g \in [1 .. Len(t) -> Seq(S)]
  BY <1>1, <1>3, AplanadoExiste
<1>5. FlattenSeq(t) = g[Len(t)]
  BY AplanarDef
<1> HIDE DEF g
<1> QED BY <1>3, <1>4, <1>5

(* Flattening a list of sequences makes a sequence.                        *)
LEMMA AplanarTipo ==
  ASSUME NEW S, NEW s \in Listas(S)
  PROVE  FlattenSeq(s) \in Seq(S)
<1>1. CASE Len(s) = 0
  <2>1. s = <<>> /\ <<>> \in Seq(S)
    BY <1>1 DEF Listas
  <2> QED BY <2>1, AplanarVacia
<1>2. CASE Len(s) # 0
  <2>1. PICK g \in [1 .. Len(s) -> Seq(S)] : FlattenSeq(s) = g[Len(s)]
    BY <1>2, AplanarValor
  <2>2. Len(s) \in 1 .. Len(s)
    BY <1>2 DEF Listas
  <2> QED BY <2>1, <2>2
<1> QED BY <1>1, <1>2

(* With one more sequence at the end, it comes last.                       *)
Agrega(t, s, a) == t = Append(s, a)
(* The sequence added is joined last.                                      *)
LEMMA AplanarAgregar ==
  ASSUME NEW S, NEW s \in Listas(S), NEW a \in Seq(S), NEW t, Agrega(t, s, a)
  PROVE  FlattenSeq(t) = FlattenSeq(s) \o a
<1>1. /\ t \in Listas(S) /\ Len(t) = Len(s) + 1 /\ Len(s) \in Nat
      /\ t[Len(s) + 1] = a
      /\ \A i \in 1 .. Len(s) : t[i] = s[i]
  BY DEF Listas, Agrega
<1>2. PICK h : EsAplanado(h, t, Len(s) + 1) /\ FlattenSeq(t) = h[Len(s) + 1]
  BY <1>1, AplanarValor
<1>3. \A i \in 1 .. Len(s) + 1 : h[i] = IF i = 1 THEN t[i] ELSE h[i - 1] \o t[i]
  BY <1>2 DEF EsAplanado
<1>4. CASE Len(s) = 0
  <2>1. s = <<>> /\ Len(s) + 1 = 1
    BY <1>4
  <2>2. FlattenSeq(t) = a
    BY <1>1, <1>2, <1>3, <2>1
  <2>3. <<>> \o a = a
    OBVIOUS
  <2> QED BY <2>1, <2>2, <2>3, AplanarVacia
<1>5. CASE Len(s) # 0
  <2>1. PICK g : EsAplanado(g, s, Len(s)) /\ FlattenSeq(s) = g[Len(s)]
    BY <1>5, AplanarValor
  <2>2. Prolonga(t, s)
    BY <1>1 DEF Prolonga
  <2>3. Len(s) \in 1 .. Len(s)
    BY <1>1, <1>5
  <2>4. \A i \in 1 .. Len(s) : g[i] = h[i]
    <3>1. EsAplanado(g, s, Len(s)) /\ EsAplanado(h, t, Len(s) + 1)
      BY <1>2, <2>1
    <3> HIDE <1>2, <2>1
    <3> QED BY <2>2, <3>1, AplanadoUnico
  <2>5. h[Len(s) + 1] = h[Len(s)] \o a
    <3>1. Len(s) + 1 \in 1 .. Len(s) + 1 /\ Len(s) + 1 # 1 /\ (Len(s) + 1) - 1 = Len(s)
      BY <1>1, <1>5
    <3> QED BY <1>1, <1>3, <3>1
  <2> QED BY <1>2, <2>1, <2>3, <2>4, <2>5
<1> QED BY <1>4, <1>5

(* Joining does not depend on the order it is done in.                     *)
LEMMA Asociativa ==
  ASSUME NEW S, NEW x \in Seq(S), NEW y \in Seq(S), NEW z \in Seq(S)
  PROVE  (x \o y) \o z = x \o (y \o z)
<1> DEFINE l == (x \o y) \o z
           r == x \o (y \o z)
<1>1. l \in Seq(S) /\ r \in Seq(S) /\ Len(l) = Len(r)
      /\ Len(l) = Len(x) + Len(y) + Len(z)
  OBVIOUS
<1>2. ASSUME NEW i \in 1 .. Len(l) PROVE l[i] = r[i]
  <2>1. /\ x \o y \in Seq(S) /\ Len(x \o y) = Len(x) + Len(y)
        /\ y \o z \in Seq(S) /\ Len(y \o z) = Len(y) + Len(z)
        /\ Len(x) \in Nat /\ Len(y) \in Nat /\ Len(z) \in Nat
    OBVIOUS
  <2>2. CASE i <= Len(x)
    BY <1>1, <2>1, <2>2
  <2>3. CASE i > Len(x) /\ i <= Len(x) + Len(y)
    BY <1>1, <2>1, <2>3
  <2>4. CASE i > Len(x) + Len(y)
    BY <1>1, <2>1, <2>4
  <2> QED BY <1>1, <2>1, <2>2, <2>3, <2>4
<1> HIDE DEF l, r
<1>3. l = r
  BY <1>1, <1>2, SeqEqual
<1> QED BY <1>3 DEF l, r

(* The same, for three sequences of the same kind given as one fact.       *)
TresListas(S, x, y, z) == x \in Seq(S) /\ y \in Seq(S) /\ z \in Seq(S)
(* Where the parentheses are does not matter.                              *)
SeAsocian(x, y, z) == (x \o y) \o z = x \o (y \o z)
(* It does not, for sequences.                                             *)
LEMMA Asociadas ==
  ASSUME NEW S, NEW x, NEW y, NEW z, TresListas(S, x, y, z)
  PROVE  SeAsocian(x, y, z)
<1>1. x \in Seq(S) /\ y \in Seq(S) /\ z \in Seq(S)
  BY DEF TresListas
<1>2. (x \o y) \o z = x \o (y \o z)
  BY <1>1, Asociativa
<1> QED BY <1>2 DEF SeAsocian

(* And the sequences of one list after those of another.                   *)
LEMMA AplanarUnidas ==
  ASSUME NEW S, NEW s \in Listas(S), NEW t \in Listas(S)
  PROVE  FlattenSeq(s \o t) = FlattenSeq(s) \o FlattenSeq(t)
<1> DEFINE T == Listas(S)
           B == {n \in Nat : \A u \in T : Len(u) = n =>
                               FlattenSeq(s \o u) = FlattenSeq(s) \o FlattenSeq(u)}
<1>1. \A u \in T : FlattenSeq(u) \in Seq(S)
  BY AplanarTipo
<1>2. 0 \in B
  <2> SUFFICES ASSUME NEW u \in T, Len(u) = 0
               PROVE  FlattenSeq(s \o u) = FlattenSeq(s) \o FlattenSeq(u)
    OBVIOUS
  <2>1. u = <<>> /\ s \o u = s
    BY DEF Listas
  <2>2. FlattenSeq(s) \o <<>> = FlattenSeq(s)
    BY <1>1
  <2>3. FlattenSeq(<<>>) = <<>>
    BY AplanarVacia
  <2> QED BY <2>1, <2>2, <2>3
<1>3. ASSUME NEW n \in Nat, n \in B PROVE n + 1 \in B
  <2> SUFFICES ASSUME NEW u \in T, Len(u) = n + 1
               PROVE  FlattenSeq(s \o u) = FlattenSeq(s) \o FlattenSeq(u)
    OBVIOUS
  <2>1. PICK v \in T, a \in Seq(S) : u = Append(v, a) /\ Len(v) = n
    <3> DEFINE v == [i \in 1 .. n |-> u[i]]
    <3>1. v \in T /\ Len(v) = n /\ u[n + 1] \in Seq(S)
      BY DEF Listas
    <3>2. u = Append(v, u[n + 1])
      <4>1. Append(v, u[n + 1]) \in T /\ Len(Append(v, u[n + 1])) = n + 1
        BY <3>1 DEF Listas
      <4>2. \A i \in 1 .. n + 1 : Append(v, u[n + 1])[i] = u[i]
        BY <3>1 DEF Listas
      <4> HIDE DEF v
      <4> QED BY <4>1, <4>2, SeqEqual DEF Listas
    <3> HIDE DEF v
    <3> QED BY <3>1, <3>2
  <2>2. Agrega(s \o u, s \o v, a) /\ s \o v \in T /\ Agrega(u, v, a)
    BY <2>1 DEF Listas, Agrega
  <2>3. FlattenSeq(s \o v) = FlattenSeq(s) \o FlattenSeq(v)
    BY <1>3, <2>1
  <2>4. FlattenSeq(s \o u) = (FlattenSeq(s) \o FlattenSeq(v)) \o a
    <3> DEFINE antes == s \o v
               todo == s \o u
    <3>1. Agrega(todo, antes, a) /\ antes \in Listas(S)
      BY <2>2
    <3> HIDE DEF antes, todo
    <3>2. FlattenSeq(todo) = FlattenSeq(antes) \o a
      BY <3>1, AplanarAgregar
    <3> QED BY <2>3, <3>2 DEF antes, todo
  <2>5. FlattenSeq(u) = FlattenSeq(v) \o a
    BY <2>2, AplanarAgregar
  <2>6. FlattenSeq(s) \in Seq(S) /\ FlattenSeq(v) \in Seq(S)
    BY <1>1
  <2> DEFINE x == FlattenSeq(s)
             y == FlattenSeq(v)
  <2>7. x \in Seq(S) /\ y \in Seq(S)
    BY <2>6
  <2> HIDE DEF x, y
  <2>8. (x \o y) \o a = x \o (y \o a)
    BY <2>7, Asociativa
  <2> QED BY <2>4, <2>5, <2>8 DEF x, y
<1>4. \A n \in Nat : n \in B
  <2> HIDE DEF B
  <2> QED BY <1>2, <1>3, InduccionNat
<1>5. Len(t) \in Nat
  OBVIOUS
<1> QED BY <1>4, <1>5

-----------------------------------------------------------------------------

(***************************************************************************)
(* The words of many instructions, one behind the other.                   *)
(***************************************************************************)
EnviadaCadaUna(s) == [k \in DOMAIN s |-> EnviarInstruccion(s[k])]
Enviadas(s) == FlattenSeq(EnviadaCadaUna(s))

(* An instruction is sent as one to three words, all integers.             *)
LEMMA EnviarTipo ==
  ASSUME NEW ins \in Instrucciones
  PROVE  EnviarInstruccion(ins) \in Seq(Int) /\ EnviarInstruccion(ins) # <<>>
<1> USE DEF NO_OP, I_O, READ, WRITE, COPY, EXIT, FIN
<1>1. CASE \E tipo \in {NO_OP, EXIT} : ins = Instruccion(tipo, 0, 0)
  BY <1>1 DEF Instruccion, EnviarInstruccion
<1>2. CASE \E tipo \in {I_O, READ}, a \in Int : ins = Instruccion(tipo, a, 0)
  BY <1>2 DEF Instruccion, EnviarInstruccion
<1>3. CASE \E tipo \in {WRITE, COPY}, a \in Int, b \in Int : ins = Instruccion(tipo, a, b)
  BY <1>3 DEF Instruccion, EnviarInstruccion
<1> QED
  BY <1>1, <1>2, <1>3 DEF Instrucciones

(* The words of each, as a list.                                           *)
LEMMA EnviadaCadaUnaTipo ==
  ASSUME NEW s \in Seq(Instrucciones)
  PROVE  EnviadaCadaUna(s) \in Listas(Int)
<1>1. \A k \in 1 .. Len(s) : EnviarInstruccion(s[k]) \in Seq(Int)
  BY EnviarTipo
<1>2. DOMAIN s = 1 .. Len(s) /\ Len(s) \in Nat
  OBVIOUS
<1> QED
  BY <1>1, <1>2, IsASeq DEF EnviadaCadaUna, Listas

(* They are integers.                                                      *)
LEMMA EnviadasTipo ==
  ASSUME NEW s \in Seq(Instrucciones)
  PROVE  Enviadas(s) \in Seq(Int)
  BY EnviadaCadaUnaTipo, AplanarTipo DEF Enviadas

(* Two lists of sequences joined.                                          *)
LEMMA ListasUnidas ==
  ASSUME NEW S, NEW a \in Listas(S), NEW b \in Listas(S)
  PROVE  /\ a \o b \in Listas(S)
         /\ Len(a \o b) = Len(a) + Len(b)
         /\ \A k \in 1 .. Len(a) : (a \o b)[k] = a[k]
         /\ \A k \in 1 .. Len(b) : (a \o b)[Len(a) + k] = b[k]
<1> DEFINE T == Seq(S)
<1>1. a \in Seq(T) /\ b \in Seq(T)
  BY DEF Listas
<1> HIDE DEF T
<1>2. /\ a \o b \in Seq(T)
      /\ Len(a \o b) = Len(a) + Len(b)
      /\ \A k \in 1 .. Len(a) : (a \o b)[k] = a[k]
      /\ \A k \in 1 .. Len(b) : (a \o b)[Len(a) + k] = b[k]
  BY <1>1, Unidas
<1> QED BY <1>2 DEF T, Listas

(* What is sent in two parts is what is sent at once.                      *)
LEMMA EnviadasUnidas ==
  ASSUME NEW s \in Seq(Instrucciones), NEW t \in Seq(Instrucciones)
  PROVE  Enviadas(s \o t) = Enviadas(s) \o Enviadas(t)
<1> DEFINE a == EnviadaCadaUna(s)
           b == EnviadaCadaUna(t)
           u == EnviadaCadaUna(s \o t)
<1>1. a \in Listas(Int) /\ b \in Listas(Int)
  BY EnviadaCadaUnaTipo
<1>2. s \o t \in Seq(Instrucciones) /\ Len(s \o t) = Len(s) + Len(t)
      /\ Len(s) \in Nat /\ Len(t) \in Nat
  OBVIOUS
<1>3. u \in Listas(Int)
  BY <1>2, EnviadaCadaUnaTipo
<1>4. /\ Len(a) = Len(s) /\ \A k \in 1 .. Len(s) : a[k] = EnviarInstruccion(s[k])
      /\ Len(b) = Len(t) /\ \A k \in 1 .. Len(t) : b[k] = EnviarInstruccion(t[k])
      /\ Len(u) = Len(s \o t)
      /\ \A k \in 1 .. Len(s \o t) : u[k] = EnviarInstruccion((s \o t)[k])
  BY <1>2 DEF EnviadaCadaUna
<1> HIDE DEF a, b, u
<1>5. u = a \o b
  <2>1. a \o b \in Listas(Int) /\ Len(a \o b) = Len(u)
    <3>1. Len(a) = Len(s) /\ Len(b) = Len(t) /\ Len(u) = Len(s \o t)
      BY <1>4
    <3>2. a \o b \in Listas(Int) /\ Len(a \o b) = Len(a) + Len(b)
      BY <1>1, ListasUnidas
    <3> QED BY <1>2, <3>1, <3>2
  <2>2. ASSUME NEW k \in 1 .. Len(u) PROVE u[k] = (a \o b)[k]
    <3>1. CASE k <= Len(s)
      <4>1. k \in 1 .. Len(s)
        BY <1>2, <1>4, <3>1
      <4>2. (s \o t)[k] = s[k]
        BY <4>1
      <4>3. (a \o b)[k] = a[k]
        BY <1>1, <1>4, <4>1, ListasUnidas
      <4> QED BY <1>4, <4>1, <4>2, <4>3
    <3>2. CASE ~(k <= Len(s))
      <4>1. k - Len(s) \in 1 .. Len(t) /\ k = Len(s) + (k - Len(s))
        BY <1>2, <1>4, <3>2
      <4>2. (s \o t)[k] = t[k - Len(s)]
        BY <4>1
      <4>3. (a \o b)[k] = b[k - Len(s)]
        BY <1>1, <1>4, <4>1, ListasUnidas
      <4> QED BY <1>4, <4>1, <4>2, <4>3
    <3> QED BY <3>1, <3>2
  <2>3. u \in Seq(Seq(Int)) /\ a \o b \in Seq(Seq(Int))
    BY <1>3, <2>1 DEF Listas
  <2> QED BY <2>1, <2>2, <2>3, SeqEqual
<1>6. FlattenSeq(a \o b) = FlattenSeq(a) \o FlattenSeq(b)
  BY <1>1, AplanarUnidas
<1> QED BY <1>5, <1>6 DEF Enviadas, a, b, u

(* One instruction alone.                                                  *)
LEMMA EnviadaUna ==
  ASSUME NEW ins \in Instrucciones
  PROVE  Enviadas(<<ins>>) = EnviarInstruccion(ins)
<1> DEFINE e == EnviarInstruccion(ins)
           nada == EnviadaCadaUna(<<>>)
           uno == EnviadaCadaUna(<<ins>>)
<1>1. e \in Seq(Int)
  BY EnviarTipo
<1>2. uno = [k \in 1 .. 1 |-> e]
  BY DEF EnviadaCadaUna
<1> HIDE DEF e, uno
<1>3. Agrega(uno, <<>>, e)
  BY <1>2 DEF Agrega
<1>4. <<>> \in Listas(Int)
  BY DEF Listas
<1>5. FlattenSeq(uno) = FlattenSeq(<<>>) \o e
  <2> DEFINE v == <<>>
  <2>1. v \in Listas(Int) /\ Agrega(uno, v, e)
    BY <1>3, <1>4
  <2> HIDE DEF v
  <2>2. FlattenSeq(uno) = FlattenSeq(v) \o e
    BY <1>1, <2>1, AplanarAgregar
  <2> QED BY <2>2 DEF v
<1>6. FlattenSeq(uno) = e
  BY <1>1, <1>5, AplanarVacia
<1> QED BY <1>6 DEF uno, e, Enviadas

(* Nothing is sent for no instructions.                                    *)
LEMMA EnviadasNada == Enviadas(<<>>) = <<>>
<1>1. EnviadaCadaUna(<<>>) = <<>>
  BY DEF EnviadaCadaUna
<1> QED BY <1>1, AplanarVacia DEF Enviadas

(* The first of three sequences joined, and what is behind it.             *)
TresPartes(S, w, e, r, cola) ==
  /\ e \in Seq(S) /\ r \in Seq(S) /\ cola \in Seq(S)
  /\ w = (e \o r) \o cola /\ e # <<>>
EmpiezaPor(w, e, q) ==
  /\ w # <<>> /\ Head(w) = Head(e)
  /\ Len(e) <= Len(w)
  /\ SubSeq(w, 1, Len(e)) = e
  /\ Desde(w, Len(e) + 1) = q
(* The first of the three is read from the front and the others are behind *)
(* it.                                                                     *)
LEMMA PrimeraDeTres ==
  ASSUME NEW S, NEW e, NEW r, NEW cola, NEW w, TresPartes(S, w, e, r, cola)
  PROVE  EmpiezaPor(w, e, r \o cola)
<1>0. /\ e \in Seq(S) /\ r \in Seq(S) /\ cola \in Seq(S)
      /\ w = (e \o r) \o cola /\ e # <<>>
  BY DEF TresPartes
<1> DEFINE nada == <<>>
           q == r \o cola
<1>1. (e \o r) \o cola = e \o q
  <2>1. TresListas(S, e, r, cola)
    BY <1>0, Zenon DEF TresListas
  <2>2. SeAsocian(e, r, cola)
    BY <2>1, Asociadas, Zenon
  <2> QED BY <2>2, Zenon DEF SeAsocian
<1>2. nada \in Seq(S) /\ nada \o e = e /\ Len(nada) = 0 /\ q \in Seq(S)
  BY <1>0
<1>3. w = (nada \o e) \o q
  BY <1>0, <1>1, <1>2
<1>4. Len(e) \in Nat /\ Len(e) # 0 /\ Head(e) = e[1]
  BY <1>0
<1> HIDE DEF nada, q
<1>5. /\ Len(w) = Len(nada) + Len(e) + Len(q)
      /\ SubSeq(w, Len(nada) + 1, Len(nada) + Len(e)) = e
      /\ SubSeq(w, Len(nada) + Len(e) + 1, Len(nada) + Len(e) + Len(q)) = q
  BY <1>0, <1>2, <1>3, EnMedio
<1>6. Len(q) \in Nat
  BY <1>2
<1>7. Len(nada) + Len(e) = Len(e) /\ Len(nada) + 1 = 1 /\ Len(w) = Len(e) + Len(q)
  BY <1>2, <1>4, <1>5, <1>6
<1>8. SubSeq(w, 1, Len(e)) = e /\ SubSeq(w, Len(e) + 1, Len(w)) = q
  BY <1>5, <1>7
<1>9. w \in Seq(S) /\ w[1] = e[1]
  <2>1. e \o q \in Seq(S) /\ (e \o q)[1] = e[1]
    BY <1>0, <1>2, <1>4
  <2> QED BY <1>0, <1>1, <2>1
<1>10. w # <<>> /\ Head(w) = w[1] /\ Len(e) <= Len(w)
  BY <1>4, <1>6, <1>7, <1>9
<1> QED BY <1>4, <1>8, <1>9, <1>10 DEF Desde, q, EmpiezaPor

(* The handler finds at the head of the socket the first instruction that  *)
(* it has not read, and reading it leaves the others.                      *)
LEMMA PrimeraEnviada ==
  ASSUME NEW s \in Seq(Instrucciones), s # <<>>, NEW cola \in Seq(Int),
         NEW w, w = Enviadas(s) \o cola
  PROVE  LET n == PalabrasDe(Head(w))
         IN  /\ w # <<>> /\ Head(w) # FIN
             /\ n <= Len(w)
             /\ LeerInstruccion(SubSeq(w, 1, n)) = Head(s)
             /\ Desde(w, n + 1) = Enviadas(Tail(s)) \o cola
<1> DEFINE ins == Head(s)
           e == EnviarInstruccion(ins)
           r == Enviadas(Tail(s))
<1>1. ins \in Instrucciones /\ Tail(s) \in Seq(Instrucciones) /\ s = <<ins>> \o Tail(s)
  OBVIOUS
<1>2. e \in Seq(Int) /\ e # <<>>
  BY <1>1, EnviarTipo
<1>3. r \in Seq(Int)
  BY <1>1, EnviadasTipo
<1>4. Enviadas(s) = e \o r
  <2>1. <<ins>> \in Seq(Instrucciones)
    BY <1>1
  <2>2. Enviadas(<<ins>> \o Tail(s)) = Enviadas(<<ins>>) \o r
    BY <1>1, <2>1, EnviadasUnidas
  <2> QED BY <1>1, <2>2, EnviadaUna
<1>5. Len(e) = PalabrasDe(Head(e)) /\ LeerInstruccion(e) = ins /\ Head(e) # FIN
  BY <1>1, InstruccionLeida
<1> HIDE DEF ins, e, r
<1>6. w = (e \o r) \o cola
  BY <1>4
<1>7. TresPartes(Int, w, e, r, cola)
  BY <1>2, <1>3, <1>6 DEF TresPartes
<1>8. EmpiezaPor(w, e, r \o cola)
  BY <1>7, PrimeraDeTres
<1> QED BY <1>5, <1>8 DEF ins, r, EmpiezaPor

-----------------------------------------------------------------------------
(***************************************************************************)
(* The messages with a pcb behind their first words.                       *)
(***************************************************************************)

(* The words of a pcb.                                                     *)
LEMMA SerializarTipo ==
  ASSUME NEW I, NEW p \in Pcbs(I), NEW Palabra, I \subseteq Palabra, Int \subseteq Palabra
  PROVE  /\ SerializarPcb(p) \in Seq(Palabra)
         /\ Len(SerializarPcb(p)) = 7 + Len(p.instrucciones)
         /\ SerializarPcb(p)[7] = Len(p.instrucciones)
         /\ Len(p.instrucciones) \in Nat
<1> DEFINE ins == p.instrucciones
           cabeza == <<p.id, p.tam_proceso, p.pc, p.rafaga, p.estimacion_anterior,
                       p.tabla_paginas, Len(ins)>>
<1>1. ins \in Seq(I) /\ ins \in Seq(Palabra) /\ Len(ins) \in Nat
  BY DEF Pcbs
<1>2. cabeza \in Seq(Palabra) /\ Len(cabeza) = 7 /\ cabeza[7] = Len(ins)
  BY <1>1 DEF Pcbs
<1>3. SerializarPcb(p) = cabeza \o ins
  BY DEF SerializarPcb
<1> HIDE DEF cabeza, ins
<1>4. /\ cabeza \o ins \in Seq(Palabra)
      /\ Len(cabeza \o ins) = Len(cabeza) + Len(ins)
      /\ \A k \in 1 .. Len(cabeza) : (cabeza \o ins)[k] = cabeza[k]
  <2>1. cabeza \in Seq(Palabra) /\ ins \in Seq(Palabra)
    BY <1>1, <1>2
  <2> QED BY <2>1, Unidas, Zenon
<1>5. 7 \in 1 .. Len(cabeza)
  BY <1>2
<1> QED BY <1>1, <1>2, <1>3, <1>4, <1>5 DEF ins

(* Behind n words, a pcb and nothing else.                                 *)
ConPcb(I, w, cab, p) ==
  p \in Pcbs(I) /\ cab \in Seq(Int) /\ w = cab \o SerializarPcb(p)
LeidoConPcb(I, w, cab, p) ==
  /\ Desde(w, Len(cab) + 1) = SerializarPcb(p)
  /\ TrasPcb(w, Len(cab)) = <<>>
  /\ \A k \in 1 .. Len(cab) : w[k] = cab[k]
  /\ w \in Seq(Int \union I) /\ w # <<>>
(* The pcb is found behind the words of the header, which are unchanged.   *)
LEMMA TrasCabecera ==
  ASSUME NEW I, NEW p, NEW cab, NEW w, ConPcb(I, w, cab, p)
  PROVE  LeidoConPcb(I, w, cab, p)
<1> DEFINE Palabra == Int \union I
           s == SerializarPcb(p)
           n == Len(p.instrucciones)
           m == Len(cab)
<1>0. p \in Pcbs(I) /\ cab \in Seq(Int) /\ w = cab \o SerializarPcb(p)
  BY DEF ConPcb
<1>1. I \subseteq Palabra /\ Int \subseteq Palabra
  OBVIOUS
<1>2. cab \in Seq(Palabra) /\ m \in Nat
  BY <1>0
<1> HIDE DEF Palabra, m
<1>3. s \in Seq(Palabra) /\ Len(s) = 7 + n /\ s[7] = n /\ n \in Nat
  BY <1>0, <1>1, SerializarTipo
<1>4. w = cab \o s
  BY <1>0
<1> HIDE DEF s, n
<1>5. /\ w \in Seq(Palabra) /\ Len(w) = m + Len(s)
      /\ \A k \in 1 .. m : w[k] = cab[k]
      /\ \A k \in 1 .. Len(s) : w[m + k] = s[k]
  <2>1. /\ cab \o s \in Seq(Palabra) /\ Len(cab \o s) = Len(cab) + Len(s)
        /\ \A k \in 1 .. Len(cab) : (cab \o s)[k] = cab[k]
        /\ \A k \in 1 .. Len(s) : (cab \o s)[Len(cab) + k] = s[k]
    <3>1. cab \in Seq(Palabra) /\ s \in Seq(Palabra)
      BY <1>2, <1>3
    <3> QED BY <3>1, Unidas
  <2>2. Len(w) = Len(cab) + Len(s) /\ w \in Seq(Palabra)
    BY <1>4, <2>1
  <2>3. m = Len(cab)
    BY DEF m
  <2> QED BY <1>4, <2>1, <2>2, <2>3
<1>6. SubSeq(w, m + 1, Len(w)) = s
  <2>1. SubSeq(w, m + 1, m + Len(s)) = s
    <3>1. m + Len(s) <= Len(w)
      BY <1>2, <1>3, <1>5
    <3> QED BY <1>2, <1>3, <1>5, <3>1, Parte
  <2> QED BY <1>5, <2>1
<1>7. w[m + 7] = n
  <2>1. 7 \in 1 .. Len(s)
    BY <1>3
  <2> QED BY <1>3, <1>5, <2>1
<1>8. SubSeq(w, m + 8 + n, Len(w)) = <<>>
  <2>1. m + 8 + n > Len(w) /\ m + 8 + n \in Int /\ Len(w) \in Int
    BY <1>2, <1>3, <1>5
  <2> QED BY <1>5, <2>1
<1>9. Len(w) # 0
  BY <1>2, <1>3, <1>5
<1>10. w # <<>>
  BY <1>9
<1> QED BY <1>5, <1>6, <1>7, <1>8, <1>10 DEF Desde, TrasPcb, m, s, Palabra, LeidoConPcb

(* A pcb with nothing behind it.                                           *)
LEMMA PcbSolo ==
  ASSUME NEW I, NEW p \in Pcbs(I)
  PROVE  LeerPcb(SerializarPcb(p)) = p
<1> DEFINE Palabra == Int \union I
           nada == <<>>
<1>1. I \subseteq Palabra /\ Int \subseteq Palabra /\ nada \in Seq(Palabra)
  OBVIOUS
<1> HIDE DEF Palabra
<1>2. SerializarPcb(p) \in Seq(Palabra)
  BY <1>1, SerializarTipo
<1>3. SerializarPcb(p) \o nada = SerializarPcb(p)
  BY <1>2
<1> HIDE DEF nada
<1>4. LeerPcb(SerializarPcb(p) \o nada) = p
  BY <1>1, PcbLeido
<1> QED BY <1>3, <1>4

(* EJECUTAR, as the CPU receives it.                                       *)
LEMMA EjecutarLeido ==
  ASSUME NEW I, NEW p \in Pcbs(I), NEW w, w = MensajeEjecutar(p)
  PROVE  /\ w # <<>> /\ Head(w) = EJECUTAR
         /\ LeerPcb(Tail(w)) = p
         /\ TrasPcb(w, 1) = <<>>
         /\ w \in Seq(Int \union I)
<1> DEFINE cab == <<EJECUTAR>>
<1>1. cab \in Seq(Int) /\ Len(cab) = 1 /\ cab[1] = EJECUTAR
  BY DEF EJECUTAR
<1>2. ConPcb(I, w, cab, p)
  BY <1>1 DEF ConPcb, MensajeEjecutar
<1> HIDE DEF cab
<1>3. /\ Desde(w, Len(cab) + 1) = SerializarPcb(p)
      /\ TrasPcb(w, Len(cab)) = <<>>
      /\ \A k \in 1 .. Len(cab) : w[k] = cab[k]
      /\ w \in Seq(Int \union I) /\ w # <<>>
  <2>1. LeidoConPcb(I, w, cab, p)
    BY <1>2, TrasCabecera
  <2> QED BY <2>1 DEF LeidoConPcb
<1>4. Desde(w, 2) = SerializarPcb(p) /\ TrasPcb(w, 1) = <<>>
  BY <1>1, <1>3
<1>5. w[1] = EJECUTAR
  BY <1>1, <1>3
<1>6. Head(w) = w[1] /\ Tail(w) = Desde(w, 2)
  BY <1>3 DEF Desde
<1> QED BY <1>3, <1>4, <1>5, <1>6, PcbSolo

(* PASAR_A_BLOQUEADO, as the kernel receives it.                           *)
EsBloqueo(I, w, p, t, b) ==
  p \in Pcbs(I) /\ t \in Int /\ b \in Int /\ w = MensajeBloqueo(p, t, b)
BloqueoEntero(I, w, p, b) ==
  /\ w # <<>> /\ Head(w) = PASAR_A_BLOQUEADO /\ w[3] = b
  /\ LeerPcb(Desde(w, 4)) = p
  /\ TrasPcb(w, 3) = <<>>
  /\ w \in Seq(Int \union I)
(* The kernel reads the pcb and the burst that were sent.                  *)
LEMMA BloqueoLeido ==
  ASSUME NEW I, NEW p, NEW t, NEW b, NEW w, EsBloqueo(I, w, p, t, b)
  PROVE  BloqueoEntero(I, w, p, b)
<1> USE DEF EsBloqueo
<1> DEFINE cab == <<PASAR_A_BLOQUEADO, t, b>>
<1>1. cab \in Seq(Int) /\ Len(cab) = 3 /\ cab[1] = PASAR_A_BLOQUEADO /\ cab[3] = b
  BY DEF PASAR_A_BLOQUEADO
<1>2. ConPcb(I, w, cab, p)
  BY <1>1 DEF ConPcb, MensajeBloqueo
<1> HIDE DEF cab
<1>3. /\ Desde(w, Len(cab) + 1) = SerializarPcb(p)
      /\ TrasPcb(w, Len(cab)) = <<>>
      /\ \A k \in 1 .. Len(cab) : w[k] = cab[k]
      /\ w \in Seq(Int \union I) /\ w # <<>>
  <2>1. LeidoConPcb(I, w, cab, p)
    BY <1>2, TrasCabecera
  <2> QED BY <2>1 DEF LeidoConPcb
<1>4. Desde(w, 4) = SerializarPcb(p) /\ TrasPcb(w, 3) = <<>>
  BY <1>1, <1>3
<1>5. w[1] = PASAR_A_BLOQUEADO /\ w[3] = b
  BY <1>1, <1>3
<1>6. Head(w) = w[1]
  BY <1>3
<1> QED BY <1>3, <1>4, <1>5, <1>6, PcbSolo DEF BloqueoEntero

(* PASAR_A_READY, as the kernel receives it.                               *)
LEMMA InterrupcionLeida ==
  ASSUME NEW I, NEW p \in Pcbs(I), NEW r \in Int,
         NEW w, w = MensajeInterrupcion(p, r)
  PROVE  /\ w # <<>> /\ Head(w) = PASAR_A_READY /\ w[2] = r
         /\ LeerPcb(Desde(w, 3)) = p
         /\ TrasPcb(w, 2) = <<>>
         /\ w \in Seq(Int \union I)
<1> DEFINE cab == <<PASAR_A_READY, r>>
<1>1. cab \in Seq(Int) /\ Len(cab) = 2 /\ cab[1] = PASAR_A_READY /\ cab[2] = r
  BY DEF PASAR_A_READY
<1>2. ConPcb(I, w, cab, p)
  BY <1>1 DEF ConPcb, MensajeInterrupcion
<1> HIDE DEF cab
<1>3. /\ Desde(w, Len(cab) + 1) = SerializarPcb(p)
      /\ TrasPcb(w, Len(cab)) = <<>>
      /\ \A k \in 1 .. Len(cab) : w[k] = cab[k]
      /\ w \in Seq(Int \union I) /\ w # <<>>
  <2>1. LeidoConPcb(I, w, cab, p)
    BY <1>2, TrasCabecera
  <2> QED BY <2>1 DEF LeidoConPcb
<1>4. Desde(w, 3) = SerializarPcb(p) /\ TrasPcb(w, 2) = <<>>
  BY <1>1, <1>3
<1>5. w[1] = PASAR_A_READY /\ w[2] = r
  BY <1>1, <1>3
<1>6. Head(w) = w[1]
  BY <1>3
<1> QED BY <1>3, <1>4, <1>5, <1>6, PcbSolo

-----------------------------------------------------------------------------
(***************************************************************************)
(* What the parser makes of the lines of a file.                           *)
(***************************************************************************)
DeCadaLinea(a, n) == [k \in 1 .. n |-> InstruccionesDe(a[k])]
Hasta(a, n) == FlattenSeq(DeCadaLinea(a, n))

(* Every instruction but EXIT.                                             *)
SinExit == {ins \in Instrucciones : ins.tipo # EXIT}

(* The same instruction many times.                                        *)
LEMMA Repetida ==
  ASSUME NEW S, NEW x \in S, NEW n \in Nat
  PROVE  [k \in 1 .. n |-> x] \o <<x>> \in Seq(S)
  OBVIOUS

(* A line is sent as instructions, and only EXIT as one that is EXIT.      *)
LEMMA LineaTipo ==
  ASSUME NEW linea \in Lineas
  PROVE  /\ linea.palabra # "EXIT" => InstruccionesDe(linea) \in Seq(SinExit)
         /\ linea.palabra = "EXIT" => InstruccionesDe(linea) = <<Instruccion(EXIT, 0, 0)>>
<1> USE DEF NO_OP, I_O, READ, WRITE, COPY, EXIT
<1> DEFINE n == linea.numeros
<1>1. CASE linea.palabra = "NO_OP"
  <2>1. Repetidas(n[1]) \in Nat
    BY <1>1 DEF Lineas, Repetidas
  <2>2. Instruccion(NO_OP, 0, 0) \in SinExit
    BY DEF SinExit, Instrucciones, Instruccion
  <2>3. InstruccionesDe(linea)
          = [k \in 1 .. Repetidas(n[1]) |-> Instruccion(NO_OP, 0, 0)]
              \o <<Instruccion(NO_OP, 0, 0)>>
    <3>1. TipoDe(linea.palabra) = NO_OP
      BY <1>1 DEF TipoDe
    <3> DEFINE tipo == TipoDe(linea.palabra)
               s == [k \in 1 .. Repetidas(n[1]) |-> Instruccion(NO_OP, 0, 0)]
                      \o <<Instruccion(NO_OP, 0, 0)>>
    <3>2. InstruccionesDe(linea)
            = CASE tipo = NO_OP -> s
                [] tipo \in {I_O, READ} -> <<Instruccion(tipo, n[1], 0)>>
                [] tipo \in {WRITE, COPY} -> <<Instruccion(tipo, n[1], n[2])>>
                [] tipo = EXIT -> <<Instruccion(EXIT, 0, 0)>>
      BY DEF InstruccionesDe
    <3> HIDE DEF s, tipo
    <3>3. InstruccionesDe(linea) = s
      BY <3>1, <3>2 DEF tipo
    <3> QED BY <3>3 DEF s
  <2> DEFINE x == Instruccion(NO_OP, 0, 0)
             m == Repetidas(n[1])
  <2>4. x \in SinExit /\ m \in Nat /\ InstruccionesDe(linea) = [k \in 1 .. m |-> x] \o <<x>>
    BY <2>1, <2>2, <2>3
  <2> HIDE DEF x, m
  <2>5. [k \in 1 .. m |-> x] \o <<x>> \in Seq(SinExit)
    BY <2>4, Repetida
  <2> QED BY <1>1, <2>4, <2>5
<1>2. CASE linea.palabra \in {"I/O", "READ"}
  <2>1. PICK tipo \in {I_O, READ} : TipoDe(linea.palabra) = tipo
    BY <1>2 DEF TipoDe
  <2>2. n[1] \in Int
    BY <1>2 DEF Lineas
  <2>3. Instruccion(tipo, n[1], 0) \in SinExit
    <3>1. Instruccion(tipo, n[1], 0) \in Instrucciones
      BY <2>2 DEF Instrucciones
    <3>2. Instruccion(tipo, n[1], 0).tipo # EXIT
      BY DEF Instruccion
    <3> QED BY <3>1, <3>2 DEF SinExit
  <2>4. InstruccionesDe(linea) = <<Instruccion(tipo, n[1], 0)>>
    BY <2>1 DEF InstruccionesDe
  <2> QED BY <1>2, <2>3, <2>4
<1>3. CASE linea.palabra \in {"WRITE", "COPY"}
  <2>1. PICK tipo \in {WRITE, COPY} : TipoDe(linea.palabra) = tipo
    BY <1>3 DEF TipoDe
  <2>2. n[1] \in Int /\ n[2] \in Int
    BY <1>3 DEF Lineas
  <2>3. Instruccion(tipo, n[1], n[2]) \in SinExit
    <3>1. Instruccion(tipo, n[1], n[2]) \in Instrucciones
      BY <2>2 DEF Instrucciones
    <3>2. Instruccion(tipo, n[1], n[2]).tipo # EXIT
      BY DEF Instruccion
    <3> QED BY <3>1, <3>2 DEF SinExit
  <2>4. InstruccionesDe(linea) = <<Instruccion(tipo, n[1], n[2])>>
    BY <2>1 DEF InstruccionesDe
  <2> QED BY <1>3, <2>3, <2>4
<1>4. CASE linea.palabra = "EXIT"
  BY <1>4 DEF InstruccionesDe, TipoDe
<1>5. linea.palabra \in {"NO_OP", "I/O", "READ", "WRITE", "COPY", "EXIT"}
  BY DEF Lineas
<1> QED BY <1>1, <1>2, <1>3, <1>4, <1>5

(* The instructions of the lines before a line are sequences.              *)
LEMMA HastaTipo ==
  ASSUME NEW S, NEW a, NEW n \in Nat, \A k \in 1 .. n : InstruccionesDe(a[k]) \in Seq(S)
  PROVE  DeCadaLinea(a, n) \in Listas(S) /\ Hasta(a, n) \in Seq(S)
<1>1. DeCadaLinea(a, n) \in Listas(S)
  BY IsASeq DEF DeCadaLinea, Listas
<1> QED BY <1>1, AplanarTipo DEF Hasta

(* Before the first line there is nothing.                                 *)
LEMMA HastaNada ==
  ASSUME NEW a
  PROVE  Hasta(a, 0) = <<>>
<1>1. DeCadaLinea(a, 0) = <<>>
  BY DEF DeCadaLinea
<1> QED BY <1>1, AplanarVacia DEF Hasta

(* A line more.                                                            *)
LEMMA HastaMas ==
  ASSUME NEW S, NEW a, NEW n \in Nat, \A k \in 1 .. n + 1 : InstruccionesDe(a[k]) \in Seq(S)
  PROVE  Hasta(a, n + 1) = Hasta(a, n) \o InstruccionesDe(a[n + 1])
<1> DEFINE s == DeCadaLinea(a, n)
           t == DeCadaLinea(a, n + 1)
           i == InstruccionesDe(a[n + 1])
<1>1. s \in Listas(S)
  BY HastaTipo
<1>2. i \in Seq(S)
  OBVIOUS
<1>3. Agrega(t, s, i)
  <2>1. Append(s, i) = [k \in 1 .. n + 1 |-> IF k = n + 1 THEN i ELSE s[k]]
    BY DEF DeCadaLinea
  <2>2. \A k \in 1 .. n + 1 : k # n + 1 => k \in 1 .. n
    OBVIOUS
  <2>3. \A k \in 1 .. n + 1 : (IF k = n + 1 THEN i ELSE s[k]) = InstruccionesDe(a[k])
    BY <2>2 DEF DeCadaLinea
  <2> QED BY <2>1, <2>3 DEF Agrega, DeCadaLinea
<1> HIDE DEF s, t, i
<1>4. FlattenSeq(t) = FlattenSeq(s) \o i
  BY <1>1, <1>2, <1>3, AplanarAgregar
<1> QED BY <1>4 DEF Hasta, s, t, i

(* The instructions of a file: EXIT is the last of them, and only that.    *)
TerminaEnExit(s) ==
  s # <<>> /\ \A k \in 1 .. Len(s) : s[k].tipo = EXIT <=> k = Len(s)

(* A file has lines, each makes instructions, and none but the last makes  *)
(* EXIT.                                                                   *)
LEMMA ArchivoTipo ==
  ASSUME NEW a, EsArchivo(a)
  PROVE  /\ Len(a) \in Nat \ {0}
         /\ \A k \in 1 .. Len(a) : InstruccionesDe(a[k]) \in Seq(Instrucciones)
         /\ \A k \in 1 .. Len(a) - 1 : InstruccionesDe(a[k]) \in Seq(SinExit)
         /\ InstruccionesDe(a[Len(a)]) = <<Instruccion(EXIT, 0, 0)>>
<1>1. a \in Seq(Lineas) /\ Len(a) \in Nat /\ Len(a) # 0 /\ DOMAIN a = 1 .. Len(a)
  BY DEF EsArchivo
<1>0. Len(a) \in Nat /\ Len(a) # 0
  BY <1>1
<1>2. \A k \in 1 .. Len(a) : a[k] \in Lineas /\ (a[k].palabra = "EXIT" <=> k = Len(a))
  <2>1. \A k \in DOMAIN a : a[k].palabra = "EXIT" <=> k = Len(a)
    BY DEF EsArchivo
  <2>2. \A k \in 1 .. Len(a) : a[k] \in Lineas
    BY <1>1
  <2> QED BY <1>1, <2>1, <2>2
<1>3. ASSUME NEW k \in 1 .. Len(a) - 1 PROVE InstruccionesDe(a[k]) \in Seq(SinExit)
  <2>1. k \in 1 .. Len(a) /\ k # Len(a)
    BY <1>0
  <2>2. a[k] \in Lineas /\ a[k].palabra # "EXIT"
    BY <1>2, <2>1
  <2> QED BY <2>2, LineaTipo
<1>4. InstruccionesDe(a[Len(a)]) = <<Instruccion(EXIT, 0, 0)>>
  <2>1. Len(a) \in 1 .. Len(a)
    BY <1>0
  <2>2. a[Len(a)] \in Lineas /\ a[Len(a)].palabra = "EXIT"
    BY <1>2, <2>1
  <2> QED BY <2>2, LineaTipo
<1>5. ASSUME NEW k \in 1 .. Len(a) PROVE InstruccionesDe(a[k]) \in Seq(Instrucciones)
  <2>1. CASE k = Len(a)
    <3> DEFINE x == Instruccion(EXIT, 0, 0)
    <3>1. x \in Instrucciones
      BY DEF Instrucciones
    <3>2. InstruccionesDe(a[k]) = <<x>>
      BY <1>4, <2>1
    <3> HIDE DEF x
    <3>3. <<x>> \in Seq(Instrucciones)
      BY <3>1
    <3> QED BY <3>2, <3>3
  <2>2. CASE k # Len(a)
    <3>1. k \in 1 .. Len(a) - 1
      BY <1>0, <2>2
    <3>2. InstruccionesDe(a[k]) \in Seq(SinExit)
      BY <1>3, <3>1
    <3> QED BY <3>2 DEF SinExit
  <2> QED BY <2>1, <2>2
<1> QED BY <1>1, <1>3, <1>4, <1>5

(* A program that was read whole ends in its EXIT.                         *)
LEMMA ProgramaConExit ==
  ASSUME NEW a, EsArchivo(a)
  PROVE  Hasta(a, Len(a)) \in Seq(Instrucciones) /\ TerminaEnExit(Hasta(a, Len(a)))
<1> DEFINE n == Len(a) - 1
           s == Hasta(a, n)
           x == Instruccion(EXIT, 0, 0)
<1>1. /\ n \in Nat /\ Len(a) = n + 1
      /\ \A k \in 1 .. n + 1 : InstruccionesDe(a[k]) \in Seq(Instrucciones)
      /\ \A k \in 1 .. n : InstruccionesDe(a[k]) \in Seq(SinExit)
      /\ InstruccionesDe(a[n + 1]) = <<x>>
  BY ArchivoTipo
<1> HIDE DEF n
<1>2. Hasta(a, n + 1) = Hasta(a, n) \o <<x>>
  <2>1. Hasta(a, n + 1) = Hasta(a, n) \o InstruccionesDe(a[n + 1])
    BY <1>1, HastaMas
  <2> QED BY <1>1, <2>1
<1>3. s \in Seq(SinExit)
  BY <1>1, HastaTipo
<1>4. Hasta(a, n + 1) \in Seq(Instrucciones)
  <2>1. n + 1 \in Nat
    BY <1>1
  <2> QED BY <1>1, <2>1, HastaTipo
<1>5. x.tipo = EXIT
  BY DEF Instruccion
<1> HIDE DEF s, x
<1>6. \A k \in 1 .. Len(s) : s[k].tipo # EXIT
  BY <1>3 DEF SinExit
<1>7. TerminaEnExit(s \o <<x>>)
  <2>1. /\ Len(s \o <<x>>) = Len(s) + 1 /\ Len(s) \in Nat
        /\ \A k \in 1 .. Len(s) : (s \o <<x>>)[k] = s[k]
        /\ (s \o <<x>>)[Len(s) + 1] = x
    BY <1>3
  <2> DEFINE u == s \o <<x>>
  <2>2. \A k \in 1 .. Len(s) + 1 : k = Len(s) + 1 \/ (k \in 1 .. Len(s) /\ k # Len(s) + 1)
    BY <2>1
  <2> HIDE DEF u
  <2>3. u # <<>> /\ \A k \in 1 .. Len(u) : u[k].tipo = EXIT <=> k = Len(u)
    <3>1. Len(u) = Len(s) + 1 /\ Len(u) # 0
      BY <2>1 DEF u
    <3>2. \A k \in 1 .. Len(s) : u[k].tipo # EXIT
      BY <1>6, <2>1 DEF u
    <3>3. u[Len(s) + 1].tipo = EXIT
      BY <1>5, <2>1 DEF u
    <3>4. u # <<>>
      BY <3>1
    <3> QED BY <2>2, <3>1, <3>2, <3>3, <3>4
  <2> QED BY <2>3 DEF u, TerminaEnExit
<1> QED BY <1>1, <1>2, <1>4, <1>7 DEF s
=============================================================================
