----------------------------- MODULE Board_proofs -----------------------------
(***************************************************************************)
(* What the writes of start-up and of deblock_bus amount to, for each of   *)
(* the three I2C units and either layout of struct Nvic.                   *)
(*                                                                         *)
(* First what the sequences of writes are, index by index; then that the   *)
(* board is always at the start, in the pulses of deblock_bus, or in       *)
(* peripheral_init with every write made so far still in place.  Module    *)
(* Sensors_proofs has the theorems, for the system the board is a part of. *)
(***************************************************************************)
EXTENDS Board, SequenceTheorems, TLAPS

(* The writes there are.                                                   *)
Regs == {"moder", "otyper", "pupdr", "afr", "odr", "rcc", "iser", "prio", "subprio", "aircr", "unit"}
Targets == Pins \cup {"GpioA", "GpioB", "GpioC", Periph, "prigroup", "on", "event", "error"} \cup Int
Writes == [reg : Regs, of : Targets, val : {"output", "af", "opendrain", "up", TRUE} \cup Int]

(* s is what a and b make together.                                        *)
Join(s, a, b) ==
    /\ s \in Seq(Writes) /\ Len(a) \in Nat /\ Len(b) \in Nat /\ Len(s) = Len(a) + Len(b)
    /\ \A i \in 1..Len(a) + Len(b) : s[i] = IF i <= Len(a) THEN a[i] ELSE b[i - Len(a)]

LEMMA Joined ==
    ASSUME NEW a \in Seq(Writes), NEW b \in Seq(Writes)
    PROVE  Join(a \o b, a, b)
<1>1. Len(a) \in Nat /\ Len(b) \in Nat  BY LenProperties
<1> QED BY <1>1, ConcatProperties DEF Join

LEMMA Tuples ==
    ASSUME NEW x \in Writes, NEW y \in Writes, NEW z \in Writes
    PROVE  /\ <<x>> \in Seq(Writes) /\ Len(<<x>>) = 1 /\ <<x>>[1] = x
           /\ <<x, y>> \in Seq(Writes) /\ Len(<<x, y>>) = 2
           /\ <<x, y>>[1] = x /\ <<x, y>>[2] = y
           /\ <<x, y, z>> \in Seq(Writes) /\ Len(<<x, y, z>>) = 3
           /\ <<x, y, z>>[1] = x /\ <<x, y, z>>[2] = y /\ <<x, y, z>>[3] = z
OBVIOUS

LEMMA PinWrite ==
    ASSUME NEW p \in Pins
    PROVE  /\ Set("pupdr", p, "up") \in Writes /\ Set("moder", p, "af") \in Writes
           /\ Set("moder", p, "output") \in Writes /\ Set("afr", p, 4) \in Writes
           /\ Set("otyper", p, "opendrain") \in Writes
           /\ Set("odr", p, 0) \in Writes /\ Set("odr", p, 1) \in Writes
<1> USE DEF Writes, Regs, Targets, Set
<1>1. Set("pupdr", p, "up") \in Writes  OBVIOUS
<1>2. Set("moder", p, "af") \in Writes  OBVIOUS
<1>3. Set("moder", p, "output") \in Writes  OBVIOUS
<1>4. Set("afr", p, 4) \in Writes  OBVIOUS
<1>5. Set("otyper", p, "opendrain") \in Writes  OBVIOUS
<1>6. Set("odr", p, 0) \in Writes /\ Set("odr", p, 1) \in Writes  OBVIOUS
<1> QED BY <1>1, <1>2, <1>3, <1>4, <1>5, <1>6

(* The writes of one pin, and of both.                                     *)
LEMMA SetModeIs ==
    ASSUME NEW p \in Pins
    PROVE  /\ SetMode(p, "af") \in Seq(Writes) /\ Len(SetMode(p, "af")) = 3
           /\ SetMode(p, "af")[1] = Set("moder", p, "af")
           /\ SetMode(p, "af")[2] = Set("afr", p, 4)
           /\ SetMode(p, "af")[3] = Set("otyper", p, "opendrain")
           /\ SetMode(p, "output") \in Seq(Writes) /\ Len(SetMode(p, "output")) = 2
           /\ SetMode(p, "output")[1] = Set("moder", p, "output")
           /\ SetMode(p, "output")[2] = Set("otyper", p, "opendrain")
<1> DEFINE af == SetMode(p, "af")
           output == SetMode(p, "output")
<1>1. /\ af = <<Set("moder", p, "af")>> \o <<Set("afr", p, 4)>> \o <<Set("otyper", p, "opendrain")>>
      /\ output = <<Set("moder", p, "output")>> \o <<>> \o <<Set("otyper", p, "opendrain")>>
  BY DEF SetMode
<1> HIDE DEF af, output
<1>2. af \in Seq(Writes) /\ Len(af) = 3
  BY <1>1, PinWrite, Joined
<1>3. output \in Seq(Writes) /\ Len(output) = 2
  BY <1>1, PinWrite, Joined
<1>4. /\ af[1] = Set("moder", p, "af") /\ af[2] = Set("afr", p, 4)
      /\ af[3] = Set("otyper", p, "opendrain")
  BY <1>1, PinWrite, Joined
<1>5. output[1] = Set("moder", p, "output") /\ output[2] = Set("otyper", p, "opendrain")
  BY <1>1, PinWrite, Joined
<1> QED BY <1>2, <1>3, <1>4, <1>5 DEF af, output

(* The writes that set up both pins.                                       *)
LEMMA ConfigureIs ==
    /\ Configure("af") \in Seq(Writes) /\ Len(Configure("af")) = 8
    /\ Configure("af")[1] = Set("pupdr", "SDA", "up")
    /\ Configure("af")[2] = Set("moder", "SDA", "af")
    /\ Configure("af")[3] = Set("afr", "SDA", 4)
    /\ Configure("af")[4] = Set("otyper", "SDA", "opendrain")
    /\ Configure("af")[5] = Set("pupdr", "SCL", "up")
    /\ Configure("af")[6] = Set("moder", "SCL", "af")
    /\ Configure("af")[7] = Set("afr", "SCL", 4)
    /\ Configure("af")[8] = Set("otyper", "SCL", "opendrain")
    /\ Configure("output") \in Seq(Writes) /\ Len(Configure("output")) = 6
    /\ Configure("output")[1] = Set("pupdr", "SDA", "up")
    /\ Configure("output")[2] = Set("moder", "SDA", "output")
    /\ Configure("output")[3] = Set("otyper", "SDA", "opendrain")
    /\ Configure("output")[4] = Set("pupdr", "SCL", "up")
    /\ Configure("output")[5] = Set("moder", "SCL", "output")
    /\ Configure("output")[6] = Set("otyper", "SCL", "opendrain")
<1>1. "SDA" \in Pins /\ "SCL" \in Pins
  BY DEF Pins
<1>2. ASSUME NEW mode \in {"af", "output"}
      PROVE  LET a == <<Set("pupdr", "SDA", "up")>>
                 b == SetMode("SDA", mode)
                 c == <<Set("pupdr", "SCL", "up")>>
                 d == SetMode("SCL", mode)
             IN  /\ Join(a \o b, a, b) /\ Join(a \o b \o c, a \o b, c)
                 /\ Join(Configure(mode), a \o b \o c, d)
  <2> DEFINE a == <<Set("pupdr", "SDA", "up")>>
             b == SetMode("SDA", mode)
             c == <<Set("pupdr", "SCL", "up")>>
             d == SetMode("SCL", mode)
  <2>1. Configure(mode) = a \o b \o c \o d
    BY DEF Configure
  <2>2. a \in Seq(Writes) /\ c \in Seq(Writes)
    BY <1>1, PinWrite
  <2>3. b \in Seq(Writes) /\ d \in Seq(Writes)
    BY <1>1, SetModeIs
  <2> HIDE DEF a, b, c, d
  <2>4. Join(a \o b, a, b)
    BY <2>2, <2>3, Joined
  <2>5. Join(a \o b \o c, a \o b, c)
    <3>1. a \o b \in Seq(Writes)  BY <2>4 DEF Join
    <3> QED BY <2>2, <3>1, Joined
  <2>6. Join(a \o b \o c \o d, a \o b \o c, d)
    <3>1. a \o b \o c \in Seq(Writes)  BY <2>5 DEF Join
    <3> QED BY <2>3, <3>1, Joined
  <2> QED BY <2>1, <2>4, <2>5, <2>6 DEF a, b, c, d
<1>3. ASSUME NEW a, NEW b, NEW c, NEW d, NEW s, NEW t, NEW u, Join(s, a, b), Join(t, s, c), Join(u, t, d),
             Len(a) = 1, Len(c) = 1, Len(b) = 3, Len(d) = 3
      PROVE  /\ u \in Seq(Writes) /\ Len(u) = 8 /\ u[1] = a[1] /\ u[2] = b[1] /\ u[3] = b[2]
             /\ u[4] = b[3] /\ u[5] = c[1] /\ u[6] = d[1] /\ u[7] = d[2] /\ u[8] = d[3]
  BY <1>3 DEF Join
<1>4. ASSUME NEW a, NEW b, NEW c, NEW d, NEW s, NEW t, NEW u, Join(s, a, b), Join(t, s, c), Join(u, t, d),
             Len(a) = 1, Len(c) = 1, Len(b) = 2, Len(d) = 2
      PROVE  /\ u \in Seq(Writes) /\ Len(u) = 6 /\ u[1] = a[1] /\ u[2] = b[1] /\ u[3] = b[2]
             /\ u[4] = c[1] /\ u[5] = d[1] /\ u[6] = d[2]
  BY <1>4 DEF Join
<1>5. /\ <<Set("pupdr", "SDA", "up")>>[1] = Set("pupdr", "SDA", "up")
      /\ <<Set("pupdr", "SCL", "up")>>[1] = Set("pupdr", "SCL", "up")
      /\ Len(<<Set("pupdr", "SDA", "up")>>) = 1 /\ Len(<<Set("pupdr", "SCL", "up")>>) = 1
  OBVIOUS
<1>6. /\ Configure("af") \in Seq(Writes) /\ Len(Configure("af")) = 8
      /\ Configure("af")[1] = <<Set("pupdr", "SDA", "up")>>[1]
      /\ Configure("af")[2] = SetMode("SDA", "af")[1]
      /\ Configure("af")[3] = SetMode("SDA", "af")[2]
      /\ Configure("af")[4] = SetMode("SDA", "af")[3]
      /\ Configure("af")[5] = <<Set("pupdr", "SCL", "up")>>[1]
      /\ Configure("af")[6] = SetMode("SCL", "af")[1]
      /\ Configure("af")[7] = SetMode("SCL", "af")[2]
      /\ Configure("af")[8] = SetMode("SCL", "af")[3]
  <2>1. Len(SetMode("SDA", "af")) = 3 /\ Len(SetMode("SCL", "af")) = 3
    BY <1>1, SetModeIs
  <2> QED BY <1>2, <1>3, <1>5, <2>1
<1>7. /\ Configure("output") \in Seq(Writes) /\ Len(Configure("output")) = 6
      /\ Configure("output")[1] = <<Set("pupdr", "SDA", "up")>>[1]
      /\ Configure("output")[2] = SetMode("SDA", "output")[1]
      /\ Configure("output")[3] = SetMode("SDA", "output")[2]
      /\ Configure("output")[4] = <<Set("pupdr", "SCL", "up")>>[1]
      /\ Configure("output")[5] = SetMode("SCL", "output")[1]
      /\ Configure("output")[6] = SetMode("SCL", "output")[2]
  <2>1. Len(SetMode("SDA", "output")) = 2 /\ Len(SetMode("SCL", "output")) = 2
    BY <1>1, SetModeIs
  <2> QED BY <1>2, <1>4, <1>5, <2>1
<1>8. /\ SetMode("SDA", "af")[1] = Set("moder", "SDA", "af") /\ SetMode("SDA", "af")[2] = Set("afr", "SDA", 4)
      /\ SetMode("SDA", "af")[3] = Set("otyper", "SDA", "opendrain")
      /\ SetMode("SCL", "af")[1] = Set("moder", "SCL", "af") /\ SetMode("SCL", "af")[2] = Set("afr", "SCL", 4)
      /\ SetMode("SCL", "af")[3] = Set("otyper", "SCL", "opendrain")
  BY <1>1, SetModeIs
<1>9. /\ SetMode("SDA", "output")[1] = Set("moder", "SDA", "output")
      /\ SetMode("SDA", "output")[2] = Set("otyper", "SDA", "opendrain")
      /\ SetMode("SCL", "output")[1] = Set("moder", "SCL", "output")
      /\ SetMode("SCL", "output")[2] = Set("otyper", "SCL", "opendrain")
  BY <1>1, SetModeIs
<1> QED BY <1>5, <1>6, <1>7, <1>8, <1>9

(* The clocks of the ports come first, each once.                          *)
LEMMA EnablePortsIs ==
    /\ EnablePorts \in Seq(Writes) /\ Len(EnablePorts) \in {1, 2}
    /\ \A i \in 1..Len(EnablePorts) :
          /\ EnablePorts[i] = Set("rcc", EnablePorts[i].of, TRUE)
          /\ EnablePorts[i].of # Periph
          /\ \A k \in 1..Len(EnablePorts) : EnablePorts[i].of = EnablePorts[k].of => i = k
    /\ \A p \in Pins : \E i \in 1..Len(EnablePorts) : EnablePorts[i].of = Port[p]
<1>1. /\ Set("rcc", "GpioA", TRUE) \in Writes /\ Set("rcc", "GpioB", TRUE) \in Writes
      /\ Set("rcc", "GpioC", TRUE) \in Writes
  BY DEF Set, Writes, Regs, Targets
<1> DEFINE e == EnablePorts
<1>2. CASE Periph \in {"I2C1", "I2C2"}
  <2>1. e = <<Set("rcc", "GpioB", TRUE)>> /\ Port = [SDA |-> "GpioB", SCL |-> "GpioB"]
    BY <1>2 DEF EnablePorts, Port
  <2> HIDE DEF e
  <2>2. e \in Seq(Writes) /\ Len(e) = 1 /\ e[1] = Set("rcc", "GpioB", TRUE)
    BY <1>1, <2>1, Tuples
  <2>3. e[1].of = "GpioB"
    BY <2>2 DEF Set
  <2>4. \A p \in Pins : Port[p] = "GpioB"
    BY <2>1 DEF Pins
  <2>5. 1 \in 1..Len(e) /\ \A i \in 1..Len(e) : i = 1
    BY <2>2
  <2> QED BY <1>2, <2>2, <2>3, <2>4, <2>5 DEF e
<1>3. CASE Periph = "I2C3"
  <2>1. /\ e = <<Set("rcc", "GpioA", TRUE), Set("rcc", "GpioC", TRUE)>>
        /\ Port = [SDA |-> "GpioC", SCL |-> "GpioA"]
    BY <1>3 DEF EnablePorts, Port
  <2> HIDE DEF e
  <2>2. /\ e \in Seq(Writes) /\ Len(e) = 2
        /\ e[1] = Set("rcc", "GpioA", TRUE) /\ e[2] = Set("rcc", "GpioC", TRUE)
    BY <1>1, <2>1, Tuples
  <2>3. e[1].of = "GpioA" /\ e[2].of = "GpioC"
    BY <2>2 DEF Set
  <2>4. Port["SDA"] = "GpioC" /\ Port["SCL"] = "GpioA"
    BY <2>1
  <2>5. \A i \in 1..2 : i = 1 \/ i = 2
    OBVIOUS
  <2>6. \A i \in 1..Len(e) :
          /\ e[i] = Set("rcc", e[i].of, TRUE) /\ e[i].of # Periph
          /\ \A k \in 1..Len(e) : e[i].of = e[k].of => i = k
    BY <1>3, <2>2, <2>3, <2>5
  <2>7. \A p \in Pins : \E i \in 1..Len(e) : e[i].of = Port[p]
    <3>1. 1 \in 1..Len(e) /\ 2 \in 1..Len(e)
      BY <2>2
    <3>2. e[1].of = Port["SCL"] /\ e[2].of = Port["SDA"]
      BY <2>3, <2>4, Zenon
    <3> QED BY <3>1, <3>2, Zenon DEF Pins
  <2> QED BY <2>2, <2>6, <2>7 DEF e
<1> QED BY <1>2, <1>3, BoardAssumption

LEMMA InterruptIs ==
    ASSUME NEW l \in {"event", "error"}, NEW n \in {0, 1}
    PROVE  /\ EnableInterrupt(l, n) \in Seq(Writes) /\ Len(EnableInterrupt(l, n)) = 3
           /\ EnableInterrupt(l, n)[1] = Set("iser", Irq[l], TRUE)
           /\ EnableInterrupt(l, n)[2] = Set("prio", Irq[l], 1)
           /\ EnableInterrupt(l, n)[3] = Set("subprio", Irq[l], n)
<1>1. Irq[l] \in Int
  BY BoardAssumption DEF Irq
<1>2. Set("iser", Irq[l], TRUE) \in Writes
  BY <1>1 DEF Set, Writes, Regs, Targets
<1>3. Set("prio", Irq[l], 1) \in Writes
  BY <1>1 DEF Set, Writes, Regs, Targets
<1>4. Set("subprio", Irq[l], n) \in Writes
  BY <1>1 DEF Set, Writes, Regs, Targets
<1> QED BY <1>2, <1>3, <1>4, Tuples DEF EnableInterrupt

(* How many writes there are before the pins are set up.                   *)
Ports == Len(EnablePorts)

LEMMA InitIs ==
    /\ peripheral_init \in Seq(Writes) /\ Len(peripheral_init) = Ports + 18
    /\ \A i \in 1..Ports : peripheral_init[i] = EnablePorts[i]
    /\ \A i \in 1..8 : peripheral_init[Ports + i] = Configure("af")[i]
    /\ peripheral_init[Ports + 9] = Set("rcc", Periph, TRUE)
    /\ peripheral_init[Ports + 10] = Set("iser", Irq["event"], TRUE)
    /\ peripheral_init[Ports + 11] = Set("prio", Irq["event"], 1)
    /\ peripheral_init[Ports + 12] = Set("subprio", Irq["event"], 1)
    /\ peripheral_init[Ports + 13] = Set("iser", Irq["error"], TRUE)
    /\ peripheral_init[Ports + 14] = Set("prio", Irq["error"], 1)
    /\ peripheral_init[Ports + 15] = Set("subprio", Irq["error"], 0)
    /\ peripheral_init[Ports + 16] = Set("unit", "event", TRUE)
    /\ peripheral_init[Ports + 17] = Set("unit", "error", TRUE)
    /\ peripheral_init[Ports + 18] = Set("unit", "on", TRUE)
<1> DEFINE a == EnablePorts
           b == Configure("af")
           c == <<Set("rcc", Periph, TRUE)>>
           d == EnableInterrupt("event", 1)
           e == EnableInterrupt("error", 0)
           f == <<Set("unit", "event", TRUE), Set("unit", "error", TRUE), Set("unit", "on", TRUE)>>
           ab == a \o b
           ac == ab \o c
           ad == ac \o d
           ae == ad \o e
<1>1. peripheral_init = ae \o f
  BY DEF peripheral_init
<1>2. /\ a \in Seq(Writes) /\ Len(a) = Ports /\ Ports \in {1, 2}
      /\ b \in Seq(Writes) /\ Len(b) = 8
  BY EnablePortsIs, ConfigureIs DEF Ports
<1>3. c \in Seq(Writes) /\ Len(c) = 1 /\ c[1] = Set("rcc", Periph, TRUE)
  <2>1. Set("rcc", Periph, TRUE) \in Writes
    BY DEF Set, Writes, Regs, Targets
  <2> QED BY <2>1, Tuples
<1>4. /\ d \in Seq(Writes) /\ Len(d) = 3 /\ d[1] = Set("iser", Irq["event"], TRUE)
      /\ d[2] = Set("prio", Irq["event"], 1) /\ d[3] = Set("subprio", Irq["event"], 1)
  BY InterruptIs
<1>5. /\ e \in Seq(Writes) /\ Len(e) = 3 /\ e[1] = Set("iser", Irq["error"], TRUE)
      /\ e[2] = Set("prio", Irq["error"], 1) /\ e[3] = Set("subprio", Irq["error"], 0)
  BY InterruptIs
<1>6. /\ f \in Seq(Writes) /\ Len(f) = 3 /\ f[1] = Set("unit", "event", TRUE)
      /\ f[2] = Set("unit", "error", TRUE) /\ f[3] = Set("unit", "on", TRUE)
  <2>1. Set("unit", "event", TRUE) \in Writes
    BY DEF Set, Writes, Regs, Targets
  <2>2. Set("unit", "error", TRUE) \in Writes
    BY DEF Set, Writes, Regs, Targets
  <2>3. Set("unit", "on", TRUE) \in Writes
    BY DEF Set, Writes, Regs, Targets
  <2> QED BY <2>1, <2>2, <2>3, Tuples
<1> HIDE DEF a, b, c, d, e, f, ab, ac, ad, ae
<1>7. Join(ab, a, b)
  BY <1>2, Joined DEF ab
<1>8. Join(ac, ab, c)
  BY <1>3, <1>7, Joined DEF Join, ac
<1>9. Join(ad, ac, d)
  BY <1>4, <1>8, Joined DEF Join, ad
<1>10. Join(ae, ad, e)
  BY <1>5, <1>9, Joined DEF Join, ae
<1>11. Join(peripheral_init, ae, f)
  BY <1>1, <1>6, <1>10, Joined DEF Join
<1>12. /\ Len(ab) = Ports + 8 /\ Len(ac) = Ports + 9 /\ Len(ad) = Ports + 12 /\ Len(ae) = Ports + 15
       /\ peripheral_init \in Seq(Writes) /\ Len(peripheral_init) = Ports + 18
  BY <1>2, <1>3, <1>4, <1>5, <1>6, <1>7, <1>8, <1>9, <1>10, <1>11 DEF Join
<1>13. \A i \in 1..Ports + 18 :
          peripheral_init[i] = IF i <= Ports + 15 THEN ae[i] ELSE f[i - (Ports + 15)]
  BY <1>2, <1>6, <1>11, <1>12 DEF Join
<1>14. \A i \in 1..Ports + 15 : ae[i] = IF i <= Ports + 12 THEN ad[i] ELSE e[i - (Ports + 12)]
  BY <1>2, <1>5, <1>10, <1>12 DEF Join
<1>15. \A i \in 1..Ports + 12 : ad[i] = IF i <= Ports + 9 THEN ac[i] ELSE d[i - (Ports + 9)]
  BY <1>2, <1>4, <1>9, <1>12 DEF Join
<1>16. \A i \in 1..Ports + 9 : ac[i] = IF i <= Ports + 8 THEN ab[i] ELSE c[i - (Ports + 8)]
  BY <1>2, <1>3, <1>8, <1>12 DEF Join
<1>17. \A i \in 1..Ports + 8 : ab[i] = IF i <= Ports THEN a[i] ELSE b[i - Ports]
  BY <1>2, <1>7, <1>12 DEF Join
<1>18. /\ peripheral_init[Ports + 16] = f[1] /\ peripheral_init[Ports + 17] = f[2]
       /\ peripheral_init[Ports + 18] = f[3]
  BY <1>2, <1>13
<1>19. /\ peripheral_init[Ports + 13] = e[1] /\ peripheral_init[Ports + 14] = e[2]
       /\ peripheral_init[Ports + 15] = e[3]
  BY <1>2, <1>13, <1>14
<1>20. /\ peripheral_init[Ports + 10] = d[1] /\ peripheral_init[Ports + 11] = d[2]
       /\ peripheral_init[Ports + 12] = d[3]
  BY <1>2, <1>13, <1>14, <1>15
<1>21. peripheral_init[Ports + 9] = c[1]
  BY <1>2, <1>13, <1>14, <1>15, <1>16
<1>22. ASSUME NEW i \in 1..Ports + 8 PROVE peripheral_init[i] = ab[i]
  <2>1. /\ i \in 1..Ports + 9 /\ i \in 1..Ports + 12 /\ i \in 1..Ports + 15 /\ i \in 1..Ports + 18
        /\ i <= Ports + 8 /\ i <= Ports + 9 /\ i <= Ports + 12 /\ i <= Ports + 15
    BY <1>2
  <2>2. peripheral_init[i] = ae[i] /\ ae[i] = ad[i]
    BY <1>13, <1>14, <2>1
  <2>3. ad[i] = ac[i] /\ ac[i] = ab[i]
    BY <1>15, <1>16, <2>1
  <2> QED BY <2>2, <2>3
<1>23. ASSUME NEW i \in 1..Ports PROVE peripheral_init[i] = a[i]
  <2>1. i \in 1..Ports + 8 /\ i <= Ports
    BY <1>2
  <2> QED BY <1>17, <1>22, <2>1
<1>24. ASSUME NEW i \in 1..8 PROVE peripheral_init[Ports + i] = b[i]
  <2>1. Ports + i \in 1..Ports + 8 /\ ~(Ports + i <= Ports) /\ (Ports + i) - Ports = i
    BY <1>2
  <2>2. ab[Ports + i] = b[i]
    BY <1>17, <2>1
  <2> QED BY <1>22, <2>1, <2>2
<1> QED
  BY <1>3, <1>4, <1>5, <1>6, <1>12, <1>18, <1>19, <1>20, <1>21, <1>23, <1>24 DEF a, b

LEMMA DeblockIs ==
    /\ deblock_bus \in Seq(Writes) /\ Len(deblock_bus) = 26 + Len(peripheral_init)
    /\ \A i \in 1..6 : deblock_bus[i] = Configure("output")[i]
    /\ deblock_bus[7] = Set("odr", "SDA", 1)
    /\ \A i \in 8..26 : deblock_bus[i] = Set("odr", "SCL", (i - 7) % 2)
    /\ \A i \in 1..Len(peripheral_init) : deblock_bus[26 + i] = peripheral_init[i]
<1> DEFINE a == Configure("output")
           b == <<Set("odr", "SDA", 1)>>
           c == Pulses
           d == <<Set("odr", "SCL", 1)>>
           e == peripheral_init
           ab == a \o b
           ac == ab \o c
           ad == ac \o d
<1>1. deblock_bus = ad \o e
  BY DEF deblock_bus
<1>2. a \in Seq(Writes) /\ Len(a) = 6
  BY ConfigureIs
<1>3. /\ b \in Seq(Writes) /\ Len(b) = 1 /\ b[1] = Set("odr", "SDA", 1)
      /\ d \in Seq(Writes) /\ Len(d) = 1 /\ d[1] = Set("odr", "SCL", 1)
  <2>1. Set("odr", "SDA", 1) \in Writes /\ Set("odr", "SCL", 1) \in Writes
    BY PinWrite DEF Pins
  <2> QED BY <2>1, Tuples
<1>4. c \in Seq(Writes) /\ Len(c) = 18 /\ \A i \in 1..18 : c[i] = Set("odr", "SCL", i % 2)
  <2>1. \A i \in 1..18 : Set("odr", "SCL", i % 2) \in Writes
    <3> TAKE i \in 1..18
    <3>1. i % 2 = 0 \/ i % 2 = 1
      OBVIOUS
    <3> QED BY <3>1, PinWrite DEF Pins
  <2>2. Pulses = [k \in 1..18 |-> Set("odr", "SCL", k % 2)]
    BY DEF Pulses
  <2> HIDE DEF Pulses
  <2> QED BY <2>1, <2>2
<1>5. e \in Seq(Writes) /\ Len(e) \in Nat
  BY InitIs, LenProperties
<1> HIDE DEF a, b, c, d, e, ab, ac, ad
<1>6. Join(ab, a, b)
  BY <1>2, <1>3, Joined DEF ab
<1>7. Join(ac, ab, c)
  BY <1>4, <1>6, Joined DEF Join, ac
<1>8. Join(ad, ac, d)
  BY <1>3, <1>7, Joined DEF Join, ad
<1>9. Join(deblock_bus, ad, e)
  BY <1>1, <1>5, <1>8, Joined DEF Join
<1>10. /\ Len(ab) = 7 /\ Len(ac) = 25 /\ Len(ad) = 26
       /\ deblock_bus \in Seq(Writes) /\ Len(deblock_bus) = 26 + Len(e)
  BY <1>2, <1>3, <1>4, <1>6, <1>7, <1>8, <1>9 DEF Join
<1>11. \A i \in 1..7 : ab[i] = IF i <= 6 THEN a[i] ELSE b[i - 6]
  BY <1>2, <1>3, <1>6 DEF Join
<1>12. \A i \in 1..25 : ac[i] = IF i <= 7 THEN ab[i] ELSE c[i - 7]
  BY <1>4, <1>7, <1>10 DEF Join
<1>13. \A i \in 1..26 : ad[i] = IF i <= 25 THEN ac[i] ELSE d[i - 25]
  BY <1>3, <1>8, <1>10 DEF Join
<1>14. \A i \in 1..26 + Len(e) : deblock_bus[i] = IF i <= 26 THEN ad[i] ELSE e[i - 26]
  BY <1>9, <1>10 DEF Join
<1>15. \A i \in 1..Len(e) : deblock_bus[26 + i] = e[i]
  BY <1>5, <1>14
<1>16. \A i \in 1..6 : deblock_bus[i] = a[i]
  <2> TAKE i \in 1..6
  <2>1. deblock_bus[i] = ad[i]
    BY <1>5, <1>14
  <2>2. ad[i] = ac[i] /\ ac[i] = ab[i] /\ ab[i] = a[i]
    BY <1>11, <1>12, <1>13
  <2> QED BY <2>1, <2>2
<1>17. deblock_bus[7] = b[1]
  <2>1. deblock_bus[7] = ad[7]
    BY <1>5, <1>14
  <2>2. ad[7] = ac[7] /\ ac[7] = ab[7]
    BY <1>12, <1>13
  <2>3. ab[7] = b[1]
    BY <1>11
  <2> QED BY <2>1, <2>2, <2>3
<1>18. \A i \in 8..26 : deblock_bus[i] = Set("odr", "SCL", (i - 7) % 2)
  <2> TAKE i \in 8..26
  <2>1. deblock_bus[i] = ad[i]
    BY <1>5, <1>14
  <2>2. CASE i = 26
    <3>1. ad[26] = d[1] /\ (26 - 7) % 2 = 1
      BY <1>13
    <3> QED BY <1>3, <2>1, <2>2, <3>1
  <2>3. CASE i < 26
    <3>1. i - 7 \in 1..18
      BY <2>3
    <3>2. c[i - 7] = Set("odr", "SCL", (i - 7) % 2)
      BY <1>4, <3>1
    <3>3. ad[i] = c[i - 7]
      BY <1>12, <1>13, <2>3
    <3> QED BY <2>1, <3>2, <3>3
  <2> QED BY <2>2, <2>3
<1> QED BY <1>3, <1>10, <1>15, <1>16, <1>17, <1>18 DEF a, e

LEMMA StartIs ==
    /\ rust_bsp_init \in Seq(Writes) /\ Len(rust_bsp_init) = 1 + Len(peripheral_init)
    /\ rust_bsp_init[1] = Set("aircr", "prigroup", 4)
    /\ \A i \in 1..Len(peripheral_init) : rust_bsp_init[1 + i] = peripheral_init[i]
<1> DEFINE a == <<Set("aircr", "prigroup", 4)>>
           e == peripheral_init
<1>1. rust_bsp_init = a \o e
  BY DEF rust_bsp_init
<1>2. a \in Seq(Writes) /\ Len(a) = 1 /\ a[1] = Set("aircr", "prigroup", 4)
  <2>1. Set("aircr", "prigroup", 4) \in Writes
    BY DEF Set, Writes, Regs, Targets
  <2> QED BY <2>1, Tuples
<1>3. e \in Seq(Writes) /\ Len(e) \in Nat
  BY InitIs, LenProperties
<1> HIDE DEF a, e
<1>4. Join(rust_bsp_init, a, e)
  BY <1>1, <1>2, <1>3, Joined
<1>5. /\ rust_bsp_init \in Seq(Writes) /\ Len(rust_bsp_init) = 1 + Len(e)
      /\ \A i \in 1..1 + Len(e) : rust_bsp_init[i] = IF i <= 1 THEN a[i] ELSE e[i - 1]
  BY <1>2, <1>4 DEF Join
<1> QED BY <1>2, <1>3, <1>5 DEF e

-----------------------------------------------------------------------------
(* s is what is left of the writes prog.                                   *)
Rest(s, prog) ==
    /\ s \in Seq(Writes) /\ Len(s) <= Len(prog)
    /\ \A i \in 1..Len(s) : s[i] = prog[Len(prog) - Len(s) + i]

LEMMA RestNext ==
    ASSUME NEW prog \in Seq(Writes), NEW s, Rest(s, prog), s # <<>>
    PROVE  /\ Rest(Tail(s), prog) /\ Len(s) \in Nat \ {0} /\ Len(prog) \in Nat
           /\ Len(Tail(s)) = Len(s) - 1
           /\ Head(s) = prog[Len(prog) - Len(s) + 1] /\ Head(s) \in Writes
<1>1. s \in Seq(Writes) /\ Len(s) \in Nat \ {0} /\ Len(prog) \in Nat
  BY EmptySeq, LenProperties DEF Rest
<1>2. /\ Tail(s) \in Seq(Writes) /\ Len(Tail(s)) = Len(s) - 1 /\ Head(s) \in Writes
      /\ \A i \in 1..Len(s) - 1 : Tail(s)[i] = s[i + 1]
  BY <1>1, HeadTailProperties
<1>3. Head(s) = s[1]
  BY <1>1
<1> QED BY <1>1, <1>2, <1>3 DEF Rest

(* What the writes of peripheral_init are like: the value is one and the   *)
(* same for each field.                                                    *)
PinRegs == {"moder", "otyper", "pupdr", "afr", "odr"}
PinStates ==
    [Pins -> [PinRegs -> {"input", "output", "af", "pushpull", "opendrain", "none", "up"} \cup Int]]
Irqs == {Irq["event"], Irq["error"]}
Wanted == [moder |-> "af", afr |-> 4, otyper |-> "opendrain", pupdr |-> "up"]
Shape(w, early) ==
    /\ w.reg \in {"rcc", "iser", "prio", "subprio", "unit", "moder", "afr", "otyper", "pupdr"}
    /\ early => w.reg \notin PinRegs \cup {"unit"}
    /\ w.reg \in PinRegs => w.of \in Pins /\ w.val = Wanted[w.reg]
    /\ w.reg = "unit" => w.of \in {"event", "error", "on"}
    /\ w.reg \in {"prio", "subprio"} => w.of \in Irqs
    /\ w.reg = "prio" => w.val = 1
    /\ w.reg = "subprio" => w.val = IF w.of = Irq["event"] THEN 1 ELSE 0

LEMMA IrqTyped ==
    Irq["event"] \in Nat /\ Irq["error"] \in Nat /\ Irq["error"] = Irq["event"] + 1
BY BoardAssumption DEF Irq

LEMMA InitShape ==
    ASSUME NEW i \in 1..Len(peripheral_init)
    PROVE  LET w == peripheral_init[i] IN
           /\ w \in Writes /\ Shape(w, i <= Ports)
           /\ w.reg = "unit" => i > Ports + 9
<1>1. Ports \in {1, 2} /\ Len(peripheral_init) = Ports + 18
  BY EnablePortsIs, InitIs DEF Ports
<1>2. peripheral_init[i] \in Writes
  BY <1>1, InitIs, ElementOfSeq
<1>3. CASE i <= Ports
  <2>0. i \in 1..Ports
    BY <1>1, <1>3
  <2>1. peripheral_init[i] = Set("rcc", EnablePorts[i].of, TRUE)
    BY <2>0, InitIs, EnablePortsIs DEF Ports
  <2>2. peripheral_init[i].reg = "rcc"
    BY <2>1 DEF Set
  <2> QED BY <1>2, <1>3, <2>2 DEF PinRegs, Shape
<1>4. CASE i \in Ports + 1..Ports + 8
  <2>1. PICK k \in 1..8 : i = Ports + k
    BY <1>1, <1>4
  <2>2. peripheral_init[i] = Configure("af")[k]
    BY <2>1, InitIs
  <2>3. k = 1 \/ k = 2 \/ k = 3 \/ k = 4 \/ k = 5 \/ k = 6 \/ k = 7 \/ k = 8
    OBVIOUS
  <2>4. /\ peripheral_init[i].reg \in {"pupdr", "moder", "afr", "otyper"}
        /\ peripheral_init[i].of \in Pins
        /\ peripheral_init[i].val = Wanted[peripheral_init[i].reg]
    <3>1. ASSUME NEW r \in {"pupdr", "moder", "afr", "otyper"}, NEW p \in Pins,
                 peripheral_init[i] = Set(r, p, Wanted[r])
          PROVE  /\ peripheral_init[i].reg = r /\ peripheral_init[i].of = p
                 /\ peripheral_init[i].val = Wanted[r]
      BY <3>1 DEF Set
    <3>2. /\ Wanted["pupdr"] = "up" /\ Wanted["moder"] = "af" /\ Wanted["afr"] = 4
          /\ Wanted["otyper"] = "opendrain" /\ "SDA" \in Pins /\ "SCL" \in Pins
      BY DEF Wanted, Pins
    <3>3. \E r \in {"pupdr", "moder", "afr", "otyper"}, p \in Pins :
             peripheral_init[i] = Set(r, p, Wanted[r])
      <4>1. CASE k \in {1, 5}
        BY <2>2, <3>2, <4>1, ConfigureIs
      <4>2. CASE k \in {2, 6}
        BY <2>2, <3>2, <4>2, ConfigureIs
      <4>3. CASE k \in {3, 7}
        BY <2>2, <3>2, <4>3, ConfigureIs
      <4>4. CASE k \in {4, 8}
        BY <2>2, <3>2, <4>4, ConfigureIs
      <4> QED BY <2>3, <4>1, <4>2, <4>3, <4>4
    <3> QED BY <3>1, <3>3
  <2>5. ~(i <= Ports)
    BY <1>1, <1>4
  <2> QED BY <1>2, <2>4, <2>5 DEF PinRegs, Shape
<1>5. CASE i \in Ports + 9..Ports + 18
  <2>1. \/ i = Ports + 9 \/ i = Ports + 10 \/ i = Ports + 11 \/ i = Ports + 12 \/ i = Ports + 13
        \/ i = Ports + 14 \/ i = Ports + 15 \/ i = Ports + 16 \/ i = Ports + 17 \/ i = Ports + 18
    BY <1>1, <1>5
  <2> DEFINE w == peripheral_init[i]
  <2>2. \/ w = Set("rcc", Periph, TRUE)
        \/ w \in {Set("iser", Irq["event"], TRUE), Set("iser", Irq["error"], TRUE)}
        \/ w \in {Set("prio", Irq["event"], 1), Set("prio", Irq["error"], 1)}
        \/ w = Set("subprio", Irq["event"], 1)
        \/ w = Set("subprio", Irq["error"], 0)
        \/ /\ w \in {Set("unit", "event", TRUE), Set("unit", "error", TRUE), Set("unit", "on", TRUE)}
           /\ i > Ports + 9
    <3>1. CASE i = Ports + 9
      BY <3>1, InitIs
    <3>2. CASE i = Ports + 10 \/ i = Ports + 13
      BY <3>2, InitIs
    <3>3. CASE i = Ports + 11 \/ i = Ports + 14
      BY <3>3, InitIs
    <3>4. CASE i = Ports + 12 \/ i = Ports + 15
      BY <3>4, InitIs
    <3>5. CASE i = Ports + 16 \/ i = Ports + 17 \/ i = Ports + 18
      <4>1. i > Ports + 9
        BY <1>1, <3>5
      <4> QED BY <3>5, <4>1, InitIs
    <3> QED BY <2>1, <3>1, <3>2, <3>3, <3>4, <3>5
  <2> HIDE DEF w
  <2>3. Irq["event"] # Irq["error"]
    BY IrqTyped
  <2>4. /\ Shape(w, FALSE)
        /\ w.reg = "unit" => i > Ports + 9
    BY <2>2, <2>3 DEF Set, Irqs, Shape, PinRegs
  <2>5. ~(i <= Ports)
    BY <1>1, <1>5
  <2> QED BY <1>2, <2>4, <2>5 DEF w, Shape
<1> QED BY <1>1, <1>3, <1>4, <1>5

-----------------------------------------------------------------------------
(* The effect of the write w is there.                                     *)
InPlace(w) ==
    /\ w.reg \in PinRegs => pin[w.of][w.reg] = w.val
    /\ w.reg = "rcc" => w.of \in clocks
    /\ w.reg = "iser" => w.of \in iser
    /\ w.reg = "unit" => w.of \in unit
    /\ w.reg = "prio" => ipr[w.of + ipr_offset] \div 32 = 1
    /\ w.reg = "subprio" => ipr[w.of + ipr_offset] % 32 = 16 * w.val

IprRegs == {Irq[l] + o : l \in {"event", "error"}, o \in {0, 4}}

BoardTyped ==
    /\ pin \in PinStates
    /\ unit \subseteq {"on", "event", "error"}
    /\ ipr \in [IprRegs -> 0..255] /\ ipr_offset \in {0, 4}
    /\ ipr_offset = 4 => \A i \in Irqs : ipr[i] = 0
    /\ owes \in 0..9

(* A priority of 1 above five bits of subpriority, and a subpriority of 0  *)
(* or 16 below the priority.                                               *)
LEMMA NewPriority ==
    ASSUME NEW x \in 0..255
    PROVE  /\ LET v == (x % 32) + 32
              IN  v \in 0..255 /\ v \div 32 = 1 /\ v % 32 = x % 32
           /\ \A s \in {0, 1} :
                 LET v == x - (x % 32) + 16 * s
                 IN  v \in 0..255 /\ v \div 32 = x \div 32 /\ v % 32 = 16 * s
<1>1. PICK q \in 0..7, m \in 0..31 : x = 32 * q + m /\ x % 32 = m /\ x \div 32 = q
  <2>1. x \div 32 \in 0..7 /\ x % 32 \in 0..31 /\ x = 32 * (x \div 32) + (x % 32)
    OBVIOUS
  <2> QED BY <2>1
<1>2. LET v == (x % 32) + 32
      IN  v \in 0..255 /\ v \div 32 = 1 /\ v % 32 = x % 32
  BY <1>1
<1>3. ASSUME NEW s \in {0, 1}
      PROVE  LET v == x - (x % 32) + 16 * s
             IN  v \in 0..255 /\ v \div 32 = x \div 32 /\ v % 32 = 16 * s
  <2>1. x - (x % 32) + 16 * s = 32 * q + 16 * s
    BY <1>1
  <2>2. CASE s = 0
    BY <1>1, <2>1, <2>2
  <2>3. CASE s = 1
    BY <1>1, <2>1, <2>3
  <2> QED BY <2>2, <2>3
<1> QED BY <1>2, <1>3

(* A write of peripheral_init takes effect, and disturbs none before it.   *)
LEMMA WriteTakesEffect ==
    ASSUME BoardTyped, prigroup = 4, BoardStep, NEW h, h = Head(todo), Shape(h, FALSE),
           h.reg \in PinRegs => Port[h.of] \in clocks,
           h.reg = "unit" => Periph \in clocks
    PROVE  /\ BoardTyped' /\ prigroup' = 4 /\ InPlace(h)'
           /\ \A w : Shape(w, FALSE) /\ InPlace(w) => InPlace(w)'
           /\ clocks \subseteq clocks'
<1>1. ipr_offset' = ipr_offset
  BY DEF BoardStep
<1>2. /\ \A i \in Irqs : i \in Nat /\ i \in IprRegs /\ i + 4 \in IprRegs /\ i + ipr_offset \in IprRegs
      /\ \A i, k \in Irqs : i # k + 4
  <2> HIDE DEF BoardTyped
  <2>1. \A i \in Irqs : i \in Nat /\ i + 0 \in IprRegs /\ i + 4 \in IprRegs /\ i + 0 = i
    BY IrqTyped DEF Irqs, IprRegs
  <2>2. \A i, k \in Irqs : i # k + 4
    BY IrqTyped DEF Irqs
  <2>3. ipr_offset = 0 \/ ipr_offset = 4
    BY DEF BoardTyped
  <2> QED BY <2>1, <2>2, <2>3
<1>3. CASE SetPin(h)
  <2>1. pin' = [pin EXCEPT ![h.of][h.reg] = h.val] /\ h.of \in Pins /\ h.reg \in PinRegs
    BY <1>3 DEF SetPin, Shape, PinRegs
  <2>2. h.val \in {"af", "opendrain", "up", 4} /\ h.reg \in {"moder", "afr", "otyper", "pupdr"}
    BY <2>1 DEF Shape, Wanted, PinRegs
  <2>3. pin' \in PinStates
    BY <2>1, <2>2 DEF BoardTyped, PinStates
  <2>4. owes' \in 0..9
    BY <1>3 DEF SetPin, Owes, BoardTyped
  <2>5. InPlace(h)'
    <3>1. pin'[h.of][h.reg] = h.val
      BY <2>1 DEF BoardTyped, PinStates
    <3> QED BY <2>1, <3>1 DEF InPlace, PinRegs
  <2>6. ASSUME NEW w, Shape(w, FALSE), InPlace(w) PROVE InPlace(w)'
    <3>1. w.reg \in PinRegs => pin'[w.of][w.reg] = w.val
      BY <2>1, <2>6 DEF InPlace, BoardTyped, PinStates, Shape
    <3>2. UNCHANGED <<clocks, unit, ipr, iser>>
      BY <1>3 DEF SetPin
    <3> QED BY <1>1, <2>6, <3>1, <3>2 DEF InPlace
  <2> QED BY <1>1, <1>3, <2>3, <2>4, <2>5, <2>6 DEF SetPin, BoardTyped
<1>4. CASE SetUnit(h)
  <2>1. /\ h.reg = "unit" /\ unit' = unit \cup {h.of} /\ h.of \in {"on", "event", "error"}
        /\ UNCHANGED <<clocks, pin, prigroup, ipr, iser, owes>>
    BY <1>4 DEF SetUnit, Shape
  <2>2. BoardTyped'
    BY <1>1, <2>1 DEF BoardTyped
  <2>3. InPlace(h)'
    BY <2>1 DEF InPlace, PinRegs
  <2>4. ASSUME NEW w, InPlace(w) PROVE InPlace(w)'
    BY <1>1, <2>1, <2>4 DEF InPlace
  <2> QED BY <2>1, <2>2, <2>3, <2>4
<1>5. CASE SetEnable(h)
  BY <1>1, <1>5 DEF SetEnable, InPlace, BoardTyped, Shape, PinRegs
<1>6. CASE SetPriority(h)
  <2>1. PrioUnit = 32
    BY DEF PrioUnit, bp_offset
  <2> DEFINE i == h.of + ipr_offset
  <2>2. i \in IprRegs /\ ipr[i] \in 0..255 /\ h.of \in Irqs
    BY <1>2, <1>6 DEF SetPriority, Shape, BoardTyped
  <2>3. ASSUME NEW v \in 0..255, ipr' = [ipr EXCEPT ![i] = v],
               h.reg = "prio" => v \div 32 = 1 /\ v % 32 = ipr[i] % 32,
               h.reg = "subprio" => v \div 32 = ipr[i] \div 32 /\ v % 32 = 16 * h.val
        PROVE  /\ BoardTyped' /\ InPlace(h)'
               /\ \A w : Shape(w, FALSE) /\ InPlace(w) => InPlace(w)'
    <3>1. /\ ipr' \in [IprRegs -> 0..255] /\ ipr'[i] = v
          /\ \A k \in IprRegs : k # i => ipr'[k] = ipr[k]
      BY <2>2, <2>3 DEF BoardTyped
    <3>2. UNCHANGED <<pin, unit, clocks, iser, owes>>
      BY <1>6 DEF SetPriority
    <3>3. ipr_offset = 4 => \A k \in Irqs : ipr'[k] = 0
      BY <1>2, <2>2, <3>1 DEF BoardTyped
    <3>4. BoardTyped'
      BY <1>1, <3>1, <3>2, <3>3 DEF BoardTyped
    <3>5. InPlace(h)'
      <4>1. /\ h.reg = "prio" => ipr'[i] \div 32 = 1
            /\ h.reg = "subprio" => ipr'[i] % 32 = 16 * h.val
        BY <2>3, <3>1
      <4>2. i' = i
        BY <1>1
      <4>3. h.reg \in {"prio", "subprio"}
        BY <1>6 DEF SetPriority
      <4> HIDE DEF i
      <4> QED BY <4>1, <4>2, <4>3 DEF InPlace, PinRegs, i
    <3>6. ASSUME NEW w, Shape(w, FALSE), InPlace(w) PROVE InPlace(w)'
      <4>1. CASE w.reg \in {"prio", "subprio"}
        <5>0. w.of \in Irqs
          BY <3>6, <4>1 DEF Shape
        <5>1. w.of + ipr_offset \in IprRegs
          BY <1>2, <5>0
        <5>2. CASE w.of = h.of
          <6>1. h.reg = "subprio" /\ w.reg = "subprio" => w.val = h.val
            BY <3>6, <5>2 DEF Shape
          <6>2. /\ w.reg = "prio" => ipr[i] \div 32 = 1
                /\ w.reg = "subprio" => ipr[i] % 32 = 16 * w.val
            BY <3>6, <5>2 DEF InPlace
          <6>3. /\ h.reg \in {"prio", "subprio"}
                /\ w.of + ipr_offset' = i
            BY <1>1, <1>6, <5>2 DEF SetPriority
          <6>4. /\ w.reg = "prio" => v \div 32 = 1
                /\ w.reg = "subprio" => v % 32 = 16 * w.val
            <7>1. CASE h.reg = "prio"
              BY <2>3, <6>2, <7>1
            <7>2. CASE h.reg = "subprio"
              BY <2>3, <6>1, <6>2, <7>2
            <7> QED BY <6>3, <7>1, <7>2
          <6> HIDE DEF i
          <6> QED BY <3>1, <4>1, <6>3, <6>4 DEF InPlace, PinRegs
        <5>3. CASE w.of # h.of
          <6>1. w.of + ipr_offset # i
            <7>1. w.of \in Nat /\ h.of \in Nat
              BY <1>2, <2>2, <5>0
            <7>2. ipr_offset \in {0, 4}
              BY DEF BoardTyped
            <7> QED BY <5>3, <7>1, <7>2
          <6> QED BY <1>1, <3>1, <3>6, <4>1, <5>1, <6>1 DEF InPlace, PinRegs
        <5> QED BY <5>2, <5>3
      <4>2. CASE w.reg \notin {"prio", "subprio"}
        BY <3>2, <3>6, <4>2 DEF InPlace
      <4> QED BY <4>1, <4>2
    <3> QED BY <3>4, <3>5, <3>6
  <2>4. CASE h.reg = "prio"
    <3>1. (h.val * PrioUnit) % 256 = 32
      BY <2>1, <2>4 DEF Shape
    <3>2. ipr' = [ipr EXCEPT ![i] = (ipr[i] % 32) + 32]
      BY <1>6, <2>1, <2>4, <3>1 DEF SetPriority
    <3> DEFINE v == (ipr[i] % 32) + 32
    <3>3. v \in 0..255 /\ v \div 32 = 1 /\ v % 32 = ipr[i] % 32
      <4> DEFINE x == ipr[i]
      <4>1. x \in 0..255
        BY <2>2
      <4> HIDE DEF x
      <4> QED BY <4>1, NewPriority, ZenonT(60) DEF x
    <3>4. clocks' = clocks /\ prigroup' = 4
      BY <1>6 DEF SetPriority
    <3>5. h.reg # "subprio" /\ ipr' = [ipr EXCEPT ![i] = v]
      BY <2>4, <3>2
    <3> HIDE DEF v, i
    <3>6. /\ BoardTyped' /\ InPlace(h)'
          /\ \A w : Shape(w, FALSE) /\ InPlace(w) => InPlace(w)'
      BY <2>3, <3>3, <3>5, Zenon
    <3> QED BY <3>4, <3>6
  <2>5. CASE h.reg = "subprio"
    <3>1. h.val \in {0, 1} /\ (h.val * 16) % PrioUnit = 16 * h.val
      BY <2>1, <2>5 DEF Shape
    <3>2. ipr' = [ipr EXCEPT ![i] = ipr[i] - (ipr[i] % 32) + 16 * h.val]
      BY <1>6, <2>1, <2>5, <3>1 DEF SetPriority
    <3> DEFINE v == ipr[i] - (ipr[i] % 32) + 16 * h.val
    <3>3. v \in 0..255 /\ v \div 32 = ipr[i] \div 32 /\ v % 32 = 16 * h.val
      <4> DEFINE x == ipr[i]
      <4>1. x \in 0..255
        BY <2>2
      <4> HIDE DEF x
      <4>2. \A k \in {0, 1} :
               LET u == x - (x % 32) + 16 * k
               IN  u \in 0..255 /\ u \div 32 = x \div 32 /\ u % 32 = 16 * k
        BY <4>1, NewPriority, Zenon
      <4>3. v = x - (x % 32) + 16 * h.val
        BY DEF x
      <4>4. v \in 0..255 /\ v \div 32 = x \div 32 /\ v % 32 = 16 * h.val
        <5> HIDE DEF v
        <5> QED BY <3>1, <4>2, <4>3, ZenonT(60)
      <4> QED BY <4>4, Zenon DEF x
    <3>4. clocks' = clocks /\ prigroup' = 4
      BY <1>6 DEF SetPriority
    <3>5. h.reg # "prio" /\ ipr' = [ipr EXCEPT ![i] = v]
      BY <2>5, <3>2
    <3> HIDE DEF v, i
    <3>6. /\ BoardTyped' /\ InPlace(h)'
          /\ \A w : Shape(w, FALSE) /\ InPlace(w) => InPlace(w)'
      BY <2>3, <3>3, <3>5, Zenon
    <3> QED BY <3>4, <3>6
  <2> QED BY <1>6, <2>4, <2>5 DEF SetPriority
<1> QED BY <1>3, <1>4, <1>5, <1>6 DEF BoardStep

(* The clocks that the first writes of peripheral_init turn on.            *)
LEMMA PortClocks ==
    ASSUME \A i \in 1..Ports : InPlace(peripheral_init[i])
    PROVE  \A p \in Pins : Port[p] \in clocks
<1>1. TAKE p \in Pins
<1>2. PICK i \in 1..Ports : EnablePorts[i].of = Port[p]
  BY EnablePortsIs DEF Ports
<1>3. EnablePorts[i] = Set("rcc", EnablePorts[i].of, TRUE)
  BY <1>2, EnablePortsIs DEF Ports
<1>4. EnablePorts[i].reg = "rcc"
  BY <1>3 DEF Set
<1>5. peripheral_init[i] = EnablePorts[i]
  BY <1>2, InitIs
<1> QED BY <1>2, <1>4, <1>5 DEF InPlace

LEMMA UnitClock ==
    ASSUME InPlace(peripheral_init[Ports + 9])
    PROVE  Periph \in clocks
<1>1. peripheral_init[Ports + 9] = Set("rcc", Periph, TRUE)
  BY InitIs
<1>2. Set("rcc", Periph, TRUE).reg = "rcc" /\ Set("rcc", Periph, TRUE).of = Periph
  BY DEF Set
<1> QED BY <1>1, <1>2 DEF InPlace

-----------------------------------------------------------------------------
(* Where the board is: at start-up, in the part of deblock_bus that is its *)
(* own, or in peripheral_init, which both end with.  In deblock_bus there  *)
(* is a rising edge of SCL to come for every two writes but the last, with *)
(* SDA released: as many as the device may still owe.                      *)
Starting == todo = rust_bsp_init /\ prigroup = 0 /\ owes = 0

Left == Len(todo) - Len(peripheral_init)

Deblocking ==
    /\ Rest(todo, deblock_bus) /\ Left > 0 /\ prigroup = 4
    /\ Periph \in clocks /\ \A p \in Pins : Port[p] \in clocks
    /\ Left <= 24 => pin["SDA"]["moder"] = "output"
    /\ Left <= 21 => pin["SCL"]["moder"] = "output"
    /\ Left <= 19 => pin["SDA"]["odr"] = 1
    /\ Left <= 18 => pin["SCL"]["odr"] = (Left + 1) % 2 /\ 2 * owes <= Left + 1

Initialising ==
    /\ Rest(todo, peripheral_init) /\ prigroup = 4 /\ owes = 0
    /\ \A i \in 1..Len(peripheral_init) - Len(todo) : InPlace(peripheral_init[i])

BoardInv == BoardTyped /\ (Starting \/ Deblocking \/ Initialising)

LEMMA BoardInitially == BoardInit => BoardInv
<1> SUFFICES ASSUME BoardInit PROVE BoardInv
  OBVIOUS
<1>1. todo = rust_bsp_init /\ prigroup = 0 /\ owes = 0 /\ unit = {}
  BY DEF BoardInit
<1>2. pin \in PinStates
  BY DEF BoardInit, PinRegs, PinStates
<1>3. ipr_offset \in {0, 4}
  BY BoardAssumption DEF BoardInit
<1>4. ipr = [i \in IprRegs |-> 0]
  <2>1. DOMAIN Irq = {"event", "error"}
    BY BoardAssumption DEF Irq
  <2> QED BY <2>1 DEF BoardInit, IprRegs
<1>5. ipr \in [IprRegs -> 0..255] /\ \A i \in Irqs : ipr[i] = 0
  <2>1. Irqs \subseteq IprRegs
    BY IrqTyped DEF Irqs, IprRegs
  <2>2. ipr \in [IprRegs -> 0..255]
    BY <1>4, SMTT(60)
  <2> QED BY <1>4, <2>1, <2>2
<1> QED BY <1>1, <1>2, <1>3, <1>5 DEF BoardInv, BoardTyped, Starting

(* A write to a pin of a port whose clock is on.                           *)
LEMMA PinIsWritten ==
    ASSUME BoardTyped, BoardStep, NEW r \in PinRegs, NEW p \in Pins,
           NEW v \in {"output", "opendrain", "up", 0, 1},
           Head(todo) = Set(r, p, v), Port[p] \in clocks
    PROVE  /\ BoardTyped' /\ UNCHANGED <<clocks, prigroup>> /\ owes' = Owes(pin')
           /\ \A q \in Pins, s \in PinRegs :
                 pin'[q][s] = IF q = p /\ s = r THEN v ELSE pin[q][s]
<1>1. SetPin(Head(todo))
  <2>1. Head(todo).reg = r
    BY DEF Set
  <2> QED BY <2>1 DEF BoardStep, SetUnit, SetEnable, SetPriority, PinRegs
<1>2. pin' = [pin EXCEPT ![p][r] = v] /\ owes' = Owes(pin')
  <2>1. Head(todo).reg = r /\ Head(todo).of = p /\ Head(todo).val = v
    BY DEF Set
  <2>2. ASSUME NEW w, w.reg = r, w.of = p, w.val = v, SetPin(w)
        PROVE  pin' = [pin EXCEPT ![p][r] = v] /\ owes' = Owes(pin')
    BY <2>2 DEF SetPin
  <2> QED BY <1>1, <2>1, <2>2
<1>3. /\ pin' \in PinStates
      /\ \A q \in Pins, s \in PinRegs :
                 pin'[q][s] = IF q = p /\ s = r THEN v ELSE pin[q][s]
  BY <1>2 DEF BoardTyped, PinStates
<1>4. owes' \in 0..9
  BY <1>2 DEF Owes, BoardTyped
<1> QED BY <1>1, <1>2, <1>3, <1>4 DEF SetPin, BoardStep, BoardTyped

LEMMA StartingNext ==
    ASSUME BoardTyped, Starting, BoardStep
    PROVE  BoardTyped' /\ Initialising'
<1>1. todo = rust_bsp_init /\ todo # <<>> /\ todo' = Tail(todo)
  BY DEF Starting, BoardStep
<1>2. Rest(todo, rust_bsp_init)
  BY <1>1, StartIs, LenProperties DEF Rest
<1>3. Head(todo) = Set("aircr", "prigroup", 4)
  <2>1. Head(todo) = rust_bsp_init[Len(rust_bsp_init) - Len(todo) + 1]
    BY <1>1, <1>2, StartIs, RestNext
  <2>2. Len(rust_bsp_init) \in Nat
    BY StartIs, LenProperties
  <2> QED BY <1>1, <2>1, <2>2, StartIs
<1>4. Rest(todo', peripheral_init) /\ Len(todo') = Len(peripheral_init)
  <2>1. Rest(todo', rust_bsp_init) /\ Len(todo') = Len(rust_bsp_init) - 1
    BY <1>1, <1>2, StartIs, RestNext
  <2>2. Len(rust_bsp_init) \in Nat /\ Len(peripheral_init) \in Nat
    BY StartIs, InitIs, LenProperties
  <2> QED BY <2>1, <2>2, StartIs DEF Rest
<1>5. SetEnable(Head(todo))
  BY <1>3 DEF BoardStep, SetPin, SetUnit, SetPriority, Set
<1>6. prigroup' = 4
  BY <1>3, <1>5 DEF SetEnable, Set
<1>7. UNCHANGED <<pin, unit, ipr, owes, ipr_offset>>
  BY <1>5 DEF SetEnable, BoardStep
<1>8. Len(peripheral_init) \in Nat
  BY InitIs, LenProperties
<1>9. BoardTyped'
  BY <1>7 DEF BoardTyped
<1>10. Initialising'
  BY <1>4, <1>6, <1>7, <1>8 DEF Initialising, Starting
<1> QED BY <1>9, <1>10

(* The rest of peripheral_init: the clocks are on before they are needed.  *)
LEMMA InitialisingNext ==
    ASSUME BoardTyped, Initialising, BoardStep
    PROVE  BoardTyped' /\ Initialising'
<1> DEFINE N == Len(peripheral_init)
<1>1. /\ N \in Nat /\ N = Ports + 18 /\ Ports \in {1, 2}
      /\ peripheral_init \in Seq(Writes)
  BY InitIs, LenProperties, EnablePortsIs DEF Ports
<1>2. /\ Rest(Tail(todo), peripheral_init) /\ Len(todo) \in Nat \ {0} /\ Len(todo) <= N
      /\ Len(Tail(todo)) = Len(todo) - 1 /\ Head(todo) = peripheral_init[N - Len(todo) + 1]
  <2>1. Rest(todo, peripheral_init) /\ todo # <<>>
    BY DEF Initialising, BoardStep
  <2>2. Len(todo) <= N
    BY <2>1 DEF Rest
  <2> QED BY <1>1, <2>1, <2>2, RestNext
<1>3. PICK k \in 1..N : k = N - Len(todo) + 1
  BY <1>1, <1>2
<1> DEFINE h == peripheral_init[k]
<1>9. h = Head(todo)
  BY <1>2, <1>3
<1>4. /\ Shape(h, k <= Ports) /\ Shape(h, FALSE)
      /\ h.reg = "unit" => k > Ports + 9
  BY <1>2, <1>3, InitShape DEF Shape
<1>5. \A i \in 1..N : i < k => InPlace(peripheral_init[i])
  BY <1>1, <1>2, <1>3 DEF Initialising
<1>6. k > Ports => \A p \in Pins : Port[p] \in clocks
  <2>1. ASSUME k > Ports, NEW i \in 1..Ports PROVE InPlace(peripheral_init[i])
    <3>1. i \in 1..N /\ i < k
      BY <1>1, <1>3, <2>1
    <3> QED BY <1>5, <3>1
  <2> QED BY <2>1, PortClocks
<1>7. k > Ports + 9 => Periph \in clocks
  <2>1. Ports + 9 \in 1..N
    BY <1>1
  <2>2. k > Ports + 9 => InPlace(peripheral_init[Ports + 9])
    BY <1>5, <2>1
  <2> QED BY <2>2, UnitClock
<1>8. /\ h.reg \in PinRegs => Port[h.of] \in clocks
      /\ h.reg = "unit" => Periph \in clocks
  BY <1>1, <1>3, <1>4, <1>6, <1>7 DEF Shape
<1>10. /\ BoardTyped' /\ prigroup' = 4 /\ InPlace(h)'
       /\ \A w : Shape(w, FALSE) /\ InPlace(w) => InPlace(w)'
  <2>1. prigroup = 4 /\ Shape(h, FALSE)
    BY <1>4 DEF Initialising
  <2> QED BY <1>8, <1>9, <2>1, WriteTakesEffect
<1>11. todo' = Tail(todo)
  BY DEF BoardStep
<1>12. ASSUME NEW i \in 1..k
       PROVE  InPlace(peripheral_init[i])'
  <2>1. CASE i = k
    BY <1>10, <2>1
  <2>2. CASE i < k
    <3>1. i \in 1..N
      BY <1>3
    <3>2. Shape(peripheral_init[i], FALSE)
      BY <3>1, InitShape DEF Shape
    <3> QED BY <1>5, <1>10, <2>2, <3>1, <3>2
  <2> QED BY <1>3, <2>1, <2>2
<1>13. owes' = 0
  BY DEF Initialising, BoardStep, SetPin, SetUnit, SetEnable, SetPriority, Owes
<1>14. N - Len(todo') = k
  BY <1>1, <1>2, <1>3, <1>11
<1> QED BY <1>2, <1>10, <1>11, <1>12, <1>13, <1>14 DEF Initialising

LEMMA DeblockingNext ==
    ASSUME BoardTyped, Deblocking, BoardStep
    PROVE  BoardTyped' /\ (Deblocking \/ Initialising)'
<1> DEFINE N == Len(peripheral_init)
           k == 27 - Left
<1>1. N \in Nat /\ deblock_bus \in Seq(Writes) /\ Len(deblock_bus) = 26 + N
  BY InitIs, DeblockIs, LenProperties
<1>2. /\ Rest(Tail(todo), deblock_bus) /\ Len(todo) \in Nat \ {0} /\ Len(todo) <= 26 + N
      /\ Len(Tail(todo)) = Len(todo) - 1 /\ Head(todo) = deblock_bus[26 + N - Len(todo) + 1]
  <2>1. Rest(todo, deblock_bus) /\ todo # <<>>
    BY DEF Deblocking, BoardStep
  <2>2. Len(todo) <= 26 + N
    BY <1>1, <2>1 DEF Rest
  <2> QED BY <1>1, <2>1, <2>2, RestNext
<1>3. todo' = Tail(todo) /\ Left' = Left - 1 /\ Left \in 1..26 /\ k \in 1..26
  <2>1. todo' = Tail(todo) /\ Left > 0
    BY DEF Deblocking, BoardStep
  <2>2. Left = Len(todo) - N /\ Left' = Len(todo') - N
    BY DEF Left
  <2>3. Left' = Left - 1
    <3>1. Len(todo') = Len(todo) - 1
      BY <1>2, <2>1
    <3> QED BY <1>1, <1>2, <2>2, <3>1
  <2>4. Left \in 1..26
    <3>1. \A m, n \in Nat : m - n > 0 /\ m <= 26 + n => m - n \in 1..26
      OBVIOUS
    <3>2. Len(todo) \in Nat /\ Len(todo) <= 26 + N /\ Len(todo) - N > 0
      BY <1>2, <2>1, <2>2
    <3> QED BY <1>1, <2>2, <3>1, <3>2
  <2> QED BY <2>1, <2>3, <2>4
<1>4. Head(todo) = deblock_bus[k]
  BY <1>1, <1>2 DEF Left
<1>5. Rest(todo', deblock_bus)
  BY <1>2, <1>3
<1>6. Left = 1 => Rest(todo', peripheral_init) /\ Len(todo') = N
  <2> SUFFICES ASSUME Left = 1 PROVE Rest(todo', peripheral_init) /\ Len(todo') = N
    OBVIOUS
  <2>1. Len(todo') = N
    BY <1>1, <1>2, <1>3 DEF Left
  <2>2. \A i \in 1..N : todo'[i] = deblock_bus[26 + N - N + i]
    BY <1>1, <1>5, <2>1 DEF Rest
  <2>3. ASSUME NEW i \in 1..N PROVE todo'[i] = peripheral_init[N - N + i]
    <3>1. 26 + N - N + i = 26 + i /\ N - N + i = i
      BY <1>1
    <3>2. deblock_bus[26 + i] = peripheral_init[i]
      BY DeblockIs
    <3> QED BY <2>2, <3>1, <3>2
  <2>4. todo' \in Seq(Writes)
    BY <1>5 DEF Rest
  <2> QED BY <1>1, <2>1, <2>3, <2>4 DEF Rest
<1>7. "SDA" \in Pins /\ "SCL" \in Pins /\ "moder" \in PinRegs /\ "odr" \in PinRegs
  BY DEF Pins, PinRegs
<1>8. Periph \in clocks /\ (\A p \in Pins : Port[p] \in clocks) /\ prigroup = 4
  BY DEF Deblocking
<1>9. CASE k \in 1..6
  <2>1. Head(todo) = Configure("output")[k]
    BY <1>4, <1>9, DeblockIs
  <2>2. k = 1 \/ k = 2 \/ k = 3 \/ k = 4 \/ k = 5 \/ k = 6
    BY <1>9
  <2>3. PICK r \in PinRegs, p \in Pins, v \in {"output", "opendrain", "up"} :
           /\ Head(todo) = Set(r, p, v)
           /\ r # "odr" /\ (r = "moder" => v = "output")
           /\ k = 2 => r = "moder" /\ p = "SDA"
           /\ k = 5 => r = "moder" /\ p = "SCL"
    BY <1>7, <2>1, <2>2, ConfigureIs DEF PinRegs
  <2>4. /\ BoardTyped' /\ UNCHANGED <<clocks, prigroup>>
        /\ \A q \in Pins, s \in PinRegs :
                 pin'[q][s] = IF q = p /\ s = r THEN v ELSE pin[q][s]
    BY <1>8, <2>3, PinIsWritten
  <2>5. Left' <= 24 => pin'["SDA"]["moder"] = "output"
    BY <1>3, <1>7, <2>3, <2>4 DEF Deblocking
  <2>6. Left' <= 21 => pin'["SCL"]["moder"] = "output"
    BY <1>3, <1>7, <2>3, <2>4 DEF Deblocking
  <2>7. Left' >= 20
    BY <1>3, <1>9
  <2> QED BY <1>3, <1>5, <1>8, <2>4, <2>5, <2>6, <2>7 DEF Deblocking
<1>10. CASE k = 7
  <2>1. Head(todo) = Set("odr", "SDA", 1)
    BY <1>4, <1>10, DeblockIs
  <2>0. Left = 20 /\ Left' = 19
    BY <1>3, <1>10
  <2>2. /\ BoardTyped' /\ UNCHANGED <<clocks, prigroup>>
        /\ \A q \in Pins, s \in PinRegs :
                 pin'[q][s] = IF q = "SDA" /\ s = "odr" THEN 1 ELSE pin[q][s]
    BY <1>7, <1>8, <2>1, PinIsWritten
  <2> QED BY <1>5, <1>7, <1>8, <2>0, <2>2 DEF Deblocking
<1>11. CASE k \in 8..26
  <2>1. Head(todo) = Set("odr", "SCL", (k - 7) % 2)
    BY <1>4, <1>11, DeblockIs
  <2>2. Left \in 1..19 /\ (k - 7) % 2 = Left % 2 /\ Left % 2 \in {0, 1}
    BY <1>3, <1>11
  <2>3. /\ BoardTyped' /\ UNCHANGED <<clocks, prigroup>> /\ owes' = Owes(pin')
        /\ \A q \in Pins, s \in PinRegs :
                 pin'[q][s] = IF q = "SCL" /\ s = "odr" THEN Left % 2 ELSE pin[q][s]
    BY <1>7, <1>8, <2>1, <2>2, PinIsWritten
  <2>4. /\ pin'["SDA"]["moder"] = "output" /\ pin'["SCL"]["moder"] = "output"
        /\ pin'["SDA"]["odr"] = 1 /\ pin'["SCL"]["odr"] = Left % 2
        /\ pin["SCL"]["moder"] = "output"
    BY <1>7, <2>2, <2>3 DEF Deblocking
  <2>5. owes \in 0..9 /\ owes' \in 0..9
    BY <2>3 DEF BoardTyped
  <2>6. 2 * owes' <= Left
    <3>1. High(pin', "SDA")
      BY <2>4 DEF High
    <3>2. owes' = IF owes = 0 \/ High(pin, "SCL") \/ ~High(pin', "SCL") THEN owes ELSE owes - 1
      BY <2>3, <3>1 DEF Owes
    <3>3. CASE Left = 19
      <4>1. \A o \in 0..9 : 2 * o <= 19
        OBVIOUS
      <4>2. 2 * owes' <= 19
        BY <2>5, <4>1
      <4> QED BY <3>3, <4>2
    <3>4. CASE Left <= 18 /\ Left % 2 = 0
      <4>1. 2 * owes <= Left + 1
        BY <3>4 DEF Deblocking
      <4>2. 2 * owes <= Left
        BY <2>2, <2>5, <3>4, <4>1
      <4> QED BY <2>2, <2>5, <3>2, <4>2
    <3>5. CASE Left <= 18 /\ Left % 2 = 1
      <4>1. 2 * owes <= Left + 1 /\ pin["SCL"]["odr"] = 0
        BY <2>2, <3>5 DEF Deblocking
      <4>2. ~High(pin, "SCL") /\ High(pin', "SCL")
        BY <2>4, <3>5, <4>1 DEF High
      <4> QED BY <2>2, <2>5, <3>2, <4>1, <4>2
    <3> QED BY <2>2, <3>3, <3>4, <3>5
  <2>7. CASE Left = 1
    <3>1. owes' = 0
      <4>1. \A o \in 0..9 : 2 * o <= 1 => o = 0
        OBVIOUS
      <4> QED BY <2>5, <2>6, <2>7, <4>1
    <3>2. 1..N - Len(todo') = {}
      BY <1>1, <1>6, <2>7
    <3> QED BY <1>6, <1>8, <2>3, <2>7, <3>1, <3>2 DEF Initialising
  <2>8. CASE Left > 1
    <3>1. Left' + 1 = Left /\ Left' > 0 /\ Left' <= 18
      BY <1>3, <2>2, <2>8
    <3> QED BY <1>5, <1>8, <2>3, <2>4, <2>6, <3>1 DEF Deblocking
  <2> QED BY <2>2, <2>3, <2>7, <2>8
<1> QED BY <1>3, <1>9, <1>10, <1>11

(* With nothing to do, all of peripheral_init is in place.                 *)
LEMMA IdleIs ==
    ASSUME BoardInv, todo = <<>>
    PROVE  Initialising /\ \A i \in 1..Len(peripheral_init) : InPlace(peripheral_init[i])
<1>1. Len(todo) = 0 /\ Len(peripheral_init) \in Nat
  BY InitIs, LenProperties
<1>2. ~Deblocking
  BY <1>1 DEF Deblocking, Left
<1>3. ~Starting
  <2>1. Len(rust_bsp_init) # 0
    BY <1>1, StartIs
  <2> QED BY <1>1, <2>1 DEF Starting
<1>4. Initialising
  BY <1>2, <1>3 DEF BoardInv
<1> QED BY <1>1, <1>4 DEF Initialising

(* deblock_bus is called when all of peripheral_init is in place.          *)
LEMMA StartDeblockNext ==
    ASSUME BoardInv, StartDeblock
    PROVE  BoardInv'
<1>1. todo = <<>> /\ todo' = deblock_bus
  BY DEF StartDeblock
<1>2. UNCHANGED <<clocks, pin, unit, prigroup, ipr, iser, ipr_offset>> /\ owes' \in 0..9
  BY DEF StartDeblock
<1>3. BoardTyped'
  BY <1>2 DEF BoardInv, BoardTyped
<1>4. Initialising
  BY <1>1, IdleIs
<1>5. /\ deblock_bus \in Seq(Writes) /\ Len(deblock_bus) = 26 + Len(peripheral_init)
      /\ Len(peripheral_init) \in Nat
  BY DeblockIs, InitIs, LenProperties
<1>6. Rest(todo', deblock_bus)
  <2>1. \A i \in 1..Len(deblock_bus) : Len(deblock_bus) - Len(deblock_bus) + i = i
    BY <1>5
  <2> QED BY <1>1, <1>5, <2>1 DEF Rest
<1>7. Left' = 26
  BY <1>1, <1>5 DEF Left
<1>8. \A i \in 1..Len(peripheral_init) : InPlace(peripheral_init[i])
  BY <1>1, IdleIs
<1>9. Periph \in clocks /\ \A p \in Pins : Port[p] \in clocks
  <2>1. Ports \in {1, 2}
    BY EnablePortsIs DEF Ports
  <2>2. Len(peripheral_init) = Ports + 18
    BY InitIs
  <2>3. Ports + 9 \in 1..Ports + 18 /\ \A i \in 1..Ports : i \in 1..Ports + 18
    BY <2>1
  <2>4. InPlace(peripheral_init[Ports + 9]) /\ \A i \in 1..Ports : InPlace(peripheral_init[i])
    BY <1>8, <2>2, <2>3
  <2> QED BY <2>4, PortClocks, UnitClock
<1>10. Deblocking'
  BY <1>2, <1>4, <1>6, <1>7, <1>9 DEF Deblocking, Initialising
<1> QED BY <1>3, <1>10 DEF BoardInv

(* The steps of the board, alone and as a part of the sensors' system.     *)
LEMMA BoardNext ==
    ASSUME BoardInv, BoardStep \/ StartDeblock \/ UNCHANGED boardVars
    PROVE  BoardInv'
<1>1. CASE BoardStep
  <2>1. CASE Starting
    BY <1>1, <2>1, StartingNext DEF BoardInv
  <2>2. CASE Deblocking
    BY <1>1, <2>2, DeblockingNext DEF BoardInv
  <2>3. CASE Initialising
    BY <1>1, <2>3, InitialisingNext DEF BoardInv
  <2> QED BY <2>1, <2>2, <2>3 DEF BoardInv
<1>2. CASE StartDeblock
  BY <1>2, StartDeblockNext
<1>3. CASE UNCHANGED boardVars
  <2>1. BoardTyped' <=> BoardTyped
    BY <1>3 DEF boardVars, BoardTyped
  <2>2. Starting' <=> Starting
    BY <1>3 DEF boardVars, Starting
  <2>3. Deblocking' <=> Deblocking
    BY <1>3 DEF boardVars, Deblocking, Left
  <2>4. Initialising' <=> Initialising
    BY <1>3 DEF boardVars, Initialising, InPlace
  <2> QED BY <2>1, <2>2, <2>3, <2>4 DEF BoardInv
<1> QED BY <1>1, <1>2, <1>3

(* What every write of peripheral_init leaves when it is in place.         *)
LEMMA BusReadyFollows == BoardInv => BusReady
<1> SUFFICES ASSUME BoardInv, todo = <<>> PROVE BusReady
  BY DEF BusReady
<1>1. BoardTyped /\ owes = 0 /\ \A i \in 1..Len(peripheral_init) : InPlace(peripheral_init[i])
  BY IdleIs DEF BoardInv, Initialising
<1>2. Ports \in {1, 2} /\ Len(peripheral_init) = Ports + 18
  BY EnablePortsIs, InitIs DEF Ports
<1>3. ASSUME NEW k \in 1..18 PROVE InPlace(peripheral_init[Ports + k])
  BY <1>1, <1>2
<1>4. ASSUME NEW p \in Pins
      PROVE  /\ pin[p].moder = "af" /\ pin[p].afr = 4
             /\ pin[p].otyper = "opendrain" /\ pin[p].pupdr = "up"
  <2>1. ASSUME NEW k \in 1..8 PROVE InPlace(Configure("af")[k])
    <3>1. k \in 1..18
      OBVIOUS
    <3>2. InPlace(peripheral_init[Ports + k])
      BY <1>3, <3>1
    <3>3. peripheral_init[Ports + k] = Configure("af")[k]
      BY InitIs
    <3> QED BY <3>2, <3>3
  <2>2. ASSUME NEW r \in PinRegs, NEW q, NEW v, InPlace(Set(r, q, v)) PROVE pin[q][r] = v
    BY <2>2 DEF InPlace, Set
  <2>3. {"moder", "afr", "otyper", "pupdr"} \subseteq PinRegs /\ 1..8 = {1, 2, 3, 4, 5, 6, 7, 8}
    BY DEF PinRegs
  <2>4. /\ InPlace(Set("pupdr", "SDA", "up")) /\ InPlace(Set("moder", "SDA", "af"))
        /\ InPlace(Set("afr", "SDA", 4)) /\ InPlace(Set("otyper", "SDA", "opendrain"))
        /\ InPlace(Set("pupdr", "SCL", "up")) /\ InPlace(Set("moder", "SCL", "af"))
        /\ InPlace(Set("afr", "SCL", 4)) /\ InPlace(Set("otyper", "SCL", "opendrain"))
    BY <2>1, <2>3, ConfigureIs
  <2>5. p = "SDA" \/ p = "SCL"
    BY DEF Pins
  <2>6. /\ pin[p]["moder"] = "af" /\ pin[p]["afr"] = 4
        /\ pin[p]["otyper"] = "opendrain" /\ pin[p]["pupdr"] = "up"
    BY <2>2, <2>3, <2>4, <2>5
  <2>7. pin[p] \in [PinRegs -> {"input", "output", "af", "pushpull", "opendrain", "none", "up"}
                                \cup Int]
    BY <1>1 DEF BoardTyped, PinStates
  <2> QED BY <2>6, <2>7
<1>5. /\ InPlace(Set("iser", Irq["event"], TRUE)) /\ InPlace(Set("iser", Irq["error"], TRUE))
      /\ InPlace(Set("unit", "event", TRUE)) /\ InPlace(Set("unit", "error", TRUE))
      /\ InPlace(Set("unit", "on", TRUE))
  <2>1. {10, 13, 16, 17, 18} \subseteq 1..18
    OBVIOUS
  <2>2. /\ InPlace(peripheral_init[Ports + 10]) /\ InPlace(peripheral_init[Ports + 13])
        /\ InPlace(peripheral_init[Ports + 16]) /\ InPlace(peripheral_init[Ports + 17])
        /\ InPlace(peripheral_init[Ports + 18])
    BY <1>3, <2>1
  <2> QED BY <2>2, InitIs
<1>6. Irq["event"] \in iser /\ Irq["error"] \in iser
  BY <1>5 DEF InPlace, Set
<1>7. unit = {"on", "event", "error"}
  <2>1. "on" \in unit /\ "event" \in unit /\ "error" \in unit
    BY <1>5 DEF InPlace, Set
  <2> QED BY <1>1, <2>1 DEF BoardTyped
<1> QED BY <1>1, <1>4, <1>6, <1>7 DEF BusReady

LEMMA HandlersOrderedFollows == BoardInv => HandlersOrdered
<1> SUFFICES ASSUME BoardInv, todo = <<>> PROVE HandlersOrdered
  BY DEF HandlersOrdered
<1>1. /\ BoardTyped /\ prigroup = 4
      /\ \A i \in 1..Len(peripheral_init) : InPlace(peripheral_init[i])
  BY IdleIs DEF BoardInv, Initialising
<1>2. Ports \in {1, 2} /\ Len(peripheral_init) = Ports + 18
  BY EnablePortsIs, InitIs DEF Ports
<1>3. PrioUnit = 32
  BY <1>1 DEF PrioUnit, bp_offset
<1>4. ASSUME NEW k \in 1..18 PROVE InPlace(peripheral_init[Ports + k])
  BY <1>1, <1>2
<1>5. /\ InPlace(Set("prio", Irq["event"], 1)) /\ InPlace(Set("subprio", Irq["event"], 1))
      /\ InPlace(Set("prio", Irq["error"], 1)) /\ InPlace(Set("subprio", Irq["error"], 0))
  BY <1>4, InitIs
<1>6. /\ ipr[Irq["event"] + ipr_offset] \div 32 = 1 /\ ipr[Irq["event"] + ipr_offset] % 32 = 16
      /\ ipr[Irq["error"] + ipr_offset] \div 32 = 1 /\ ipr[Irq["error"] + ipr_offset] % 32 = 0
  BY <1>5 DEF InPlace, Set, PinRegs
<1>7. \A i \in Irqs : i \in Nat /\ ipr[i] \in 0..255
  <2>1. \A i \in Irqs : i \in IprRegs /\ i \in Nat
    BY IrqTyped DEF Irqs, IprRegs
  <2> QED BY <1>1, <2>1 DEF BoardTyped
<1>8. Irq["event"] \in Irqs /\ Irq["error"] \in Irqs
  BY DEF Irqs
<1>9. CASE ipr_offset = 0
  <2>1. /\ ipr[Irq["event"]] \div 32 = 1 /\ ipr[Irq["event"]] % 32 = 16
        /\ ipr[Irq["error"]] \div 32 = 1 /\ ipr[Irq["error"]] % 32 = 0
    BY <1>6, <1>7, <1>8, <1>9
  <2>2. \A b, c \in 0..255 :
           b \div 32 = 1 /\ b % 32 = 0 /\ c \div 32 = 1 /\ c % 32 = 16 => b < c
    <3>1. \A b \in 0..255 : b = 32 * (b \div 32) + (b % 32)
      OBVIOUS
    <3> QED BY <3>1
  <2>3. ipr[Irq["error"]] < ipr[Irq["event"]]
    BY <1>7, <1>8, <2>1, <2>2
  <2> QED BY <1>3, <2>1, <2>3 DEF HandlersOrdered, Level, ErrorFirst
<1>10. CASE ipr_offset = 4
  <2>1. ipr[Irq["event"]] = 0 /\ ipr[Irq["error"]] = 0
    BY <1>1, <1>8, <1>10 DEF BoardTyped
  <2> QED BY <1>3, <1>10, <2>1 DEF HandlersOrdered, Level
<1> QED BY <1>1, <1>9, <1>10 DEF BoardTyped
==============================================================================
