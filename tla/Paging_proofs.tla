--------------------------- MODULE Paging_proofs ---------------------------
(***************************************************************************)
(* Theorems about Paging, for every size of memory and tables and every    *)
(* kernel that keeps to its MayMap.                                        *)
(***************************************************************************)
EXTENDS Paging, TLAPS

USE PagingAssumption

\* The two bytes of a word: in the page, distinct, and the same for both.
LEMMA Halves ==
    ASSUME NEW o \in Offset
    PROVE  /\ Hi(o) \in Offset /\ Lo(o) \in Offset /\ Hi(o) # Lo(o)
           /\ o = Hi(o) \/ o = Lo(o)
           /\ Hi(Hi(o)) = Hi(o) /\ Hi(Lo(o)) = Hi(o)
<1>1. o \in Nat /\ o < PageBytes
  BY DEF Offset
<1>2. PICK k \in Nat : PageBytes = 2 * k
  <2>1. PageBytes = 2 * (PageBytes \div 2) + (PageBytes % 2)
    OBVIOUS
  <2>2. PageBytes \div 2 \in Nat
    OBVIOUS
  <2> QED
    BY <2>1, <2>2
<1>3. PICK m \in Nat : o = 2 * m + (o % 2)
  <2>1. o = 2 * (o \div 2) + (o % 2) /\ o \div 2 \in Nat
    BY <1>1
  <2> QED
    BY <2>1
<1>4. o % 2 = 0 \/ o % 2 = 1
  BY <1>1
<1>5. Hi(o) = 2 * m /\ Lo(o) = 2 * m + 1
  BY <1>3, <1>4 DEF Hi, Lo
<1>6. 2 * m + 1 < PageBytes
  BY <1>1, <1>2, <1>3, <1>4
<1>7. Hi(2 * m) = 2 * m /\ Hi(2 * m + 1) = 2 * m
  BY DEF Hi
<1> QED
  BY <1>3, <1>4, <1>5, <1>6, <1>7 DEF Offset

\* Entries of tables: in pagetable[], and of no two tables the same.
LEMMA Apart ==
    ASSUME NEW t \in Tables, NEW u \in Tables, NEW g \in Page, NEW h \in Page
    PROVE  /\ t + g \in Index
           /\ t + g = u + h => t = u /\ g = h
<1>1. t \in Nat /\ u \in Nat /\ t + Pages =< PtSize
  OBVIOUS
<1>2. t # u => t + Pages =< u \/ u + Pages =< t
  OBVIOUS
<1>3. g \in Nat /\ h \in Nat /\ g < Pages /\ h < Pages
  BY DEF Page
<1> QED
  BY <1>1, <1>2, <1>3 DEF Index

LEMMA NoTableApart == NoTable \notin Tables
  OBVIOUS

LEMMA PhysicalType ==
    ASSUME NEW e \in PTE, NEW a \in Addr
    PROVE  Physical(e, a) \in Addr
<1>1. e.frame \in Nat
  BY DEF PTE
<1>2. e.frame % Pages \in Page
  BY <1>1 DEF Page
<1> QED
  BY <1>2 DEF Physical, Addr

LEMMA PageaddrType ==
    ASSUME TypeOK, NEW a \in Addr, NEW x \in Pageaddr(a)
    PROVE  x.at \in Addr /\ x.fault \in BOOLEAN
<1>1. CASE "PE" \in cr
  <2>1. PICK e \in Getpte(a[1]) : x = [at |-> Physical(e, a), fault |-> Faults(e)]
    BY <1>1 DEF Pageaddr
  <2>2. ptb + a[1] \in Nat
    BY DEF TypeOK, Addr, Page
  <2>3. e \in PTE
    BY <2>1, <2>2 DEF Getpte, TypeOK, Index
  <2>4. Faults(e) \in BOOLEAN
    BY <2>3 DEF Faults, PTE
  <2> QED
    BY <2>1, <2>3, <2>4, PhysicalType
<1>2. CASE "PE" \notin cr
  <2>1. x = [at |-> a, fault |-> FALSE]
    BY <1>2 DEF Pageaddr
  <2> QED
    BY <2>1
<1> QED
  BY <1>1, <1>2

LEMMA WithWordType ==
    ASSUME TypeOK, NEW p \in Addr, NEW v \in Word
    PROVE  /\ WithWord(p, v) \in [Page -> [Offset -> Byte]]
           /\ WithByte(p, v) \in [Page -> [Offset -> Byte]]
<1>1. p[1] \in Page /\ p[2] \in Offset /\ v[1] \in Byte /\ v[2] \in Byte
  BY DEF Addr, Word
<1> QED
  BY <1>1 DEF WithWord, WithByte, TypeOK

LEMMA LoadType ==
    ASSUME TypeOK, NEW p \in Addr
    PROVE  WordAt(p) \in Word /\ <<0, ram[p[1]][p[2]]>> \in Word
<1>1. p[1] \in Page /\ p[2] \in Offset /\ Hi(p[2]) \in Offset /\ Lo(p[2]) \in Offset
  BY Halves DEF Addr
<1> QED
  BY <1>1 DEF WordAt, TypeOK, Word

-----------------------------------------------------------------------------
\* Type correctness.
LEMMA TypeStep ==
    ASSUME TypeOK, [Next]_vars
    PROVE  TypeOK'
<1> USE DEF TypeOK
<1>1. ASSUME NEW a \in Addr, Load(a)
      PROVE  TypeOK'
  <2>1. PICK x \in Pageaddr(a) :
          /\ got' \in {WordAt(x.at), <<0, ram[x.at[1]][x.at[2]]>>}
          /\ fault' = x.fault
    BY <1>1 DEF Load
  <2>2. got' \in Word /\ fault' \in BOOLEAN
    BY <2>1, PageaddrType, LoadType
  <2> QED
    BY <1>1, <2>2 DEF Load, SameTables
<1>2. ASSUME NEW a \in Addr, LoadDevice(a)
      PROVE  TypeOK'
  BY <1>2 DEF LoadDevice, SameTables
<1>3. ASSUME NEW a \in Addr, NEW v \in Word, Store(a, v)
      PROVE  TypeOK'
  BY <1>3, PageaddrType, WithWordType DEF Store, SameTables
<1>4. ASSUME NEW a \in Addr, StoreDevice(a)
      PROVE  TypeOK'
  BY <1>4 DEF StoreDevice, SameTables
<1>5. ASSUME NEW x \in MayMap, Wpte(x[1], x[2])
      PROVE  TypeOK'
  <2>1. x[1] \in Index /\ x[2] \in PTE
    OBVIOUS
  <2> QED
    BY <1>5, <2>1 DEF Wpte
<1>6. ASSUME NEW r \in LpteRegs, NEW i \in Index, Lpte(r, i)
      PROVE  TypeOK'
  BY <1>6 DEF Lpte
<1>7. ASSUME NEW t \in Tables, Wptb(t)
      PROVE  TypeOK'
  BY <1>7 DEF Wptb
<1>8. ASSUME NEW v \in KernelCrs, Wcr(v)
      PROVE  TypeOK'
  BY <1>8 DEF Wcr
<1>9. ASSUME NEW v \in UserCrs, WcrUser(v)
      PROVE  TypeOK'
  BY <1>9 DEF WcrUser
<1>10. CASE Reti
  BY <1>10 DEF Reti
<1>11. CASE Trap
  BY <1>11 DEF Trap
<1>12. CASE UNCHANGED vars
  BY <1>12 DEF vars
<1> QED
  BY <1>1, <1>2, <1>3, <1>4, <1>5, <1>6, <1>7, <1>8, <1>9, <1>10, <1>11, <1>12
     DEF Next, Access

LEMMA TypeInit == Init => TypeOK
<1> SUFFICES ASSUME Init
             PROVE  TypeOK
  OBVIOUS
<1>1. NoPte \in PTE
  BY DEF NoPte, PTE
<1>2. <<0, 0>> \in Word
  BY DEF Word
<1>3. ram \in [Page -> [Offset -> Byte]] /\ pagetable \in [Index -> PTE]
  BY <1>1 DEF Init
<1> QED
  BY <1>1, <1>2, <1>3 DEF Init, TypeOK

\* Every variable keeps its type: no access leaves RAM, no entry the table.
THEOREM TypeCorrect == Spec => []TypeOK
<1>1. Init => TypeOK
  BY TypeInit
<1>2. TypeOK /\ [Next]_vars => TypeOK'
  BY TypeStep
<1> QED
  BY <1>1, <1>2, PTL DEF Spec

-----------------------------------------------------------------------------
\* The table holds what the kernel wrote, and zeroes elsewhere.
Installed == \A i \in Index : pagetable[i] = NoPte \/ <<i, pagetable[i]>> \in MayMap

IInv == TypeOK /\ Installed

LEMMA InstalledStep ==
    ASSUME IInv, [Next]_vars
    PROVE  Installed'
<1> USE DEF IInv, Installed, TypeOK
<1>1. CASE UNCHANGED pagetable
  BY <1>1
<1>2. ASSUME NEW x \in MayMap, Wpte(x[1], x[2])
      PROVE  Installed'
  BY <1>2 DEF Wpte
<1> QED
  BY <1>1, <1>2 DEF Next, Access, Load, LoadDevice, Store, StoreDevice, SameTables,
                    Lpte, Wptb, Wcr, WcrUser, Reti, Trap, vars

THEOREM Invariance == Spec => []IInv
<1>1. Init => IInv
  BY TypeInit DEF Init, IInv, Installed
<1>2. IInv /\ [Next]_vars => IInv'
  BY TypeStep, InstalledStep DEF IInv
<1> QED
  BY <1>1, <1>2, PTL DEF Spec

-----------------------------------------------------------------------------
\* A process that runs.

LEMMA RunningFacts ==
    ASSUME TypeOK, Running # NoTable
    PROVE  /\ Running \in Tables /\ Running = ptb
           /\ bank = 0 /\ cr = ucr /\ "PE" \in cr /\ "SM" \notin cr
  BY DEF Running, cr, TypeOK

\* Where an access of the running process goes: through its own entry, and a
\* fault is reported exactly when that entry is not granted.
LEMMA Translate ==
    ASSUME TypeOK, Running # NoTable, NEW a \in Addr, NEW x \in Pageaddr(a)
    PROVE  /\ x.at = Physical(Entry(Running, a[1]), a)
           /\ x.fault = ~Granted(Entry(Running, a[1]))
           /\ Entry(Running, a[1]) \in PTE
<1>1. Running \in Tables /\ Running = ptb /\ "PE" \in cr /\ "SM" \notin cr
  BY RunningFacts
<1>2. a[1] \in Page
  BY DEF Addr
<1>3. ptb + a[1] \in Index
  BY <1>1, <1>2, Apart
<1>4. Getpte(a[1]) = {Entry(Running, a[1])}
  BY <1>1, <1>3 DEF Getpte, Entry, Index
<1>5. x = [at |-> Physical(Entry(Running, a[1]), a), fault |-> Faults(Entry(Running, a[1]))]
  BY <1>1, <1>4 DEF Pageaddr
<1>6. Entry(Running, a[1]) \in PTE
  BY <1>1, <1>3 DEF Entry, TypeOK
<1>7. Faults(Entry(Running, a[1])) = ~Granted(Entry(Running, a[1]))
  BY <1>1, <1>6 DEF Faults, Granted, PTE
<1> QED
  BY <1>5, <1>6, <1>7

\* Granted entries at different places of the table mean different pages.
LEMMA FramesApart ==
    ASSUME IInv, Disciplined,
           NEW t \in Tables, NEW u \in Tables, NEW g \in Page, NEW h \in Page,
           Granted(Entry(t, g)), Granted(Entry(u, h)),
           Entry(t, g).frame % Pages = Entry(u, h).frame % Pages
    PROVE  t = u /\ g = h
<1>1. t + g \in Index /\ u + h \in Index
  BY Apart
<1>2. /\ <<t + g, Entry(t, g)>> \in MayMap
      /\ <<u + h, Entry(u, h)>> \in MayMap
  BY <1>1 DEF IInv, Installed, Entry, Granted, NoPte
<1>3. t + g = u + h
  <2> SUFFICES ASSUME t + g # u + h
               PROVE  FALSE
    OBVIOUS
  <2> DEFINE x == <<t + g, Entry(t, g)>>
             y == <<u + h, Entry(u, h)>>
  <2>1. x \in MayMap /\ y \in MayMap /\ x[1] # y[1] /\ Granted(x[2]) /\ Granted(y[2])
    BY <1>2
  <2>2. x[2].frame % Pages # y[2].frame % Pages
    BY <2>1 DEF Disciplined
  <2> QED
    BY <2>2
<1> QED
  BY <1>3, Apart

\* In the step of a running process only an access changes memory or got, and
\* no step but one out of the user bank changes the tables.
LEMMA RunningSteps ==
    ASSUME TypeOK, Running # NoTable, [Next]_vars
    PROVE  \/ \E a \in Addr : Load(a) \/ LoadDevice(a) \/ StoreDevice(a)
           \/ \E a \in Addr, v \in Word : Store(a, v)
           \/ Trap
           \/ UNCHANGED vars
  BY RunningFacts DEF Next, Access, Wpte, Lpte, Wptb, Wcr, WcrUser, Reti

\* What a store of the running process does to RAM.
LEMMA StoreEffect ==
    ASSUME TypeOK, Running # NoTable, NEW a \in Addr, NEW v \in Word, Store(a, v)
    PROVE  LET e == Entry(Running, a[1])
               p == Physical(e, a)
           IN  /\ fault' = ~Granted(e)
               /\ ram' \in {WithWord(p, v), WithByte(p, v)}
               /\ p \in Addr /\ p[1] = e.frame % Pages /\ p[2] = a[2]
<1>1. PICK x \in Pageaddr(a) :
        ram' \in {WithWord(x.at, v), WithByte(x.at, v)} /\ fault' = x.fault
  BY DEF Store
<1>2. /\ x.at = Physical(Entry(Running, a[1]), a)
      /\ x.fault = ~Granted(Entry(Running, a[1]))
      /\ Entry(Running, a[1]) \in PTE
  BY Translate
<1> QED
  BY <1>1, <1>2, PhysicalType DEF Physical

\* Storing through a physical address touches no other physical page.
LEMMA OnePage ==
    ASSUME TypeOK, NEW p \in Addr, NEW v \in Word,
           ram' \in {WithWord(p, v), WithByte(p, v)},
           NEW q \in Page, q # p[1]
    PROVE  ram'[q] = ram[q]
  BY DEF WithWord, WithByte, TypeOK, Addr

-----------------------------------------------------------------------------
\* A store that was not reported as a fault stays within the pages granted to
\* the process that runs.
LEMMA InsideStep ==
    ASSUME TypeOK, [Next]_vars, Running # NoTable, ~fault',
           NEW p \in Page, ram'[p] # ram[p]
    PROVE  \E g \in Page : /\ Granted(Entry(Running, g))
                           /\ Entry(Running, g).frame % Pages = p
<1>1. PICK a \in Addr, v \in Word : Store(a, v)
  BY RunningSteps DEF Load, LoadDevice, StoreDevice, Trap, vars
<1>2. Granted(Entry(Running, a[1]))
  BY <1>1, StoreEffect
<1>3. Entry(Running, a[1]).frame % Pages = p
  BY <1>1, StoreEffect, OnePage
<1>4. a[1] \in Page
  BY DEF Addr
<1> QED
  BY <1>2, <1>3, <1>4

THEOREM StoresStayInsideHolds == Spec => StoresStayInside
<1>1. TypeOK /\ [Next]_vars =>
        [Running # NoTable /\ ~fault'
         => \A p \in Page :
              ram'[p] # ram[p] =>
                \E g \in Page : /\ Granted(Entry(Running, g))
                                /\ Entry(Running, g).frame % Pages = p]_vars
  BY InsideStep
<1> QED
  BY <1>1, TypeCorrect, PTL DEF Spec, StoresStayInside

-----------------------------------------------------------------------------
\* A process that runs leaves the tables alone.
LEMMA TablesStay ==
    ASSUME TypeOK, [Next]_vars, Running # NoTable
    PROVE  pagetable' = pagetable
  BY RunningSteps DEF Load, LoadDevice, Store, StoreDevice, SameTables, Trap, vars

\* No byte another process sees changes under it.
LEMMA IsolatedStep ==
    ASSUME IInv, Disciplined, [Next]_vars, Running # NoTable, ~fault',
           NEW t \in Tables \ {Running}
    PROVE  View(t)' = View(t)
<1>1. pagetable' = pagetable
  BY TablesStay DEF IInv
<1>2. ASSUME NEW a \in Addr \ Devices, Granted(Entry(t, a[1]))
      PROVE  ram'[Entry(t, a[1]).frame % Pages] = ram[Entry(t, a[1]).frame % Pages]
  <2> DEFINE q == Entry(t, a[1]).frame % Pages
  <2>1. a[1] \in Page /\ t + a[1] \in Index
    BY Apart DEF Addr
  <2>2. Entry(t, a[1]) \in PTE
    BY <2>1 DEF Entry, IInv, TypeOK
  <2>3. q \in Page
    BY <2>2 DEF PTE, Page
  <2> SUFFICES ASSUME ram'[q] # ram[q]
               PROVE  FALSE
    OBVIOUS
  <2>4. PICK g \in Page : Granted(Entry(Running, g)) /\ Entry(Running, g).frame % Pages = q
    BY <2>3, InsideStep DEF IInv
  <2> QED
    BY <1>2, <2>1, <2>4, FramesApart, RunningFacts DEF IInv
<1> QED
  BY <1>1, <1>2 DEF View, Entry, Physical

\* Processes are isolated, whatever their programs store and the kernel maps,
\* as long as it hands out no physical page twice.
THEOREM ProcessesIsolatedHolds == Disciplined => (Spec => ProcessesIsolated)
<1> SUFFICES ASSUME Disciplined
             PROVE  Spec => ProcessesIsolated
  OBVIOUS
<1>1. IInv /\ [Next]_vars =>
        [Running # NoTable /\ ~fault'
         => \A t \in Tables \ {Running} : View(t)' = View(t)]_vars
  BY IsolatedStep
<1> QED
  BY <1>1, Invariance, PTL DEF Spec, ProcessesIsolated

-----------------------------------------------------------------------------
\* Refinement.

\* The byte of memory a process sees at an address it was granted.
LEMMA Sees ==
    ASSUME NEW t \in Tables, NEW a \in Addr \ Devices, Granted(Entry(t, a[1]))
    PROVE  View(t)[a] = ram[Entry(t, a[1]).frame % Pages][a[2]]
  BY DEF View, Physical

\* The two bytes of a word are no devices if one of them is none.
LEMMA Buddies ==
    ASSUME NEW a \in Addr \ Devices
    PROVE  /\ <<a[1], Hi(a[2])>> \in Addr \ Devices
           /\ <<a[1], Lo(a[2])>> \in Addr \ Devices
           /\ a = <<a[1], a[2]>> /\ a[1] \in Page /\ a[2] \in Offset
<1>1. a = <<a[1], a[2]>> /\ a[1] \in Page /\ a[2] \in Offset
  BY DEF Addr
<1> DEFINE hi == <<a[1], Hi(a[2])>>
           lo == <<a[1], Lo(a[2])>>
<1>2. hi \in Addr /\ lo \in Addr
  BY <1>1, Halves DEF Addr
<1>3. hi \notin Devices
  BY <1>1
<1>4. <<lo[1], Hi(lo[2])>> = hi
  BY <1>1, Halves
<1>5. lo \notin Devices
  BY <1>2, <1>3, <1>4
<1> QED
  BY <1>1, <1>2, <1>3, <1>5

\* A byte that a store of the running process writes to page p appears in its
\* memory at the one page it has mapped there, and nowhere else.
LEMMA ViewAfter ==
    ASSUME IInv, Disciplined, [Next]_vars, Running # NoTable, ~fault',
           NEW t \in Tables, t = Running,
           NEW g \in Page, Granted(Entry(t, g)),
           NEW p, p = Entry(t, g).frame % Pages,
           \A q \in Page : q # p => ram'[q] = ram[q],
           NEW b \in Addr \ Devices
    PROVE  View(t)'[b] = IF b[1] = g THEN ram'[p][b[2]] ELSE View(t)[b]
<1>1. pagetable' = pagetable /\ b[1] \in Page
  BY TablesStay DEF IInv, Addr
<1>2. Entry(t, b[1]) \in PTE
  BY <1>1, Apart DEF Entry, IInv, TypeOK
<1>3. Entry(t, b[1]).frame % Pages \in Page
  BY <1>2 DEF PTE, Page
<1>4. CASE b[1] = g
  BY <1>1, <1>4 DEF View, Entry, Physical
<1>5. CASE b[1] # g /\ Granted(Entry(t, b[1]))
  <2>1. Entry(t, b[1]).frame % Pages # p
    BY <1>1, <1>5, FramesApart
  <2> QED
    BY <1>1, <1>3, <1>5, <2>1 DEF View, Entry, Physical
<1>6. CASE b[1] # g /\ ~Granted(Entry(t, b[1]))
  BY <1>1, <1>6 DEF View, Entry, Physical
<1> QED
  BY <1>4, <1>5, <1>6

\* The memories of the processes, as the abstract specification sees them.
Mem == [t \in Tables |-> View(t)]

LEMMA SameRunning == SameTables => Running' = Running
  BY DEF SameTables, Running

\* Of the bytes of the page a word store goes to, two change.
LEMMA WordStored ==
    ASSUME TypeOK, NEW p \in Addr, NEW v \in Word, ram' = WithWord(p, v),
           NEW o \in Offset
    PROVE  ram'[p[1]][o] = IF o = Lo(p[2]) THEN v[2]
                           ELSE IF o = Hi(p[2]) THEN v[1] ELSE ram[p[1]][o]
  BY DEF WithWord, TypeOK, Addr

LEMMA ByteStored ==
    ASSUME TypeOK, NEW p \in Addr, NEW v \in Word, ram' = WithByte(p, v),
           NEW o \in Offset
    PROVE  ram'[p[1]][o] = IF o = p[2] THEN v[2] ELSE ram[p[1]][o]
  BY DEF WithByte, TypeOK, Addr

\* A store is a store to the memory of the process that runs.
LEMMA StoreRefines ==
    ASSUME IInv, Disciplined, [Next]_vars, Running # NoTable, ~fault',
           NEW a \in Addr, NEW v \in Word, Store(a, v)
    PROVE  PM!UserAccess
<1>1. PICK t \in Tables : t = Running
  BY RunningFacts DEF IInv
<1>2. a \in Addr \ Devices /\ SameTables /\ got' = got
  BY DEF Store
<1> DEFINE g == a[1]
           p == Entry(t, g).frame % Pages
           hi == <<a[1], Hi(a[2])>>
           lo == <<a[1], Lo(a[2])>>
           at == Physical(Entry(t, g), a)
<1>3. /\ Granted(Entry(t, g)) /\ at \in Addr /\ at[1] = p /\ at[2] = a[2]
      /\ ram' \in {WithWord(at, v), WithByte(at, v)}
  BY <1>1, StoreEffect DEF IInv
<1>4. \A q \in Page : q # p => ram'[q] = ram[q]
  BY <1>3, OnePage DEF IInv
<1>5. g \in Page /\ a[2] \in Offset /\ a = <<g, a[2]>>
      /\ hi \in Addr \ Devices /\ lo \in Addr \ Devices
  BY <1>2, Buddies
<1>6. \A b \in Addr \ Devices :
        View(t)'[b] = IF b[1] = g THEN ram'[p][b[2]] ELSE View(t)[b]
  BY <1>1, <1>3, <1>4, <1>5, ViewAfter
<1>7. \A b \in Addr \ Devices : b[1] = g => View(t)[b] = ram[p][b[2]]
  BY <1>3, Sees
<1>8. \A u \in Tables : u # t => View(u)' = View(u)
  BY <1>1, IsolatedStep
<1>9. \A b \in Addr \ Devices : b = <<b[1], b[2]>> /\ b[2] \in Offset
  BY Buddies
<1>10. /\ View(t) = [b \in Addr \ Devices |-> View(t)[b]]
       /\ View(t)' = [b \in Addr \ Devices |-> View(t)'[b]]
  BY DEF View
<1>11. Mem[Running][a] # Unmapped
  BY <1>1, <1>2, <1>3, <1>5, <1>7 DEF Mem, IInv, TypeOK, Addr
<1>12. CASE ram' = WithWord(at, v)
  <2>1. View(t)' = [View(t) EXCEPT ![hi] = v[1], ![lo] = v[2]]
    <3>1. \A b \in Addr \ Devices : b[1] = g =>
            View(t)'[b] = IF b = lo THEN v[2] ELSE IF b = hi THEN v[1] ELSE View(t)[b]
      BY <1>3, <1>6, <1>7, <1>9, <1>12, WordStored DEF IInv
    <3>2. \A b \in Addr \ Devices :
            View(t)'[b] = IF b = lo THEN v[2] ELSE IF b = hi THEN v[1] ELSE View(t)[b]
      BY <3>1, <1>6
    <3>3. hi # lo
      BY <1>5, Halves
    <3> HIDE DEF hi, lo
    <3> QED
      BY <3>2, <3>3, <1>5, <1>10
  <2>2. Mem' = [Mem EXCEPT ![t] = View(t)']
    BY <1>8 DEF Mem
  <2>3. Mem' = [Mem EXCEPT ![Running][hi] = v[1], ![Running][lo] = v[2]]
    <3> HIDE DEF hi, lo
    <3> QED
      BY <1>1, <2>1, <2>2 DEF Mem
  <2>4. PM!StoreWord(a, v)
    BY <1>2, <1>11, <2>3 DEF PM!StoreWord, PM!Mapped, Mem
  <2> QED
    BY <1>2, <2>4, SameRunning DEF PM!UserAccess, Word, IInv, TypeOK
<1>13. CASE ram' = WithByte(at, v)
  <2>1. View(t)' = [View(t) EXCEPT ![a] = v[2]]
    <3>1. \A b \in Addr \ Devices : b[1] = g =>
            View(t)'[b] = IF b = a THEN v[2] ELSE View(t)[b]
      BY <1>3, <1>5, <1>6, <1>7, <1>9, <1>13, ByteStored DEF IInv
    <3>2. \A b \in Addr \ Devices :
            View(t)'[b] = IF b = a THEN v[2] ELSE View(t)[b]
      BY <3>1, <1>6
    <3> QED
      BY <3>2, <1>2, <1>10
  <2>2. Mem' = [Mem EXCEPT ![t] = View(t)']
    BY <1>8 DEF Mem
  <2>3. Mem' = [Mem EXCEPT ![Running][a] = v[2]]
    BY <1>1, <2>1, <2>2 DEF Mem
  <2>4. PM!StoreByte(a, v)
    BY <1>2, <1>11, <2>3 DEF PM!StoreByte, PM!Mapped, Mem
  <2> QED
    BY <1>2, <2>4, SameRunning DEF PM!UserAccess, Word, IInv, TypeOK
<1> QED
  BY <1>3, <1>12, <1>13

\* A load returns what the process that runs has at the address.
LEMMA LoadRefines ==
    ASSUME IInv, Running # NoTable, ~fault', NEW a \in Addr, Load(a)
    PROVE  PM!UserAccess
<1>1. PICK t \in Tables : t = Running
  BY RunningFacts DEF IInv
<1>2. a \in Addr \ Devices /\ SameTables /\ ram' = ram
  BY DEF Load
<1> DEFINE hi == <<a[1], Hi(a[2])>>
           lo == <<a[1], Lo(a[2])>>
           p == Entry(t, a[1]).frame % Pages
<1>3. PICK x \in Pageaddr(a) :
        /\ got' \in {WordAt(x.at), <<0, ram[x.at[1]][x.at[2]]>>}
        /\ fault' = x.fault
  BY DEF Load
<1>4. /\ Granted(Entry(t, a[1])) /\ x.at = <<p, a[2]>> /\ Entry(t, a[1]) \in PTE
  BY <1>1, <1>3, Translate DEF IInv, Physical
<1>5. /\ hi \in Addr \ Devices /\ lo \in Addr \ Devices
      /\ a[1] \in Page /\ a[2] \in Offset
  BY <1>2, Buddies
<1>6. /\ View(t)[a] = ram[p][a[2]]
      /\ View(t)[hi] = ram[p][Hi(a[2])] /\ View(t)[lo] = ram[p][Lo(a[2])]
  BY <1>2, <1>4, <1>5, Sees
<1>7. got' \in {<<View(t)[hi], View(t)[lo]>>, <<0, View(t)[a]>>}
  BY <1>3, <1>4, <1>6 DEF WordAt
<1>8. Mem[Running][a] # Unmapped /\ Mem[Running] = View(t)
  <2>1. p \in Page
    BY <1>4 DEF PTE, Page
  <2> QED
    BY <1>1, <1>5, <1>6, <2>1 DEF Mem, IInv, TypeOK
<1>9. Mem' = Mem
  BY <1>2 DEF Mem, View, SameTables, Entry
<1>10. PM!LoadByte(a) \/ PM!LoadWord(a)
  BY <1>2, <1>7, <1>8, <1>9 DEF PM!LoadByte, PM!LoadWord, PM!Mapped, Mem
<1> QED
  BY <1>2, <1>10, SameRunning DEF PM!UserAccess, IInv, TypeOK

\* Every step is a step of the abstract memory or changes nothing it knows.
LEMMA RefinementStep ==
    ASSUME IInv, Disciplined, [Next]_vars
    PROVE  [PM!PNext]_(PM!pvars)
<1>1. CASE Running = NoTable
  BY <1>1 DEF PM!PNext, PM!Kernel
<1>2. CASE UNCHANGED vars
  BY <1>2 DEF vars, PM!pvars, View, Entry, Running
<1>3. CASE Running # NoTable /\ fault'
  BY <1>3, TypeStep DEF PM!PNext, PM!UserFault, IInv, TypeOK
<1>4. CASE Running # NoTable /\ ~fault' /\ ~UNCHANGED vars
  <2>1. CASE Trap
    BY <1>4, <2>1, TypeStep DEF Trap, PM!PNext, PM!Enter, View, Entry, Running, IInv, TypeOK
  <2>2. ASSUME NEW a \in Addr, LoadDevice(a) \/ StoreDevice(a)
        PROVE  PM!UserAccess
    <3>1. SameTables /\ ram' = ram /\ fault' = FALSE
      BY <2>2 DEF LoadDevice, StoreDevice
    <3>2. PM!Device
      BY <3>1 DEF PM!Device, View, SameTables, Entry
    <3> QED
      BY <1>4, <3>1, <3>2, SameRunning DEF PM!UserAccess
  <2> QED
    BY <1>4, <2>1, <2>2, LoadRefines, StoreRefines, RunningSteps DEF IInv, PM!PNext
<1> QED
  BY <1>1, <1>2, <1>3, <1>4

\* The paged machine implements private memories for every kernel that hands
\* out no physical page twice.
THEOREM Refinement == Disciplined => (Spec => ImplementsProcessMemory)
<1> SUFFICES ASSUME Disciplined
             PROVE  Spec => ImplementsProcessMemory
  OBVIOUS
<1>1. Init => PM!PInit
  BY DEF Init, PM!PInit, Running
<1>2. IInv /\ [Next]_vars => [PM!PNext]_(PM!pvars)
  BY RefinementStep
<1> QED
  BY <1>1, <1>2, Invariance, PTL DEF Spec, ImplementsProcessMemory, PM!PSpec
=============================================================================
