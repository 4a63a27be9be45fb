------------------------ MODULE RegisterAccess_proofs ------------------------
(***************************************************************************)
(* What the host reads and writes of the registers is what the target goes *)
(* on with, for blocks and packets of any size and any registers that are  *)
(* restored.                                                               *)
(***************************************************************************)
EXTENDS RegisterAccess, TLAPS

\* What the host knows of a register that is kept is in the state.
StateInv ==
  \A r \in KeptRegs \ Timers :
    /\ told[r] = "target" => state[r] = Target(r)
    /\ told[r] = "host" => state[r] = Host(r)

\* What it knows of one that is not is in the processor, and so is what the
\* target had in a register that is not restored.
ProcessorInv ==
  /\ \A r \in FPRegs : /\ told[r] = "target" => cpu[r] = Target(r)
                       /\ told[r] = "host" => cpu[r] = Host(r)
  /\ \A r \in Extended1Regs \ Extended1(Restored) : cpu[r] = Target(r)

\* The time base is restored whole, if the host wrote some of it.
TimeBaseInv ==
  \A r \in TimeBase :
    /\ told[r] = "host" => restore = TRUE /\ state[r] = Host(r)
    /\ restore = TRUE => told[r] # "target"

RegisterInv ==
  /\ TypeOK
  /\ at = "nub" => StateInv /\ ProcessorInv /\ TimeBaseInv
  /\ at = "target" => restore = FALSE

-----------------------------------------------------------------------------
\* The timers are not among the registers that are always restored, and the
\* blocks have no register in common.
LEMMA RegisterSets ==
  /\ TimeBase \subseteq Timers /\ Timers \subseteq Extended1Regs
  /\ Extended1(Restored) \subseteq Extended1Regs \ Timers
  /\ Extended1({GQR0, HID2}) \subseteq Extended1(Restored)
  /\ DefaultRegs \cap Extended1Regs = {} /\ FPRegs \cap KeptRegs = {}
  /\ KeptRegs = DefaultRegs \cup Extended1Regs
  /\ Regs = KeptRegs \cup FPRegs
  <1>1. /\ TBL \in Int /\ TBU \in Int /\ DEC \in Int /\ LastExtended1 \in Int
        /\ TBL .. TBU \subseteq 0 .. LastExtended1
    BY RegisterAssumption
  <1>2. TimeBase \subseteq Timers /\ Timers \subseteq Extended1Regs
    BY <1>1, RegisterAssumption DEF TimeBase, Timers, Extended1, Extended1Regs
  <1>3. Extended1(Restored) \subseteq Extended1Regs \ Timers
    BY RegisterAssumption DEF TimeBase, Timers, Extended1, Extended1Regs
  <1>4. Extended1({GQR0, HID2}) \subseteq Extended1(Restored)
    BY RegisterAssumption DEF Extended1
  <1>5. DefaultRegs \cap Extended1Regs = {} /\ FPRegs \cap KeptRegs = {}
    BY DEF DefaultRegs, FPRegs, Extended1Regs, KeptRegs
  <1> QED
    BY <1>2, <1>3, <1>4, <1>5 DEF KeptRegs, Regs

\* A register of a block is one of the registers, and of the extended 2 block
\* it is a floating point register.
LEMMA HomeIsARegister ==
  ASSUME NEW block \in Blocks, NEW n \in 0 .. Last(block)
  PROVE  /\ Home(block, n) \in Regs
         /\ Home(block, n)[2] = n
         /\ block = "Default" => Home(block, n) \in DefaultRegs
         /\ block = "Extended1" => Home(block, n) \in Extended1Regs
         /\ block \notin {"Default", "Extended1"} => Home(block, n) \in FPRegs
  <1>1. CASE block = "Default"
    BY <1>1 DEF Home, Last, Regs, KeptRegs, DefaultRegs
  <1>2. CASE block = "FP"
    BY <1>2 DEF Home, Last, Regs, FPRegs
  <1>3. CASE block = "Extended1"
    BY <1>3 DEF Home, Last, Regs, KeptRegs, Extended1Regs
  <1>4. CASE block = "Extended2"
    <2>1. n \in 0 .. LastFP
      BY <1>4, RegisterAssumption DEF Last
    <2> QED
      BY <1>4, <2>1 DEF Home, Regs, FPRegs
  <1> QED
    BY <1>1, <1>2, <1>3, <1>4 DEF Blocks

\* The words before one that was sent, or is in the buffer, are so, too.
LEMMA FewerFit ==
  ASSUME NEW block \in Blocks, NEW m \in Nat, NEW n \in 0 .. m, NEW words \in Nat
  PROVE  /\ Fits(block, m, words) => Fits(block, n, words)
         /\ Sent(block, m, words) => Sent(block, n, words)
  <1>1. n * Width(block) <= m * Width(block) /\ n * Width(block) \in Nat
        /\ m * Width(block) \in Nat
    BY DEF Width
  <1>2. TRKTestForPacket(words) \in Nat /\ HeaderWords \in Nat
    BY RegisterAssumption DEF TRKTestForPacket
  <1> QED
    BY <1>1, <1>2 DEF Fits, Sent

\* What is got for a register is the host's value for it where that much was
\* sent.
LEMMA GotEffect ==
  ASSUME NEW block \in Blocks, NEW last \in 0 .. Last(block),
         NEW first \in 0 .. last, NEW n \in first .. last, NEW words \in Nat
  PROVE  /\ Home(block, n) \in Regs /\ Home(block, n)[2] = n
         /\ Got(block, first, n, words) \in Values
         /\ Sent(block, last - first + 1, words)
              => Got(block, first, n, words) = Host(Home(block, n))
  <1>1. /\ n \in Int /\ first \in Int /\ last \in Int
        /\ n \in 0 .. Last(block)
        /\ n - first + 1 \in 0 .. (last - first + 1) /\ last - first + 1 \in Nat
    BY RegisterAssumption DEF Last, Blocks
  <1>2. Home(block, n) \in Regs /\ Home(block, n)[2] = n
    BY <1>1, HomeIsARegister
  <1>3. Sent(block, last - first + 1, words) => Sent(block, n - first + 1, words)
    BY <1>1, FewerFit
  <1> QED
    BY <1>2, <1>3 DEF Got, Values, Host

\* Writing leaves functions from registers to values what they are.
LEMMA WrittenType ==
  ASSUME NEW D \in SUBSET Regs, NEW regs \in [D -> Values],
         NEW block \in Blocks, NEW last \in 0 .. Last(block),
         NEW first \in 0 .. last, NEW ns \in SUBSET (first .. last),
         NEW words \in Nat
  PROVE  Written(regs, block, first, ns, words) \in [D -> Values]
  <1> SUFFICES ASSUME NEW r \in D
               PROVE  (IF r \in {Home(block, n) : n \in ns}
                       THEN Got(block, first, r[2], words) ELSE regs[r]) \in Values
    BY DEF Written
  <1>1. CASE r \in {Home(block, n) : n \in ns}
    BY <1>1, GotEffect
  <1>2. CASE r \notin {Home(block, n) : n \in ns}
    BY <1>2
  <1> QED
    BY <1>1, <1>2

-----------------------------------------------------------------------------
LEMMA InitHolds == Init => RegisterInv /\ TheHostReads
  <1> SUFFICES ASSUME Init PROVE RegisterInv /\ TheHostReads
    OBVIOUS
  <1>1. \A r \in KeptRegs : r \in Regs /\ state[r] \in Values
    BY RegisterSets DEF Init, TRKSaveExtended1Block, Values, Target
  <1>2. TypeOK
    <2>1. state \in [KeptRegs -> Values]
      BY <1>1 DEF Init, TRKSaveExtended1Block
    <2>2. cpu \in [Regs -> Values]
      BY DEF Init, Values, Target
    <2> QED
      BY <2>1, <2>2 DEF Init, TypeOK, NoReply
  <1>3. StateInv
    BY RegisterSets DEF Init, StateInv, TRKSaveExtended1Block
  <1>4. ProcessorInv
    BY RegisterSets DEF Init, ProcessorInv
  <1>5. TimeBaseInv
    BY RegisterSets DEF Init, TimeBaseInv
  <1>6. TheHostReads
    BY DEF Init, TheHostReads, NoReply
  <1> QED
    BY <1>2, <1>3, <1>4, <1>5, <1>6 DEF RegisterInv, Init

\* The nub is entered with the target's registers kept.
LEMMA InterruptHolds ==
  RegisterInv /\ TRK_InterruptHandler => RegisterInv' /\ TheHostReads'
  <1> SUFFICES ASSUME RegisterInv, TRK_InterruptHandler
               PROVE  RegisterInv' /\ TheHostReads'
    OBVIOUS
  <1> USE DEF TRK_InterruptHandler
  <1>1. state' \in [KeptRegs -> Values]
    BY RegisterSets DEF TRKSaveExtended1Block, Values, Target
  <1>2. cpu' \in [Regs -> Values]
    BY DEF Values, Target
  <1>3. TypeOK'
    BY <1>1, <1>2 DEF RegisterInv, TypeOK, NoReply
  <1>4. StateInv'
    BY RegisterSets DEF StateInv, TRKSaveExtended1Block
  <1>5. ProcessorInv'
    BY RegisterSets DEF ProcessorInv
  <1>6. TimeBaseInv'
    BY RegisterSets DEF RegisterInv, TimeBaseInv
  <1>7. TheHostReads'
    BY DEF TheHostReads, NoReply
  <1> QED
    BY <1>3, <1>4, <1>5, <1>6, <1>7 DEF RegisterInv

\* What is restored are the values that are kept.
LEMMA SwapAndGoHolds ==
  RegisterInv /\ TRKSwapAndGo => RegisterInv' /\ TheHostReads'
  <1> SUFFICES ASSUME RegisterInv, TRKSwapAndGo
               PROVE  RegisterInv' /\ TheHostReads'
    OBVIOUS
  <1> USE DEF TRKSwapAndGo
  <1>1. DefaultRegs \cup Extended1Restored \subseteq KeptRegs
    BY RegisterSets DEF Extended1Restored
  <1>2. cpu' \in [Regs -> Values]
    BY <1>1 DEF RegisterInv, TypeOK
  <1>3. state' \in [KeptRegs -> Values]
    BY RegisterSets DEF Values
  <1>4. TypeOK'
    BY <1>2, <1>3 DEF RegisterInv, TypeOK, NoReply
  <1>5. TheHostReads'
    BY DEF TheHostReads, NoReply
  <1> QED
    BY <1>4, <1>5 DEF RegisterInv

\* The target goes on with what the host was told.
LEMMA SwapAndGoRestores ==
  ASSUME RegisterInv, TRKSwapAndGo, NEW r \in Regs
  PROVE  /\ told[r] = "target" => cpu'[r] = Target(r)
         /\ told[r] = "host" /\ r \in Reaches => cpu'[r] = Host(r)
  <1> USE DEF TRKSwapAndGo
  <1>1. StateInv /\ ProcessorInv /\ TimeBaseInv /\ restore \in BOOLEAN
    BY DEF RegisterInv, TypeOK
  <1>2. cpu'[r] = IF r \in DefaultRegs \cup Extended1Restored
                  THEN state[r] ELSE cpu[r]
    OBVIOUS
  <1>3. CASE r \in DefaultRegs \cup Extended1(Restored)
    <2>1. r \in KeptRegs \ Timers /\ cpu'[r] = state[r]
      BY <1>2, <1>3, RegisterSets DEF Extended1Restored
    <2> QED
      BY <1>1, <2>1 DEF StateInv
  <1>4. CASE r \in FPRegs
    <2>1. cpu'[r] = cpu[r]
      BY <1>2, <1>4, RegisterSets DEF Extended1Restored
    <2> QED
      BY <1>1, <1>4, <2>1 DEF ProcessorInv
  <1>5. CASE r \in TimeBase
    <2>1. r \in Extended1Regs \ Extended1(Restored) /\ r \notin DefaultRegs
      BY <1>5, RegisterSets
    <2>2. CASE restore = TRUE
      <3>1. cpu'[r] = state[r]
        BY <1>2, <1>5, <2>2 DEF Extended1Restored
      <3> QED
        BY <1>1, <1>5, <2>2, <3>1 DEF TimeBaseInv
    <2>3. CASE restore = FALSE
      <3>1. cpu'[r] = cpu[r]
        BY <1>2, <2>1, <2>3 DEF Extended1Restored
      <3>2. told[r] # "host"
        BY <1>1, <1>5, <2>3 DEF TimeBaseInv
      <3> QED
        BY <1>1, <2>1, <3>1, <3>2 DEF ProcessorInv
    <2> QED
      BY <1>1, <2>2, <2>3
  <1>6. CASE r \in Extended1Regs \ (Extended1(Restored) \cup TimeBase)
    <2>1. cpu'[r] = cpu[r] /\ r \notin Reaches
      BY <1>2, <1>6, RegisterSets DEF Extended1Restored, Reaches
    <2> QED
      BY <1>1, <1>6, <2>1 DEF ProcessorInv
  <1> QED
    BY <1>3, <1>4, <1>5, <1>6, RegisterSets

\* A refusal changes nothing.
LEMMA RefuseHolds ==
  ASSUME RegisterInv, NEW err \in {"kInvalidRegister", "kUnsupportedError"},
         Refuse(err)
  PROVE  RegisterInv' /\ TheHostReads'
  <1> USE DEF Refuse
  <1>1. reply'.status \in Replies /\ reply'.data = <<>>
    BY DEF NoReply, ReplyTo, Replies
  <1>2. TypeOK'
    BY <1>1 DEF RegisterInv, TypeOK
  <1>3. StateInv' /\ ProcessorInv' /\ TimeBaseInv'
    BY DEF RegisterInv, StateInv, ProcessorInv, TimeBaseInv
  <1>4. TheHostReads'
    BY <1>1 DEF TheHostReads
  <1> QED
    BY <1>2, <1>3, <1>4 DEF RegisterInv

\* What the nub needs for itself is kept.
LEMMA PairedSingleKeeps ==
  ASSUME cpu \in [Regs -> Values], ProcessorInv
  PROVE  /\ PairedSingle(cpu) \in [Regs -> Values]
         /\ \A r \in FPRegs \cup (Extended1Regs \ Extended1(Restored)) :
              PairedSingle(cpu)[r] = cpu[r]
  <1>1. PairedSingle(cpu) \in [Regs -> Values]
    BY DEF PairedSingle, TRKPPCAccessSPR, Values
  <1>2. \A r \in FPRegs \cup (Extended1Regs \ Extended1(Restored)) :
          PairedSingle(cpu)[r] = cpu[r]
    <2>1. \A n \in {GQR0, HID2} : <<"Extended1", n>> \in Extended1(Restored)
      BY RegisterAssumption DEF Extended1
    <2>2. \A r \in FPRegs \cup (Extended1Regs \ Extended1(Restored)) :
            /\ r \in Regs
            /\ r # <<"Extended1", GQR0>> /\ r # <<"Extended1", HID2>>
      BY <2>1, RegisterSets
    <2> QED
      BY <2>2 DEF PairedSingle, TRKPPCAccessSPR
  <1> QED
    BY <1>1, <1>2

\* A read answers what is kept or in the processor.
LEMMA ReadHolds ==
  ASSUME RegisterInv, NEW failed \in {"none", "FP", "Extended2"}, ReadAll(failed)
  PROVE  RegisterInv' /\ TheHostReads'
  <1> USE DEF ReadAll
  <1>1. TypeOK /\ StateInv /\ ProcessorInv /\ TimeBaseInv /\ at = "nub"
    BY DEF RegisterInv
  <1>2. /\ cpu' \in [Regs -> Values]
        /\ \A r \in FPRegs \cup (Extended1Regs \ Extended1(Restored)) :
             cpu'[r] = cpu[r]
    BY <1>1, PairedSingleKeeps DEF TypeOK
  <1>3. reply'.status \in Replies
    BY DEF NoReply, ReplyTo, Replies
  <1>4. TypeOK'
    BY <1>1, <1>2, <1>3 DEF TypeOK
  <1>5. StateInv' /\ TimeBaseInv'
    BY <1>1 DEF StateInv, TimeBaseInv
  <1>6. ProcessorInv'
    BY <1>1, <1>2 DEF ProcessorInv
  <1>7. TheHostReads'
    <2>1. CASE failed # "none"
      BY <2>1 DEF TheHostReads, NoReply
    <2>2. CASE failed = "none"
      <3> SUFFICES ASSUME NEW block \in Blocks, NEW n \in 0 .. Last(block),
                          Home(block, n) \notin Timers
                   PROVE  LET r == Home(block, n)
                          IN  /\ told'[r] = "target" => reply'.data[block][n] = Target(r)
                              /\ told'[r] = "host" => reply'.data[block][n] = Host(r)
        <4>1. DOMAIN reply'.data = Blocks
          BY <2>2
        <4> QED
          BY <4>1 DEF TheHostReads
      <3>1. reply'.data[block][n] = Value(block, n) /\ told' = told
        BY <2>2
      <3>2. CASE block \in {"Default", "Extended1"}
        <4>1. Home(block, n) \in KeptRegs \ Timers
          BY <3>2, HomeIsARegister, RegisterSets
        <4> QED
          BY <1>1, <3>1, <3>2, <4>1 DEF StateInv, Value
      <3>3. CASE block \notin {"Default", "Extended1"}
        <4>1. Home(block, n) \in FPRegs
          BY <3>3, HomeIsARegister
        <4> QED
          BY <1>1, <3>1, <3>3, <4>1 DEF ProcessorInv, Value
      <3> QED
        BY <3>2, <3>3
    <2> QED
      BY <2>1, <2>2
  <1> QED
    BY <1>1, <1>4, <1>5, <1>6, <1>7 DEF RegisterInv

\* The notification of a stop tells what is kept.
LEMMA StopInfoHolds ==
  ASSUME RegisterInv, TRKTargetAddStopInfo
  PROVE  RegisterInv' /\ TheHostReads'
  <1> USE DEF TRKTargetAddStopInfo
  <1>1. TypeOK /\ StateInv /\ ProcessorInv /\ TimeBaseInv /\ at = "nub"
    BY DEF RegisterInv
  <1>2. TypeOK' /\ StateInv' /\ ProcessorInv' /\ TimeBaseInv'
    BY <1>1 DEF TypeOK, StateInv, ProcessorInv, TimeBaseInv
  <1>3. TheHostReads'
    <2>1. DOMAIN reply'.data = {"Default"} /\ "Default" \in Blocks
      BY DEF Blocks
    <2> SUFFICES ASSUME NEW block \in {"Default"}, NEW n \in 0 .. Last(block),
                        Home(block, n) \notin Timers
                 PROVE  LET r == Home(block, n)
                        IN  /\ told'[r] = "target" => reply'.data[block][n] = Target(r)
                            /\ told'[r] = "host" => reply'.data[block][n] = Host(r)
      BY <2>1 DEF TheHostReads
    <2>2. reply'.data[block][n] = Value(block, n) /\ told' = told
      BY DEF Last
    <2>3. Home(block, n) \in KeptRegs \ Timers
      BY <2>1, HomeIsARegister, RegisterSets
    <2> QED
      BY <1>1, <2>2, <2>3 DEF StateInv, Value
  <1> QED
    BY <1>1, <1>2, <1>3 DEF RegisterInv

-----------------------------------------------------------------------------
\* What the host knows after a write.
LEMMA AcknowledgeEffect ==
  ASSUME TypeOK, NEW block \in Blocks, NEW last \in 0 .. Last(block),
         NEW first \in 0 .. last, NEW words \in Nat,
         NEW err \in {"kNoError", "kMessageBufferUnderflow", "kCWDSException"},
         Acknowledge(block, first, last, words, err)
  PROVE  /\ told' \in [Regs -> {"target", "host", "unknown"}]
         /\ reply'.status \in Replies /\ TheHostReads'
         /\ \A r \in Range(block, first, last) \cap Regs :
              /\ told'[r] # "target"
              /\ told'[r] = "host" => err = "kNoError"
                                      /\ Sent(block, last - first + 1, words)
         /\ \A r \in Regs \ Range(block, first, last) :
              /\ told'[r] # "unknown" => told'[r] = told[r]
              /\ told[r] # "target" => told'[r] # "target"
              /\ r \in TimeBase /\ Range(block, first, last) \cap TimeBase # {}
                   => told'[r] # "target"
  <1> DEFINE R == Range(block, first, last)
             all == err = "kNoError" /\ Sent(block, last - first + 1, words)
  <1>1. told' = [r \in Regs |->
                    IF r \in R THEN IF all THEN "host" ELSE "unknown"
                    ELSE IF /\ r \in TimeBase /\ told[r] = "target"
                            /\ R \cap TimeBase # {}
                    THEN "unknown" ELSE told[r]]
    BY DEF Acknowledge
  <1>2. \A r \in Regs : told[r] \in {"target", "host", "unknown"}
    BY DEF TypeOK
  <1> HIDE DEF R, all
  <1>3. told' \in [Regs -> {"target", "host", "unknown"}]
    BY <1>1, <1>2
  <1>4. reply'.status \in Replies /\ reply'.data = <<>>
    BY DEF Acknowledge, NoReply, ReplyTo, Replies
  <1>5. TheHostReads'
    BY <1>4 DEF TheHostReads
  <1>6. \A r \in R \cap Regs : told'[r] # "target" /\ (told'[r] = "host" => all)
    BY <1>1
  <1>7. \A r \in Regs \ R :
          /\ told'[r] # "unknown" => told'[r] = told[r]
          /\ told[r] # "target" => told'[r] # "target"
          /\ r \in TimeBase /\ R \cap TimeBase # {} => told'[r] # "target"
    BY <1>1, <1>2
  <1> QED
    BY <1>3, <1>4, <1>5, <1>6, <1>7 DEF R, all

\* A write to the state.
LEMMA KeptWriteHolds ==
  ASSUME RegisterInv, NEW block \in {"Default", "Extended1"},
         NEW last \in 0 .. Last(block), NEW first \in 0 .. last, NEW words \in Nat,
         at = "nub", MessageGetBlock_ui32(block, first, last, words),
         restore' \in BOOLEAN,
         restore' = TRUE <=> (restore = TRUE
                              \/ Range(block, first, last) \cap TimeBase # {}),
         cpu' = cpu, at' = at
  PROVE  RegisterInv' /\ TheHostReads'
  <1> DEFINE R   == Range(block, first, last)
             ns  == {n \in first .. last : Fits(block, n - first + 1, words)}
             err == IF Fits(block, last - first + 1, words) THEN "kNoError"
                    ELSE "kMessageBufferUnderflow"
  <1>1. TypeOK /\ StateInv /\ ProcessorInv /\ TimeBaseInv /\ block \in Blocks
    BY DEF RegisterInv, Blocks
  <1>2. /\ state' = Written(state, block, first, ns, words)
        /\ Acknowledge(block, first, last, words, err)
    BY DEF MessageGetBlock_ui32
  <1>3. KeptRegs \subseteq Regs /\ state \in [KeptRegs -> Values]
    BY <1>1, RegisterSets DEF TypeOK
  <1>4. /\ state' \in [KeptRegs -> Values]
        /\ \A r \in KeptRegs : r \notin R => state'[r] = state[r]
        /\ \A n \in ns : Home(block, n) \in KeptRegs
                         /\ Sent(block, last - first + 1, words)
             => state'[Home(block, n)] = Host(Home(block, n))
    <2>1. ns \in SUBSET (first .. last) /\ KeptRegs \in SUBSET Regs
      BY <1>3
    <2>3. block \in Blocks /\ state \in [KeptRegs -> Values]
      BY <1>1, <1>3
    <2>2. state' = Written(state, block, first, ns, words)
      BY <1>2
    <2> HIDE DEF ns
    <2> QED
      <3> DEFINE w == Written(state, block, first, ns, words)
      <3>1. w \in [KeptRegs -> Values]
        BY <2>1, <2>3, WrittenType
      <3>2. \A r \in KeptRegs : r \notin R => w[r] = state[r]
        BY <1>3, <2>1 DEF Written, Range
      <3>3. ASSUME NEW n \in ns, Home(block, n) \in KeptRegs,
                   Sent(block, last - first + 1, words)
            PROVE  w[Home(block, n)] = Host(Home(block, n))
        BY <2>1, <2>3, <3>3, GotEffect DEF Written
      <3> QED
        BY <2>2, <3>1, <3>2, <3>3
  <1>5. /\ told' \in [Regs -> {"target", "host", "unknown"}]
        /\ reply'.status \in Replies /\ TheHostReads'
        /\ \A r \in R \cap Regs :
              /\ told'[r] # "target"
              /\ told'[r] = "host" => err = "kNoError"
                                      /\ Sent(block, last - first + 1, words)
        /\ \A r \in Regs \ R :
              /\ told'[r] # "unknown" => told'[r] = told[r]
              /\ told[r] # "target" => told'[r] # "target"
              /\ r \in TimeBase /\ R \cap TimeBase # {} => told'[r] # "target"
    BY <1>1, <1>2, AcknowledgeEffect
  <1>6. ASSUME NEW r \in R \cap KeptRegs, told'[r] = "host"
        PROVE  state'[r] = Host(r)
    <2>1. PICK n \in first .. last : r = Home(block, n)
      BY <1>6 DEF Range
    <2>2. Fits(block, last - first + 1, words) /\ Sent(block, last - first + 1, words)
      BY <1>3, <1>5, <1>6
    <2>3. /\ n \in Int /\ first \in Int /\ last \in Int /\ first <= n /\ n <= last
          /\ last - first + 1 \in Nat /\ n - first + 1 \in 0 .. (last - first + 1)
      BY RegisterAssumption DEF Last
    <2>4. n \in ns
      BY <1>1, <2>2, <2>3, FewerFit
    <2> QED
      BY <1>4, <1>6, <2>1, <2>2, <2>4
  <1>7. \A r \in FPRegs : r \in Regs \ R
    <2>1. \A n \in first .. last : Home(block, n) \notin FPRegs
      BY DEF Home, FPRegs
    <2> QED
      BY <2>1, RegisterSets DEF Range
  <1>8. \A r \in TimeBase : r \in KeptRegs /\ r \in Regs
    BY RegisterSets
  <1> HIDE DEF R, ns, err
  <1>9. StateInv'
    <2> SUFFICES ASSUME NEW r \in KeptRegs \ Timers
                 PROVE  /\ told'[r] = "target" => state'[r] = Target(r)
                        /\ told'[r] = "host" => state'[r] = Host(r)
      BY DEF StateInv
    <2>1. CASE r \in R
      BY <1>3, <1>5, <1>6, <2>1
    <2>2. CASE r \notin R
      BY <1>1, <1>3, <1>4, <1>5, <2>2 DEF StateInv
    <2> QED
      BY <2>1, <2>2
  <1>10. ProcessorInv'
    BY <1>1, <1>5, <1>7 DEF ProcessorInv
  <1>11. TimeBaseInv'
    <2> SUFFICES ASSUME NEW r \in TimeBase
                 PROVE  /\ told'[r] = "host" => restore' = TRUE /\ state'[r] = Host(r)
                        /\ restore' = TRUE => told'[r] # "target"
      BY DEF TimeBaseInv
    <2>1. restore' = TRUE <=> (restore = TRUE \/ R \cap TimeBase # {})
      BY DEF R
    <2>2. CASE r \in R
      BY <1>5, <1>6, <1>8, <2>1, <2>2
    <2>3. CASE r \notin R
      BY <1>1, <1>4, <1>5, <1>8, <2>1, <2>3 DEF TimeBaseInv
    <2> QED
      BY <2>2, <2>3
  <1>12. TypeOK'
    BY <1>1, <1>4, <1>5 DEF TypeOK
  <1> QED
    BY <1>5, <1>9, <1>10, <1>11, <1>12 DEF RegisterInv

\* A write to the processor, some of whose accesses may fail.
LEMMA LiveWriteHolds ==
  ASSUME RegisterInv, NEW block \in {"FP", "Extended2"},
         NEW last \in 0 .. Last(block), NEW first \in 0 .. last, NEW words \in Nat,
         NEW failed \in SUBSET (first .. last), NEW regs \in [Regs -> Values],
         at = "nub",
         \A r \in FPRegs \cup (Extended1Regs \ Extended1(Restored)) :
           regs[r] = cpu[r],
         cpu' = Written(regs, block, first, (first .. last) \ failed, words),
         Acknowledge(block, first, last, words,
                     IF failed = {} THEN "kNoError" ELSE "kCWDSException"),
         state' = state, restore' = restore, at' = at
  PROVE  RegisterInv' /\ TheHostReads'
  <1> DEFINE R   == Range(block, first, last)
             ns  == (first .. last) \ failed
             err == IF failed = {} THEN "kNoError" ELSE "kCWDSException"
  <1>1. TypeOK /\ StateInv /\ ProcessorInv /\ TimeBaseInv /\ block \in Blocks
    BY DEF RegisterInv, Blocks
  <1>2. /\ cpu' \in [Regs -> Values]
        /\ \A r \in Regs : r \notin R => cpu'[r] = regs[r]
        /\ \A n \in ns : Home(block, n) \in Regs
                         /\ Sent(block, last - first + 1, words)
             => cpu'[Home(block, n)] = Host(Home(block, n))
    <2>1. ns \in SUBSET (first .. last) /\ Regs \in SUBSET Regs
      OBVIOUS
    <2>2. cpu' = Written(regs, block, first, ns, words)
      OBVIOUS
    <2> HIDE DEF ns
    <2> QED
      <3> DEFINE w == Written(regs, block, first, ns, words)
      <3>1. w \in [Regs -> Values]
        BY <1>1, <2>1, WrittenType
      <3>2. \A r \in Regs : r \notin R => w[r] = regs[r]
        BY <2>1 DEF Written, Range
      <3>3. ASSUME NEW n \in ns, Home(block, n) \in Regs,
                   Sent(block, last - first + 1, words)
            PROVE  w[Home(block, n)] = Host(Home(block, n))
        BY <1>1, <2>1, <3>3, GotEffect DEF Written
      <3> QED
        BY <2>2, <3>1, <3>2, <3>3
  <1>3. /\ told' \in [Regs -> {"target", "host", "unknown"}]
        /\ reply'.status \in Replies /\ TheHostReads'
        /\ \A r \in R \cap Regs :
              /\ told'[r] # "target"
              /\ told'[r] = "host" => err = "kNoError"
                                      /\ Sent(block, last - first + 1, words)
        /\ \A r \in Regs \ R :
              /\ told'[r] # "unknown" => told'[r] = told[r]
              /\ told[r] # "target" => told'[r] # "target"
              /\ r \in TimeBase /\ R \cap TimeBase # {} => told'[r] # "target"
    BY <1>1, AcknowledgeEffect
  <1>4. R \subseteq FPRegs
    <2>1. \A n \in first .. last : n \in 0 .. Last(block)
      BY RegisterAssumption DEF Last
    <2> QED
      BY <1>1, <2>1, HomeIsARegister DEF Range
  <1>5. ASSUME NEW r \in R, told'[r] = "host" PROVE cpu'[r] = Host(r)
    <2>1. PICK n \in first .. last : r = Home(block, n)
      BY <1>5 DEF Range
    <2>2. r \in Regs
      BY <1>4, RegisterSets
    <2>3. failed = {} /\ Sent(block, last - first + 1, words)
      BY <1>3, <1>5, <2>2
    <2> QED
      BY <1>2, <2>1, <2>2, <2>3
  <1>6. \A r \in KeptRegs : r \in Regs \ R
    BY <1>4, RegisterSets
  <1> HIDE DEF R, ns, err
  <1>7. StateInv'
    BY <1>1, <1>3, <1>6 DEF StateInv
  <1>8. TimeBaseInv'
    <2>1. \A r \in TimeBase : r \in Regs \ R
      BY <1>6, RegisterSets
    <2> QED
      BY <1>1, <1>3, <2>1 DEF TimeBaseInv
  <1>9. ProcessorInv'
    <2>1. ASSUME NEW r \in FPRegs
          PROVE  /\ told'[r] = "target" => cpu'[r] = Target(r)
                 /\ told'[r] = "host" => cpu'[r] = Host(r)
      <3>1. r \in Regs
        BY RegisterSets
      <3>2. CASE r \in R
        BY <1>3, <1>5, <3>1, <3>2
      <3>3. CASE r \notin R
        BY <1>1, <1>2, <1>3, <3>1, <3>3 DEF ProcessorInv
      <3> QED
        BY <3>2, <3>3
    <2>2. ASSUME NEW r \in Extended1Regs \ Extended1(Restored)
          PROVE  cpu'[r] = Target(r)
      BY <1>1, <1>2, <1>6, RegisterSets DEF ProcessorInv
    <2> QED
      BY <2>1, <2>2 DEF ProcessorInv
  <1>10. TypeOK'
    BY <1>1, <1>2, <1>3 DEF TypeOK
  <1> QED
    BY <1>3, <1>7, <1>8, <1>9, <1>10 DEF RegisterInv

\* A range of the extended 1 block has some of the time base exactly if it
\* overlaps it, and one of the default block has none.
LEMMA TimeBaseInRange ==
  ASSUME NEW last \in Nat, NEW first \in 0 .. last
  PROVE  /\ Range("Default", first, last) \cap TimeBase = {}
         /\ Range("Extended1", first, last) \cap TimeBase # {}
              <=> (first <= TBU /\ last >= TBL)
  <1>1. TBL \in Nat /\ TBU \in Nat /\ TBL <= TBU /\ first \in Nat /\ first <= last
    BY RegisterAssumption
  <1>2. Range("Default", first, last) \cap TimeBase = {}
    BY DEF Range, Home, TimeBase, Extended1
  <1>3. ASSUME Range("Extended1", first, last) \cap TimeBase # {}
        PROVE  first <= TBU /\ last >= TBL
    <2>1. PICK n \in first .. last : <<"Extended1", n>> \in TimeBase
      BY <1>3 DEF Range, Home
    <2>2. n \in TBL .. TBU
      BY <2>1 DEF TimeBase, Extended1
    <2> QED
      BY <1>1, <2>2
  <1>4. ASSUME first <= TBU, last >= TBL
        PROVE  Range("Extended1", first, last) \cap TimeBase # {}
    <2> DEFINE n == IF first <= TBL THEN TBL ELSE first
    <2>1. n \in first .. last /\ n \in TBL .. TBU
      BY <1>1, <1>4
    <2> HIDE DEF n
    <2>2. <<"Extended1", n>> \in TimeBase
      BY <2>1 DEF TimeBase, Extended1
    <2>3. <<"Extended1", n>> \in Range("Extended1", first, last)
      BY <2>1 DEF Range, Home
    <2> QED
      BY <2>2, <2>3
  <1> QED
    BY <1>2, <1>3, <1>4

-----------------------------------------------------------------------------
LEMMA WriteHolds ==
  ASSUME RegisterInv, NEW block \in Blocks, NEW last \in 0 .. Last(block),
         NEW first \in 0 .. last, NEW words \in Nat,
         \/ block = "Default" /\ TRKTargetAccessDefault(first, last, words)
         \/ block = "Extended1" /\ TRKTargetAccessExtended1(first, last, words)
         \/ \E failed \in SUBSET (first .. last) :
              \/ block = "FP" /\ TRKTargetAccessFP(first, last, words, failed)
              \/ /\ block = "Extended2"
                 /\ TRKTargetAccessExtended2(first, last, words, failed)
  PROVE  RegisterInv' /\ TheHostReads'
  <1>1. /\ TypeOK /\ restore \in BOOLEAN /\ cpu \in [Regs -> Values]
        /\ at = "nub" => ProcessorInv
    BY DEF RegisterInv, TypeOK
  <1>2. last \in Nat
    BY RegisterAssumption DEF Last, Blocks
  <1>3. CASE block = "Default" /\ TRKTargetAccessDefault(first, last, words)
    <2>1. Range(block, first, last) \cap TimeBase = {}
      BY <1>2, <1>3, TimeBaseInRange
    <2> QED
      BY <1>1, <1>3, <2>1, KeptWriteHolds DEF TRKTargetAccessDefault
  <1>4. CASE block = "Extended1" /\ TRKTargetAccessExtended1(first, last, words)
    <2>1. Range(block, first, last) \cap TimeBase # {}
            <=> (first <= TBU /\ last >= TBL)
      BY <1>2, <1>4, TimeBaseInRange
    <2>2. restore' = (restore \/ (first <= TBU /\ last >= TBL))
      BY <1>4 DEF TRKTargetAccessExtended1
    <2> DEFINE overlaps == first <= TBU /\ last >= TBL
    <2>3. restore' = (restore \/ overlaps)
          /\ (Range(block, first, last) \cap TimeBase # {} <=> overlaps)
      BY <2>1, <2>2
    <2> HIDE DEF overlaps
    <2>4. restore' \in BOOLEAN
          /\ (restore' = TRUE <=> (restore = TRUE
                              \/ Range(block, first, last) \cap TimeBase # {}))
      BY <1>1, <2>3
    <2>5. /\ at = "nub" /\ cpu' = cpu /\ at' = at
          /\ MessageGetBlock_ui32(block, first, last, words)
      BY <1>4 DEF TRKTargetAccessExtended1
    <2> QED
      BY <1>4, <2>4, <2>5, KeptWriteHolds
  <1>5. ASSUME NEW failed \in SUBSET (first .. last), block = "FP",
               TRKTargetAccessFP(first, last, words, failed)
        PROVE  RegisterInv' /\ TheHostReads'
    <2>1. /\ cpu' = Written(cpu, block, first, (first .. last) \ failed, words)
          /\ Acknowledge(block, first, last, words,
                     IF failed = {} THEN "kNoError" ELSE "kCWDSException")
          /\ at = "nub" /\ state' = state /\ restore' = restore /\ at' = at
      BY <1>5 DEF TRKTargetAccessFP
    <2> QED
      BY <1>1, <1>5, <2>1, LiveWriteHolds
  <1>6. ASSUME NEW failed \in SUBSET (first .. last), block = "Extended2",
               TRKTargetAccessExtended2(first, last, words, failed)
        PROVE  RegisterInv' /\ TheHostReads'
    <2> DEFINE regs == PairedSingle(cpu)
    <2>1. /\ cpu' = Written(regs, block, first, (first .. last) \ failed, words)
          /\ Acknowledge(block, first, last, words,
                     IF failed = {} THEN "kNoError" ELSE "kCWDSException")
          /\ at = "nub" /\ state' = state /\ restore' = restore /\ at' = at
      BY <1>6 DEF TRKTargetAccessExtended2
    <2>2. /\ regs \in [Regs -> Values]
          /\ \A r \in FPRegs \cup (Extended1Regs \ Extended1(Restored)) :
               regs[r] = cpu[r]
      BY <1>1, <2>1, PairedSingleKeeps
    <2> HIDE DEF regs
    <2> QED
      BY <1>6, <2>1, <2>2, LiveWriteHolds
  <1> QED
    BY <1>3, <1>4, <1>5, <1>6

LEMMA NextHolds ==
  RegisterInv /\ TheHostReads /\ [Next]_vars => RegisterInv' /\ TheHostReads'
  <1> SUFFICES ASSUME RegisterInv, TheHostReads, [Next]_vars
               PROVE  RegisterInv' /\ TheHostReads'
    OBVIOUS
  <1>1. CASE UNCHANGED vars
    BY <1>1 DEF vars, RegisterInv, TypeOK, StateInv, ProcessorInv, TimeBaseInv,
                TheHostReads
  <1>2. CASE TRK_InterruptHandler
    BY <1>2, InterruptHolds
  <1>3. CASE TRKSwapAndGo
    BY <1>3, SwapAndGoHolds
  <1>4. ASSUME NEW first \in Numbers, NEW last \in Numbers,
               TRKDoReadRegisters(first, last)
        PROVE  RegisterInv' /\ TheHostReads'
    <2>1. CASE first > last
      BY <1>4, <2>1, RefuseHolds DEF TRKDoReadRegisters
    <2>2. CASE ~(first > last)
      BY <1>4, <2>2, ReadHolds DEF TRKDoReadRegisters
    <2> QED
      BY <2>1, <2>2
  <1>5. ASSUME NEW first \in Numbers, NEW last \in Numbers,
               NEW block \in Blocks \cup {"other"},
               TRKDoWriteRegisters(block, first, last)
        PROVE  RegisterInv' /\ TheHostReads'
    <2>1. CASE first > last
      BY <1>5, <2>1, RefuseHolds DEF TRKDoWriteRegisters
    <2>2. CASE ~(first > last) /\ block \notin Blocks
      BY <1>5, <2>2, RefuseHolds DEF TRKDoWriteRegisters
    <2>3. CASE ~(first > last) /\ block \in Blocks /\ last > Last(block)
      BY <1>5, <2>3, RefuseHolds DEF TRKDoWriteRegisters
    <2>4. CASE ~(first > last) /\ block \in Blocks /\ ~(last > Last(block))
      <3>1. /\ Last(block) \in Nat /\ first \in Nat /\ last \in Nat
            /\ \A words \in Packets(block, first, last) : words \in Nat
        BY <2>4, RegisterAssumption DEF Last, Blocks, Numbers, Packets
      <3>2. last \in 0 .. Last(block) /\ first \in 0 .. last
        BY <2>4, <3>1
      <3>3. PICK words \in Packets(block, first, last) :
              \/ block = "Default" /\ TRKTargetAccessDefault(first, last, words)
              \/ block = "Extended1" /\ TRKTargetAccessExtended1(first, last, words)
              \/ \E failed \in SUBSET (first .. last) :
                   \/ block = "FP" /\ TRKTargetAccessFP(first, last, words, failed)
                   \/ /\ block = "Extended2"
                      /\ TRKTargetAccessExtended2(first, last, words, failed)
        BY <1>5, <2>4 DEF TRKDoWriteRegisters
      <3> QED
        BY <2>4, <3>1, <3>2, <3>3, WriteHolds
    <2> QED
      BY <2>1, <2>2, <2>3, <2>4
  <1>6. CASE TRKTargetAddStopInfo
    BY <1>6, StopInfoHolds
  <1> QED
    BY <1>1, <1>2, <1>3, <1>4, <1>5, <1>6 DEF Next

\* The invariant, and with it what the host reads, holds always.
THEOREM RegistersAreKept == Spec => [](RegisterInv /\ TheHostReads)
  <1>1. Init => RegisterInv /\ TheHostReads
    BY InitHolds
  <1>2. RegisterInv /\ TheHostReads /\ [Next]_vars => (RegisterInv /\ TheHostReads)'
    BY NextHolds
  <1> QED
    BY <1>1, <1>2, PTL DEF Spec

\* Every register has one of the values that the nub, the host or the target
\* gave it.
THEOREM TypeCorrect == Spec => []TypeOK
  <1>1. RegisterInv => TypeOK
    BY DEF RegisterInv
  <1> QED
    BY <1>1, RegistersAreKept, PTL

\* What the host reads of a register is what it wrote there, or what the target
\* had.
THEOREM ReadsAreTrue == Spec => []TheHostReads
  BY RegistersAreKept, PTL

\* The target goes on with what the host was told that it wrote, and else with
\* what it had.
THEOREM WritesReachTheTarget == Spec => TheTargetGoesOnWith
  <1> DEFINE goesOn ==
        at = "nub" /\ at' = "target" =>
          \A r \in Regs :
            /\ told[r] = "target" => cpu'[r] = Target(r)
            /\ told[r] = "host" /\ r \in Reaches => cpu'[r] = Host(r)
  <1>1. RegisterInv /\ [Next]_vars => [goesOn]_vars
    <2> SUFFICES ASSUME RegisterInv, Next, at = "nub", at' = "target"
                 PROVE  goesOn
      OBVIOUS
    <2>1. TRKSwapAndGo
      BY DEF Next, TRK_InterruptHandler, TRKTargetAddStopInfo, TRKDoReadRegisters,
             ReadAll, Refuse,
             TRKDoWriteRegisters, TRKTargetAccessDefault, TRKTargetAccessFP,
             TRKTargetAccessExtended1, TRKTargetAccessExtended2
    <2> QED
      BY <2>1, SwapAndGoRestores
  <1> QED
    BY <1>1, RegistersAreKept, PTL DEF Spec, TheTargetGoesOnWith

=============================================================================
