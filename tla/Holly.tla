------------------------------- MODULE Holly -------------------------------
(***************************************************************************)
(* The devices that drive the interrupt controller's lines: the Holly ASIC *)
(* (dc/asic/asic.cpp), which mixes the external devices' interrupts into   *)
(* three IRL lines, and the underflow flags of the TMU channels            *)
(* (dc/sh4/tmu.cpp).  The lines are bits of Intc's sorted vectors, so a    *)
(* device finds its line again only if every rebuild in between kept it.   *)
(***************************************************************************)
EXTENDS Intc

CONSTANTS
  IRL,      \* the IRL lines: sources of Intc
  Channel,   \* the TMU channels: sources of Intc
  Kind,      \* the status registers modelled, of "NRM", "EXT" and "ERR"
  Bit        \* interrupt bits of one status register

ASSUME LinesAssumption ==
  /\ IRL \subseteq Source /\ Channel \subseteq Maskable
  /\ IRL \cap Channel = {}
  /\ Kind \subseteq {"NRM", "EXT", "ERR"}

VARIABLES
  IST,       \* SB_ISTNRM, SB_ISTEXT, SB_ISTERR: kind -> bits
  IML,       \* SB_IMLxNRM, ...: line -> kind -> bits
  UNF,       \* channels whose TCR has the underflow flag
  UNIE,      \* channels whose TCR enables the underflow interrupt
  unsynced   \* history: lines dropped by intc_Reset and not re-evaluated since

holly == <<IST, IML>>
timers == <<UNF, UNIE>>
hvars == <<vars, holly, timers, unsynced>>

rest == <<prio, rebuild, decoded_srimask, tables, cpu>>

-----------------------------------------------------------------------------
(* The ASIC                                                                *)

\* The interrupt mixer of one line.
Asserted(line, ist, iml) == \E k \in Kind : ist[k] \cap iml[line][k] # {}

\* InterruptPend on each line of "which", from the new register contents.
UpdateLines(which, ist, iml) ==
  /\ interrupt_vpend' =
       (interrupt_vpend \ {InterruptBit[l] : l \in which})
         \cup {InterruptBit[l] : l \in {x \in which : Asserted(x, ist, iml)}}
  /\ unsynced' = unsynced \ which
  /\ UNCHANGED <<rest, interrupt_vmask, timers>>

asic_UpdatePending(ist) ==
  /\ IST' = ist
  /\ UpdateLines(IRL, ist, IML)
  /\ UNCHANGED IML

asic_RaiseInterrupt(k, b) == asic_UpdatePending([IST EXCEPT ![k] = @ \cup {b}])
asic_CancelInterrupt(k, b) == asic_UpdatePending([IST EXCEPT ![k] = @ \ {b}])

\* Write_SB_ISTNRM and Write_SB_ISTERR: a 1 acknowledges the bit.
\* Write_SB_ISTEXT is ignored: the device has to cancel.
WriteIST(k, data) ==
  /\ k # "EXT"
  /\ asic_UpdatePending([IST EXCEPT ![k] = @ \ data])

\* (mutant of WriteIML) the line is not re-evaluated
MutMaskNoUpdate(line, k, data) ==
  /\ IML' = [IML EXCEPT ![line][k] = data]
  /\ UNCHANGED <<vars, IST, timers, unsynced>>

\* Write_SB_SB_IMLxNRM, ...EXT, ...ERR: only that line is re-evaluated.
WriteIML(line, k, data) ==
  /\ IML' = [IML EXCEPT ![line][k] = data]
  /\ UpdateLines({line}, IST, IML')
  /\ UNCHANGED IST

-----------------------------------------------------------------------------
(* The TMU's side of its lines                                             *)

\* UpdateTMU_chan, an underflow of a running channel
Underflow(ch) ==
  /\ UNF' = UNF \cup {ch}
  /\ InterruptPend(ch, TRUE)
  /\ UNCHANGED <<holly, UNIE, unsynced>>

\* TMU_TCRx_write and UpdateTMUCounts: both lines follow the value written.
TMU_TCR_write(ch, unf, unie) ==
  /\ UNF' = IF unf THEN UNF \cup {ch} ELSE UNF \ {ch}
  /\ UNIE' = IF unie THEN UNIE \cup {ch} ELSE UNIE \ {ch}
  /\ interrupt_vpend' = WithLine(interrupt_vpend, ch, unf)
  /\ interrupt_vmask' = WithLine(interrupt_vmask, ch, unie)
  /\ UNCHANGED <<rest, holly, unsynced>>

-----------------------------------------------------------------------------

\* (mutant of ResetDC) intc_Reset runs after tmu_Reset
MutIntcLast ==
  /\ Reset
  /\ UNF' = {} /\ UNIE' = {}
  /\ unsynced' = IRL
  /\ UNCHANGED holly

\* ResetDC: Sh4_int_Reset; then, in mem_Reset, asic_reg_Reset (empty: the
\* status and mask registers survive), intc_Reset and, after it, tmu_Reset,
\* whose UpdateTMUCounts takes the channels' lines down again.
ResetDC ==
  /\ prio' = InitialPriority
  /\ InterruptBit' = [s \in Source |-> s]
  /\ interrupt_vpend' = {}
  /\ interrupt_vmask' = Slot \ {InterruptBit'[ch] : ch \in Channel}
  /\ decoded_srimask' = 0
  /\ RequestSIIDRebuild
  /\ sr' = ResetSR /\ ssr' = [MD |-> FALSE, RB |-> FALSE, BL |-> FALSE, IMASK |-> 0]
  /\ bank' = TRUE
  /\ UNF' = {} /\ UNIE' = {}
  /\ unsynced' = IRL
  /\ UNCHANGED <<InterruptEnvId, InterruptLevelBit, CCN_INTEVT, holly>>

HollyInit ==
  /\ prio = InitialPriority
  /\ interrupt_vpend = {}
  /\ interrupt_vmask = Slot \ Channel
  /\ rebuild = TRUE /\ decoded_srimask = 0
  /\ InterruptBit = [s \in Source |-> s]
  /\ InterruptEnvId = [q \in Slot |-> NoEvent]
  /\ InterruptLevelBit = [l \in Level |-> 0]
  /\ sr = ResetSR
  /\ ssr = [MD |-> FALSE, RB |-> FALSE, BL |-> FALSE, IMASK |-> 0]
  /\ bank = TRUE /\ CCN_INTEVT = NoEvent
  /\ IST = [k \in Kind |-> {}]
  /\ IML = [l \in IRL |-> [k \in Kind |-> {}]]
  /\ UNF = {} /\ UNIE = {}
  /\ unsynced = {}

\* The CPU's own steps leave the devices alone.
CPUStep ==
  /\ \/ UpdateINTC \/ LdcSR \/ Rte \/ LdcSSR
     \/ \E r \in IPR, data \in IPRValues : WriteIPR(r, data)
  /\ UNCHANGED <<holly, timers, unsynced>>

HollyNext ==
  \/ \E k \in Kind, b \in Bit : asic_RaiseInterrupt(k, b) \/ asic_CancelInterrupt(k, b)
  \/ \E k \in Kind, data \in SUBSET Bit : WriteIST(k, data)
  \/ \E l \in IRL, k \in Kind, data \in SUBSET Bit : WriteIML(l, k, data)
  \/ \E ch \in Channel : Underflow(ch)
  \/ \E ch \in Channel, unf, unie \in BOOLEAN : TMU_TCR_write(ch, unf, unie)
  \/ CPUStep
  \/ ResetDC

HollySpec == HollyInit /\ [][HollyNext]_hvars

-----------------------------------------------------------------------------
(* Properties                                                              *)
\* asic.cpp: "Re-evaluate and forward all three IRL lines to the SH4 ... after
\* any change to IST or IML".  Whatever rebuilds moved its bit, a line is up
\* exactly when an unmasked interrupt is; after ResetDC (which clears the
\* lines and keeps the ASIC's registers) from its first re-evaluation on, and
\* until then it is at least not up without a cause.
\* A channel's two bits follow the two flags of its TCR, over every reorder of
\* the bits and over ResetDC, whose resets overwrite each other's lines.
LinesFollow ==
  /\ \A l \in IRL :
       /\ InterruptBit[l] \in interrupt_vpend => Asserted(l, IST, IML)
       /\ l \notin unsynced /\ Asserted(l, IST, IML) => InterruptBit[l] \in interrupt_vpend
  /\ \A ch \in Channel :
       /\ InterruptBit[ch] \in interrupt_vpend <=> ch \in UNF
       /\ InterruptBit[ch] \in interrupt_vmask <=> ch \in UNIE

\* No spurious interrupt: what the CPU is told it accepted is a line with an
\* unmasked cause, or a channel with its flag and its enable set.
NoSpuriousInterrupt ==
  [][CCN_INTEVT' # CCN_INTEVT =>
       \/ CCN_INTEVT' \in IRL /\ Asserted(CCN_INTEVT', IST, IML)
       \/ CCN_INTEVT' \in Channel \cap UNF \cap UNIE]_hvars

=============================================================================
