---------------------------- MODULE BoardAccess ----------------------------
(***************************************************************************)
(* Which bus addresses the host tools touch on which board.                *)
(*                                                                         *)
(* The same tools run on a Pynq-Z2 and on a KR260, whose address maps      *)
(* differ; an access nobody decodes never completes and hangs the board    *)
(* until a power cycle.  The map a tool uses depends on TIDELINK_SOC, on   *)
(* the two data-plane overrides, and on whether tl_socmap.py was staged    *)
(* beside the tool; what a board decodes depends on the image in its PL,   *)
(* which a reboot empties.                                                 *)
(*                                                                         *)
(* Addresses are page numbers (address / 4096).  Below the tools is the    *)
(* role register that overlay.lock_role writes in a fixed order.           *)
(***************************************************************************)
EXTENDS Integers, FiniteSets

CONSTANTS
    Boards,     \* the boards of a behaviour
    Socs,       \* values TIDELINK_SOC may have; "unset" if it has none
    Bases,      \* values TIDELINK_TX_BASE may be given; 0 is unset
    MaxOps      \* operator steps of a behaviour

VARIABLES
    board,      \* the board under the tools
    pl,         \* the image its PL holds
    env,        \* the environment of the next tool
    proc,       \* the tool that runs: its name and the pages it still touches
    hung,       \* the tool whose access never completed
    die,        \* strap, role register and PHY phase
    ops         \* operator steps so far

vars == <<board, pl, env, proc, hung, die, ops>>

Empty == [kind |-> "none", ptp |-> FALSE]
Idle == [tool |-> "none", pend |-> {}, rc |-> 0, cfg |-> FALSE, pc |-> "off"]
Reset == [strap |-> FALSE, locked |-> FALSE, role |-> FALSE, phase |-> 0]

(* ahb_sub is 64 MB, the data windows 64 KB, the APB 32 KB, the rest a page. *)
APERTURES ==
    {[name |-> "ahb_sub",    z2 |-> \h40000, kr260 |-> \h80000, size |-> \h4000],
     [name |-> "tx_legacy",  z2 |-> \h44000, kr260 |-> \hA4000, size |-> 16],
     [name |-> "fifo_legacy", z2 |-> \h44010, kr260 |-> \hA4010, size |-> 16],
     [name |-> "ahb_ptp",    z2 |-> \h44020, kr260 |-> \h84020, size |-> 1],
     [name |-> "apb",        z2 |-> \h44030, kr260 |-> \h84030, size |-> 8],
     [name |-> "strap_gpio", z2 |-> \h44040, kr260 |-> \h84040, size |-> 1],
     [name |-> "debug_gpio", z2 |-> \h44041, kr260 |-> \h84041, size |-> 1],
     [name |-> "phc_apb",    z2 |-> \h44050, kr260 |-> \h84050, size |-> 1],
     [name |-> "ahb_tx",     z2 |-> \h84000, kr260 |-> \hA4000, size |-> 16],
     [name |-> "ahb_fifo",   z2 |-> \h84010, kr260 |-> \hA4010, size |-> 16]}

(* What an image decodes: the data plane is the old one before the GP1     *)
(* split, and the PTP windows exist in -ptp images only.  The last two     *)
(* pages are the PS's own port-width registers.                            *)
absent(image) ==
    (IF image.kind = "z2" THEN {"ahb_tx", "ahb_fifo"} ELSE {})
        \cup (IF image.kind = "gp1" THEN {"tx_legacy", "fifo_legacy"} ELSE {})
        \cup (IF image.ptp THEN {} ELSE {"ahb_ptp", "phc_apb"})

decoded(page) ==
    \/ \E a \in APERTURES :
        /\ pl.kind # "none" /\ a.name \notin absent(pl)
        /\ LET base == IF pl.kind = "kr260" THEN a.kr260 ELSE a.z2
           IN  base <= page /\ page < base + a.size
    \/ board = "kr260" /\ page \in {\hFF419, \hFD615}

-----------------------------------------------------------------------------
(* tl_socmap *)

KR260_ALIASES == {"kr260", "kria"}
Z2_ALIASES == {"z2", "pynq-z2"}

strip(v) == IF v = "kr260_padded" THEN "kr260" ELSE v

resolve_soc(v) ==
    IF v = "unset" \/ strip(v) \in Z2_ALIASES THEN "z2"
    ELSE IF strip(v) \in KR260_ALIASES THEN "kr260" ELSE "error"

(* The identity on a Z2; elsewhere the aperture's row, or an error. *)
Refused == -1

remap(page) ==
    IF resolve_soc(env.soc) = "z2" THEN page
    ELSE LET rows == {a \in APERTURES : a.z2 <= page /\ page < a.z2 + a.size}
         IN  IF rows = {} THEN Refused
             ELSE LET a == CHOOSE r \in rows : TRUE IN a.kr260 + (page - a.z2)

(* Faulty: the override simply wins. *)
data_base_any(raw, default) == IF raw = 0 THEN remap(default) ELSE raw

(* A data-plane override must agree with what TIDELINK_SOC implies. *)
data_base(raw, default) ==
    IF raw = 0 \/ raw = remap(default) THEN remap(default) ELSE Refused

-----------------------------------------------------------------------------
(* The pages a tool touches; a refusal touches none. *)

refuse(rc) == [rc |-> rc, pend |-> {}]
touch(pages) == IF Refused \in pages THEN refuse(2) ELSE [rc |-> 0, pend |-> pages]

(* tl39: the import, the SoC, then the data bases are resolved before any   *)
(* command; rd and wr take Z2 addresses.                                    *)
tl39(page) ==
    IF ~env.socmap
       THEN IF strip(env.soc) \notin {"unset", "z2"} THEN refuse(2) ELSE touch({page})
    ELSE IF resolve_soc(env.soc) = "error" THEN refuse(2)
    ELSE IF Refused \in {data_base(env.tx, \h84000), data_base(0, \h84010)} THEN refuse(1)
    ELSE touch({IF page = \h84000 THEN data_base(env.tx, page) ELSE remap(page)})

(* On a Z2 the operator's address passes through unchecked and is taken to *)
(* be right; on a KR260 it may be relocated already, or outside every      *)
(* aperture.                                                               *)
tl39_pages == {\h44032, \h84000, \h84010} \cup (IF board = "kr260" THEN {\h84032, \h50000} ELSE {})

(* The guard of tlchar, tlfifo and the measurement agent: raw Z2 literals.  *)
zynqmp_guard(page) ==
    IF strip(env.soc) \notin {"unset"} \cup Z2_ALIASES THEN refuse(3) ELSE touch({\h44032, page})

pl_programmed_guard == pl.kind # "none" \/ env.skip

agent(page) ==
    LET g == zynqmp_guard(page) IN IF g.rc = 0 /\ ~pl_programmed_guard THEN refuse(4) ELSE g

tlchar_tx == IF env.tx = 0 THEN \h44000 ELSE env.tx

(* overlay, bare_overlay and tl_poke choose the map themselves: a value     *)
(* that is no KR260 alias, letter for letter, is a Z2.                      *)
overlay_soc == IF env.soc \in KR260_ALIASES THEN "kr260" ELSE "z2"
overlay_page(z2, kr260) == IF overlay_soc = "kr260" THEN kr260 ELSE z2

(* kr260_smoke has the KR260's literals; PTP pages on request only. *)
kr260_smoke(ptp) ==
    touch({\hFF419, \hFD615, \h84030, \h84032, \h84040, \h84041}
            \cup (IF ptp THEN {\h84020, \h84050} ELSE {}))

-----------------------------------------------------------------------------
(* The operator *)

quiet == proc.tool = "none" /\ hung = "none" /\ ops < MaxOps
step == ops' = ops + 1

Export ==
    /\ quiet /\ step
    /\ \E soc \in Socs, tx \in Bases, socmap \in BOOLEAN :
        env' = [soc |-> soc, tx |-> tx, socmap |-> socmap, skip |-> FALSE]
    /\ UNCHANGED <<board, pl, proc, hung, die>>

(* The deploy scripts load the board's own image. *)
images == IF board = "kr260" THEN {[kind |-> "kr260", ptp |-> p] : p \in BOOLEAN}
          ELSE {[kind |-> k, ptp |-> FALSE] : k \in {"z2", "gp1"}}

Deploy ==
    /\ quiet /\ step
    /\ pl' \in images /\ die' = Reset
    /\ UNCHANGED <<board, env, proc, hung>>

(* A reboot empties the PL and ends whatever ran; a hung board needs it. *)
Reboot ==
    /\ ops < MaxOps /\ step
    /\ pl' = Empty /\ die' = Reset /\ proc' = Idle /\ hung' = "none"
    /\ UNCHANGED <<board, env>>

Run(tool, r) ==
    proc' = [tool |-> tool, pend |-> r.pend, rc |-> r.rc, cfg |-> FALSE, pc |-> "pages"]

RunTl39 == \E page \in tl39_pages : Run("tl39", tl39(page))
RunTlchar == \E page \in {tlchar_tx, \h44032} : Run("tlchar", zynqmp_guard(page))
RunTlfifo == Run("tlfifo", zynqmp_guard(\h84010))
RunAgent == \E page \in {tlchar_tx, \h44032} : Run("agent", agent(page))
RunPoke == Run("tl_poke", touch({overlay_page(\h44032, \h84032)}))
RunSmoke == board = "kr260" /\ \E ptp \in BOOLEAN : (ptp => pl.ptp) /\ Run("smoke", kr260_smoke(ptp))

(* A test through HwTB: the APB, then the TX window. *)
RunTest == Run("overlay", touch({overlay_page(\h44030, \h84030), overlay_page(\h44000, \hA4000)}))

Tool ==
    /\ quiet /\ step
    /\ RunTl39 \/ RunTlchar \/ RunTlfifo \/ RunAgent \/ RunPoke \/ RunSmoke \/ RunTest
    /\ UNCHANGED <<board, pl, env, hung, die>>

(* One bus access. *)
Access ==
    /\ proc.pc = "pages" /\ hung = "none"
    /\ \E page \in proc.pend :
        /\ proc' = [proc EXCEPT !.pend = @ \ {page}]
        /\ hung' = IF decoded(page) THEN "none" ELSE proc.tool
    /\ UNCHANGED <<board, pl, env, die, ops>>

Exit ==
    /\ proc.pc = "pages" /\ proc.pend = {} /\ hung = "none"
    /\ proc' = Idle
    /\ UNCHANGED <<board, pl, env, hung, die, ops>>

-----------------------------------------------------------------------------
(* overlay.lock_role on a board that decodes it; other sessions may set the *)
(* strap, and a session may end between two accesses.                       *)

SetRole ==
    /\ quiet /\ step /\ pl.kind # "none"
    /\ \E s \in BOOLEAN : die' = [die EXCEPT !.strap = s]
    /\ UNCHANGED <<board, pl, env, proc, hung>>

reachable == pl.kind # "none" /\ overlay_soc = board

LockRole ==
    /\ quiet /\ step /\ reachable
    /\ proc' = [Idle EXCEPT !.tool = "lock_role", !.cfg = die.strap, !.pc = "phase"]
    /\ UNCHANGED <<board, pl, env, hung, die>>

WritePhase ==
    /\ proc.pc = "phase"
    /\ die' = [die EXCEPT !.phase = IF proc.cfg THEN 3 ELSE 0]
    /\ proc' = [proc EXCEPT !.pc = "lock"]
    /\ UNCHANGED <<board, pl, env, hung, ops>>

WriteLock ==
    /\ proc.pc = "lock"
    /\ die' = [die EXCEPT !.locked = TRUE, !.role = proc.cfg]
    /\ proc' = Idle
    /\ UNCHANGED <<board, pl, env, hung, ops>>

Killed ==
    /\ proc.tool # "none" /\ hung = "none"
    /\ proc' = Idle
    /\ UNCHANGED <<board, pl, env, hung, die, ops>>

(* The strap GPIO is another process's to write, too. *)
Flip ==
    /\ proc.tool = "lock_role" /\ ops < MaxOps /\ step
    /\ die' = [die EXCEPT !.strap = ~@]
    /\ UNCHANGED <<board, pl, env, proc, hung>>

Init ==
    /\ board \in Boards
    /\ pl = Empty /\ proc = Idle /\ hung = "none" /\ die = Reset /\ ops = 0
    /\ env = [soc |-> "unset", tx |-> 0, socmap |-> TRUE, skip |-> FALSE]

Next ==
    \/ Export \/ Deploy \/ Reboot \/ Tool \/ Access \/ Exit
    \/ SetRole \/ LockRole \/ WritePhase \/ WriteLock \/ Killed \/ Flip

Spec == Init /\ [][Next]_vars

-----------------------------------------------------------------------------

(* The image in the PL is one whose data plane the tool's defaults fit: tl39 *)
(* and tlfifo are for GP1-split images, tlchar and the agent follow the      *)
(* override, the overlay classes are for the older ones.                     *)
fits(tool) ==
    CASE tool \in {"tl39", "tlfifo"} -> pl.kind \in {"gp1", "kr260"}
      [] tool \in {"tlchar", "agent"} -> decoded(tlchar_tx)
      [] tool = "overlay" -> pl.kind \in {"z2", "kr260"}
      [] OTHER -> pl.kind # "none"

(* The trap of tl_socmap.py's header: the data plane is overridden to the   *)
(* KR260's and TIDELINK_SOC is forgotten.                                   *)
half_set == env.soc = "unset" /\ env.tx \notin {0, \h84000}

(* The operator named the other board, or left the name out on a KR260,     *)
(* where every tool but kr260_smoke then takes the board for a Z2.  Only    *)
(* tl39 with its tl_socmap.py notices from a half-set environment that the  *)
(* name is missing.                                                         *)
wrong_map(tool) ==
    /\ tool # "smoke"
    /\ \/ env.soc # "unset" /\ resolve_soc(env.soc) \notin {board, "error"}
       \/ env.soc = "unset" /\ board = "kr260" /\ ~(tool = "tl39" /\ env.socmap /\ half_set)

(* tl_socmap, the guards and tl39's preflight: a tool hangs the board only  *)
(* if TIDELINK_SOC names the other board, or is unset on a KR260; if the    *)
(* PL's image is not the one the tool is for; or if one of the tools that   *)
(* choose the map themselves was given a value that is not, letter for      *)
(* letter, one of the names: a mistyped one, or one with a blank that       *)
(* tl_socmap would have stripped.  Where TIDELINK_SOC names the board, a    *)
(* missing tl_socmap.py, an override that disagrees, a relocated address    *)
(* never does, nor, for the other tools, a mistyped value; and tl39 with    *)
(* tl_socmap.py beside it refuses the half-set environment, which the other *)
(* tools do not.                                                            *)
excused(tool) ==
    \/ wrong_map(tool)
    \/ tool \in {"overlay", "tl_poke"} /\ env.soc \notin {"unset"} \cup Z2_ALIASES \cup KR260_ALIASES
    \/ ~fits(tool)

NoUndecoded == hung # "none" => excused(hung)

(* _pl_programmed_guard: the agent never reads a register of a board whose  *)
(* PL is empty, which a reboot between deployment and run leaves behind.    *)
AgentNeedsImage == hung = "agent" => pl.kind # "none"

(* lock_role, SHORTCOMINGS-14b: when the role locks, the phase of that role *)
(* is already in the PHY, although the strap may have changed since it was  *)
(* read and an earlier session may have been killed half-way.               *)
PhaseBeforeLock ==
    ~die.locked /\ die'.locked => die.phase = (IF die'.role THEN 3 ELSE 0)

-----------------------------------------------------------------------------
(* Why they hold. *)

TypeOK ==
    /\ board \in Boards /\ pl \in {Empty} \cup images
    /\ env.soc \in Socs \cup {"unset"} /\ env.skip = FALSE /\ env.socmap \in BOOLEAN
    /\ DOMAIN proc = DOMAIN Idle /\ DOMAIN die = DOMAIN Reset
    /\ proc.tool = "none" <=> proc.pc = "off"

(* What a tool will still touch is decoded, or its operator is to blame;   *)
(* the image and the environment are those it was started with.            *)
PagesKnown ==
    proc.pc = "pages" =>
        /\ \A page \in proc.pend : decoded(page) \/ excused(proc.tool)
        /\ proc.tool = "agent" /\ proc.pend # {} => pl.kind # "none"

(* lock_role goes on from the phase it has written. *)
PhaseSet == proc.pc = "lock" => die.phase = (IF proc.cfg THEN 3 ELSE 0)

IInv == TypeOK /\ PagesKnown /\ PhaseSet /\ NoUndecoded /\ AgentNeedsImage
=============================================================================
