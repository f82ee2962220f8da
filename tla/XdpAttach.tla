----------------------------- MODULE XdpAttach -----------------------------
(***************************************************************************)
(* Attaching XDP programs to a device (net/core/dev.c): a program is       *)
(* attached by its descriptor and then belongs to the device, or through a *)
(* link, which keeps it attached as long as the link lives.  There are     *)
(* three places for a program (generic, driver, hardware); the device, the *)
(* link, the driver and the processes that hold a descriptor each have a   *)
(* reference to it.                                                        *)
(*                                                                         *)
(* Calls run under the rtnl lock and are one step each, except the         *)
(* creation of a link, which goes on without the lock.  The driver is      *)
(* external: it takes a program or refuses it, and puts the one it had.    *)
(***************************************************************************)
EXTENDS Integers, FiniteSets

CONSTANTS Prog,        \* the programs
          NativeXdp    \* the driver has ndo_bpf

NoProg == "no program"

ASSUME XdpAssumption == NativeXdp \in BOOLEAN /\ NoProg \notin Prog

VARIABLES xdp_state,   \* dev->xdp_state: program and link of each mode
          xdp_driver,  \* the program that is installed for each mode
          xdp_ref,     \* the reference count of each program
          xdp_fd,      \* programs a process has a descriptor of
          xdp_link,    \* the link: where it is, its program, dev, and mode
          xdp_key,     \* generic_xdp_needed_key
          xdp_upper,   \* an upper device has a program
          xdp_dev      \* the device is registered
xdp_vars == <<xdp_state, xdp_driver, xdp_ref, xdp_fd, xdp_link, xdp_key, xdp_upper, xdp_dev>>

Mode == {"XDP_MODE_SKB", "XDP_MODE_DRV", "XDP_MODE_HW"}
DefaultMode == "none"
NoLink == [st |-> "none", prog |-> NoProg, dev |-> FALSE, flags |-> DefaultMode]

XdpInit ==
    /\ xdp_state = [m \in Mode |-> [prog |-> NoProg, link |-> FALSE]]
    /\ xdp_driver = [m \in Mode |-> NoProg]
    /\ xdp_ref = [p \in Prog |-> 0]
    /\ xdp_fd = {}
    /\ xdp_link = NoLink
    /\ xdp_key = 0
    /\ xdp_upper = FALSE
    /\ xdp_dev = TRUE

bpf_prog_inc(ref, p) == IF p = NoProg THEN ref ELSE [ref EXCEPT ![p] = @ + 1]
bpf_prog_put(ref, p) == IF p = NoProg THEN ref ELSE [ref EXCEPT ![p] = @ - 1]

dev_xdp_mode(flags) ==
    IF flags # DefaultMode THEN flags ELSE IF NativeXdp THEN "XDP_MODE_DRV" ELSE "XDP_MODE_SKB"

dev_xdp_bpf_op(mode) == mode = "XDP_MODE_SKB" \/ NativeXdp

dev_xdp_prog(mode) == IF xdp_state[mode].link THEN xdp_link.prog ELSE xdp_state[mode].prog

dev_xdp_prog_count == Cardinality({m \in Mode : xdp_state[m].prog # NoProg \/ xdp_state[m].link})

-----------------------------------------------------------------------------
(* dev_xdp_install with a driver that agrees, generic_xdp_install included: *)
(* the driver's reference to the new program is taken here and the driver   *)
(* puts that of the old one.                                                *)
generic_key(mode, prog) ==
    xdp_key + (IF mode = "XDP_MODE_SKB" /\ prog # NoProg THEN 1 ELSE 0)
            - (IF mode = "XDP_MODE_SKB" /\ xdp_driver[mode] # NoProg THEN 1 ELSE 0)

(* Faulty: the driver gets no reference of its own. *)
dev_xdp_install_moved(ref, mode, prog) == bpf_prog_put(ref, xdp_driver[mode])

dev_xdp_install(ref, mode, prog) == bpf_prog_put(bpf_prog_inc(ref, prog), xdp_driver[mode])

Installs(mode, prog) ==
    /\ xdp_driver' = [xdp_driver EXCEPT ![mode] = prog]
    /\ xdp_key' = generic_key(mode, prog)

(* The checks of dev_xdp_attach that concern the state; link is whether it  *)
(* is a link that is attached.                                              *)
may_attach(link, new, old, flags, replace, noexist) ==
    LET mode == dev_xdp_mode(flags)
        cur == dev_xdp_prog(mode)
        other == IF mode = "XDP_MODE_SKB" THEN "XDP_MODE_DRV" ELSE "XDP_MODE_SKB" IN
    /\ flags = DefaultMode => dev_xdp_prog_count <= 1
    /\ old # NoProg => replace
    /\ ~xdp_state[mode].link
    /\ ~xdp_upper
    /\ link => cur = NoProg
    /\ replace => cur = old
    /\ new # NoProg => /\ ~(noexist /\ cur # NoProg)
                       /\ mode # "XDP_MODE_HW" => dev_xdp_prog(other) = NoProg
    /\ new # cur => dev_xdp_bpf_op(mode)

(* dev_xdp_attach: the driver is called only if the program changes; the    *)
(* device takes the caller's reference and puts that of the old program.    *)
attached_refs(ref, mode, new) ==
    LET cur == dev_xdp_prog(mode) IN
    bpf_prog_put(IF new # cur THEN dev_xdp_install(ref, mode, new) ELSE ref, cur)

Attach(mode, new) ==
    IF new # dev_xdp_prog(mode) THEN Installs(mode, new) ELSE UNCHANGED <<xdp_driver, xdp_key>>

(* dev_change_xdp_fd: the program new (NoProg to clear) replaces old, if    *)
(* that is given.  A refusal puts back the references and changes nothing.  *)
dev_change_xdp_fd(new, old, flags, replace, noexist) ==
    LET mode == dev_xdp_mode(flags)
        held == bpf_prog_inc(bpf_prog_inc(xdp_ref, new), old) IN
    /\ xdp_dev
    /\ {new, old} \subseteq xdp_fd \cup {NoProg}
    /\ may_attach(FALSE, new, old, flags, replace, noexist)
    /\ xdp_ref' = bpf_prog_put(attached_refs(held, mode, new), old)
    /\ Attach(mode, new)
    /\ xdp_state' = [xdp_state EXCEPT ![mode] = [prog |-> new, link |-> FALSE]]
    /\ UNCHANGED <<xdp_fd, xdp_link, xdp_upper, xdp_dev>>

(* bpf_xdp_link_attach: the link takes the caller's reference to the        *)
(* program, which is then attached in its name ...                          *)
bpf_xdp_link_attach(p, flags) ==
    LET mode == dev_xdp_mode(flags) IN
    /\ xdp_dev /\ xdp_link.st = "none" /\ p \in xdp_fd
    /\ may_attach(TRUE, p, NoProg, flags, FALSE, FALSE)
    /\ xdp_ref' = attached_refs(bpf_prog_inc(xdp_ref, p), mode, p)
    /\ Attach(mode, p)
    /\ xdp_state' = [xdp_state EXCEPT ![mode] = [prog |-> NoProg, link |-> TRUE]]
    /\ xdp_link' = [st |-> "primed", prog |-> p, dev |-> TRUE, flags |-> flags]
    /\ UNCHANGED <<xdp_fd, xdp_upper, xdp_dev>>

(* ... or the attachment fails, and the link is cleaned up without the lock.*)
bpf_xdp_link_attach_fails(p, flags) ==
    /\ xdp_dev /\ xdp_link.st = "none" /\ p \in xdp_fd
    /\ xdp_link' = [st |-> "failed", prog |-> p, dev |-> TRUE, flags |-> flags]
    /\ xdp_ref' = bpf_prog_inc(xdp_ref, p)
    /\ UNCHANGED <<xdp_state, xdp_driver, xdp_fd, xdp_key, xdp_upper, xdp_dev>>

bpf_link_cleanup ==
    /\ xdp_link.st = "failed"
    /\ xdp_ref' = bpf_prog_put(xdp_ref, xdp_link.prog)
    /\ xdp_link' = NoLink
    /\ UNCHANGED <<xdp_state, xdp_driver, xdp_fd, xdp_key, xdp_upper, xdp_dev>>

(* bpf_link_settle: the link gets its descriptor. *)
bpf_link_settle ==
    /\ xdp_link.st = "primed"
    /\ xdp_link' = [xdp_link EXCEPT !.st = "open"]
    /\ UNCHANGED <<xdp_state, xdp_driver, xdp_ref, xdp_fd, xdp_key, xdp_upper, xdp_dev>>

(* dev_xdp_detach_link: nothing is put here, the program is the link's.     *)
Detach(mode) ==
    /\ Installs(mode, NoProg)
    /\ xdp_ref' = dev_xdp_install(xdp_ref, mode, NoProg)
    /\ xdp_state' = [xdp_state EXCEPT ![mode] = [prog |-> NoProg, link |-> FALSE]]

(* bpf_xdp_link_release, by BPF_LINK_DETACH or the last close: a link that  *)
(* the device has left already is not detached again.                       *)
bpf_xdp_link_detach ==
    /\ xdp_link.st \in {"open", "closing"} /\ xdp_link.dev
    /\ xdp_state[dev_xdp_mode(xdp_link.flags)].link
    /\ Detach(dev_xdp_mode(xdp_link.flags))
    /\ xdp_link' = [xdp_link EXCEPT !.dev = FALSE]
    /\ UNCHANGED <<xdp_fd, xdp_upper, xdp_dev>>

bpf_link_close ==
    /\ xdp_link.st = "open"
    /\ xdp_link' = [xdp_link EXCEPT !.st = "closing"]
    /\ UNCHANGED <<xdp_state, xdp_driver, xdp_ref, xdp_fd, xdp_key, xdp_upper, xdp_dev>>

(* After the release the program of the link is put, and the link freed.    *)
bpf_xdp_link_dealloc ==
    /\ xdp_link.st = "closing" /\ ~xdp_link.dev
    /\ xdp_ref' = bpf_prog_put(xdp_ref, xdp_link.prog)
    /\ xdp_link' = NoLink
    /\ UNCHANGED <<xdp_state, xdp_driver, xdp_fd, xdp_key, xdp_upper, xdp_dev>>

(* Faulty: the reference of a program that is already the link's is kept. *)
link_update_refs_kept(p, mode) ==
    IF p = xdp_link.prog THEN bpf_prog_inc(xdp_ref, p)
    ELSE bpf_prog_put(dev_xdp_install(bpf_prog_inc(xdp_ref, p), mode, p), xdp_link.prog)

(* bpf_xdp_link_update, with the caller's reference to p: the same program  *)
(* again is put, another takes the place of the old one.                    *)
link_update_refs(p, mode) ==
    IF p = xdp_link.prog THEN bpf_prog_put(bpf_prog_inc(xdp_ref, p), p)
    ELSE bpf_prog_put(dev_xdp_install(bpf_prog_inc(xdp_ref, p), mode, p), xdp_link.prog)

bpf_xdp_link_update(p, old) ==
    LET mode == dev_xdp_mode(xdp_link.flags) IN
    /\ xdp_link.st = "open" /\ p \in xdp_fd
    /\ xdp_link.dev
    /\ old # NoProg => old = xdp_link.prog
    /\ xdp_ref' = link_update_refs(p, mode)
    /\ IF p = xdp_link.prog THEN UNCHANGED <<xdp_driver, xdp_key>> ELSE Installs(mode, p)
    /\ xdp_link' = [xdp_link EXCEPT !.prog = p]
    /\ UNCHANGED <<xdp_state, xdp_fd, xdp_upper, xdp_dev>>

(* dev_xdp_uninstall, when the device is unregistered: every program goes,  *)
(* and a link is left without its device.                                   *)
dev_xdp_uninstall ==
    LET Set == {m \in Mode : dev_xdp_prog(m) # NoProg}
        uses(p) == Cardinality({m \in Set : xdp_driver[m] = p})
                     + Cardinality({m \in Set : ~xdp_state[m].link /\ xdp_state[m].prog = p}) IN
    /\ xdp_dev /\ xdp_dev' = FALSE
    /\ xdp_driver' = [m \in Mode |-> IF m \in Set THEN NoProg ELSE xdp_driver[m]]
    /\ xdp_key' = IF "XDP_MODE_SKB" \in Set THEN generic_key("XDP_MODE_SKB", NoProg) ELSE xdp_key
    /\ xdp_ref' = [p \in Prog |-> xdp_ref[p] - uses(p)]
    /\ xdp_link' = IF \E m \in Set : xdp_state[m].link THEN [xdp_link EXCEPT !.dev = FALSE] ELSE xdp_link
    /\ xdp_state' = [m \in Mode |-> IF m \in Set THEN [prog |-> NoProg, link |-> FALSE] ELSE xdp_state[m]]
    /\ UNCHANGED <<xdp_fd, xdp_upper>>

(* A process gets a descriptor of a program that is there or that it loads, *)
(* or closes it; a device is registered again; the upper device changes.    *)
open_prog(p) ==
    /\ p \notin xdp_fd
    /\ xdp_fd' = xdp_fd \cup {p} /\ xdp_ref' = bpf_prog_inc(xdp_ref, p)
    /\ UNCHANGED <<xdp_state, xdp_driver, xdp_link, xdp_key, xdp_upper, xdp_dev>>

close_prog(p) ==
    /\ p \in xdp_fd
    /\ xdp_fd' = xdp_fd \ {p} /\ xdp_ref' = bpf_prog_put(xdp_ref, p)
    /\ UNCHANGED <<xdp_state, xdp_driver, xdp_link, xdp_key, xdp_upper, xdp_dev>>

register_dev ==
    /\ ~xdp_dev /\ xdp_dev' = TRUE
    /\ UNCHANGED <<xdp_state, xdp_driver, xdp_ref, xdp_fd, xdp_link, xdp_key, xdp_upper>>

upper_changes ==
    /\ xdp_upper' = ~xdp_upper
    /\ UNCHANGED <<xdp_state, xdp_driver, xdp_ref, xdp_fd, xdp_link, xdp_key, xdp_dev>>

XdpNext ==
    \/ \E p \in Prog : open_prog(p) \/ close_prog(p)
    \/ register_dev \/ upper_changes
    \/ \E new, old \in Prog \cup {NoProg}, f \in Mode \cup {DefaultMode}, r, n \in BOOLEAN :
          dev_change_xdp_fd(new, old, f, r, n)
    \/ \E p \in Prog, f \in Mode \cup {DefaultMode} : bpf_xdp_link_attach(p, f) \/ bpf_xdp_link_attach_fails(p, f)
    \/ bpf_link_cleanup \/ bpf_link_settle \/ bpf_link_close
    \/ bpf_xdp_link_detach \/ bpf_xdp_link_dealloc
    \/ \E p \in Prog, old \in Prog \cup {NoProg} : bpf_xdp_link_update(p, old)
    \/ dev_xdp_uninstall

-----------------------------------------------------------------------------

XdpTypeOK ==
    /\ xdp_state \in [Mode -> [prog : Prog \cup {NoProg}, link : BOOLEAN]]
    /\ xdp_driver \in [Mode -> Prog \cup {NoProg}]
    /\ xdp_ref \in [Prog -> Nat]
    /\ xdp_fd \subseteq Prog
    /\ xdp_link \in [st : {"none", "primed", "failed", "open", "closing"}, prog : Prog \cup {NoProg},
                     dev : BOOLEAN, flags : Mode \cup {DefaultMode}]
    /\ xdp_key \in 0 .. 1

(* The holders of program p: descriptors, the driver, the device, the link. *)
Holders(p) ==
    Cardinality({m \in Mode : xdp_driver[m] = p}) + Cardinality({m \in Mode : xdp_state[m].prog = p})
      + (IF p \in xdp_fd THEN 1 ELSE 0) + (IF xdp_link.prog = p THEN 1 ELSE 0)

(* The reference count of a program is the number of its holders, so that   *)
(* it is freed when the last one goes and not before; what is installed is  *)
(* what the device believes to be attached; generic and driver programs     *)
(* exclude each other; the generic key is set while the generic path has a  *)
(* program; a link and its device agree, through the teardown of either.    *)
XdpSound ==
    /\ \A p \in Prog : xdp_ref[p] = Holders(p)
    /\ \A m \in Mode : xdp_driver[m] = dev_xdp_prog(m)
    /\ dev_xdp_prog("XDP_MODE_SKB") = NoProg \/ dev_xdp_prog("XDP_MODE_DRV") = NoProg
    /\ xdp_key = (IF xdp_driver["XDP_MODE_SKB"] # NoProg THEN 1 ELSE 0)
    /\ Cardinality({m \in Mode : xdp_state[m].link}) <= 1
    /\ (\E m \in Mode : xdp_state[m].link) <=> (xdp_link.dev /\ xdp_link.st # "failed")
    /\ ~xdp_dev => \A m \in Mode : dev_xdp_prog(m) = NoProg
=============================================================================
