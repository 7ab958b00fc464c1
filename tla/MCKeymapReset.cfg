\* A keymap taken while a modifier is held: the keyboard's xkb state
\* against the keys held on the device.
CONSTANTS
    a = a
    b = b
    kA = kA
    kShift = kShift
    us = us
    de = de
    Null = Null
    Clients = {a}
    Keys = {kA, kShift}
    Keymaps = {us, de}
    ModKeys <- MCModKeys
    KmLen <- MCKmLen
    InitKeymap = us
    Outcomes = {"ok"}

INIT Init
NEXT Next

INVARIANT XkbStateAgrees

\* meta_wayland_keyboard_release frees the keyboard at shutdown; no step
\* follows it.
CHECK_DEADLOCK FALSE
