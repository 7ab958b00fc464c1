\* Two clients binding and dropping their keyboards, destroying their
\* surfaces and being focused, while keys are pressed, repeated and
\* released, grabs start and end, and keymaps are taken, with every
\* failure take_keymap handles.
CONSTANTS
    a = a
    b = b
    kA = kA
    kShift = kShift
    us = us
    de = de
    Null = Null
    Clients = {a, b}
    Keys = {kA, kShift}
    Keymaps = {us, de}
    ModKeys <- MCModKeys
    KmLen <- MCKmLen
    InitKeymap = us
    Outcomes = {"ok", "nullmap", "nostring", "nofile", "nommap"}

INIT Init
NEXT Next

INVARIANT TypeOK
INVARIANT KeysAgree
INVARIANT FocusValid
INVARIANT EnterLeavePaired
INVARIANT ClientKeysAgree

\* meta_wayland_keyboard_release frees the keyboard at shutdown; no step
\* follows it.
CHECK_DEADLOCK FALSE
