\* Two remote players, an address is reused by either of their peds; two
\* looks of the local player; one remote player's ped, two animations, the
\* fist, one weapon and one without a model in its slot, one key; three
\* weapons to wear, one of them without a model, two slots for them and one
\* for the server; two vehicles to get into, one of them with other drivers
\* and all its switches; texts of six symbols with colours of one digit, a
\* chat that keeps two messages more than it shows, two talkers and one row
\* to list them, tables of two columns and two rows.  Times are in frames.
SPECIFICATION PlayerSpec
CONSTANTS
    LastSlot = 3
    Addrs = {a1, a2}
    Active = {2}
    LocalPed = LocalPed
    ActorPed = ActorPed
    Null = Null
    Looks = {l1, l2}
    SendRate = 1
    Refresh = 2
    FireRate = 1
    AimRate = 2
    HeadRate = 3
    Longest = 1
    Anims = {b1, b2}
    NoSuch = NoSuch
    Flagged = Flagged
    Guns = {1}
    NoModel = {0, 2}
    Slot <- WeaponSlots
    Keys = {0, 1}
    Shotgun = 1
    Hurts <- HurtsMore
    Awake = 1
    Still = 2
    Icons = {1}
    Weapons = {w1, w2, w3}
    Modelless = {w3}
    Me = Me
    Others = {o1}
    OutfitSlots = {0, 1}
    ServerSlots = {5}
    Cars = {c1, c2}
    SharedCars = {c1}
    NoCar = NoCar
    Second = 1
    Tagged = {t1, t2}
    VoiceLimit = 4
    VoiceRows = 1
    Shapes = {shape}
    Nothing = Nothing
    Digits = 1
    LongDigits = 2
    MaxLine = 4
    Slack = 1
    MaxText = 6
    NumMessages = 2
    Sizes = {1, 3}
    TopY = 3
    Box = 2
    Bounds = {4, 20}
    MaxPushed = 6
    Talkers = {p1}
    LabelCars = {v1}
    LabelMe = LabelMe
    NoAnchor = NoAnchor
    BubbleTimes = {0, 2}
    MaxTabs = 2
    MaxRows = 2
INVARIANTS ViewFollowsPed KeysTrue PlayerTold WornAsCarried BoardedAsTold SaidIsShown
PROPERTY RemoteAsSent
SYMMETRY Symmetry
