\* Three pickup slots and indexes; two text draws and one texture slot, so that
\* one is wanted; two ids of each other kind and three entities for each; a chat and
\* a password field, three lines of history and two strings under way; one
\* vehicle with a plate, vinyls and one toner, and a slot for each; two
\* vehicles of one model, one value besides its own; plates of four kinds,
\* one with texts in colour, and one call to the game that fails; one value
\* besides the default for every setting; one map icon, two places and three
\* markers, two buildings and two removals; three ids for two objects of one
\* model with two materials and one texture, two vehicles under one id.
SPECIFICATION ClientSpec
CONSTANTS
    MaxPickups = 3
    PickupIndexes = {0, 1, 2}
    Rest = 2
    MaxTextDraws = 2
    MaxTextures = 1
    Things = {d1, d2, d3}
    NoThing = NoThing
    Ids = {i1, i2}
    Entities = {e1, e2, e3}
    Nobody = Nobody
    chat = chat
    password = password
    Fields = {chat, password}
    Chat = chat
    Secret = {password}
    NoField = NoField
    HistorySize = 3
    MaxStrings = 2
    CarIds = {1}
    Toners = {toner}
    Files = {file}
    Plates = {p1, p2}
    BadPlate = BadPlate
    NoTexture = NoTexture
    NoCar = NoCar
    MaxReplaced = 3
    MaxPlates = 2
    MaxLost = 1
    TunedIds = {c1, c2}
    Other = Other
    Tuned = {1}
    TunedParts = {t1, t2}
    DefaultParts = {t1}
    OffsetRest = 1
    NoVehicle = NoVehicle
    Numbers = {n1, n2}
    Regions = {r1}
    PlateKinds = {1, 2, 6, 8}
    Lacking = {"KZ", "plate_ru"}
    ShotModels = {7, 570, 1373}
    PedModels = {7}
    Paints = {1}
    NoPaint = NoPaint
    Void = Void
    MaxOrders = 2
    MaxFailures = 1
    Values = {v1}
    Default = Default
    TooSmall = TooSmall
    Tagged = Tagged
    Missing = Missing
    IconIds = {1}
    Places = {"near", "far"}
    Nowhere = Nowhere
    Markers = {m1, m2, m3}
    Gates = {g1}
    NoMark = NoMark
    Buildings <- TwoHouses
    MaxRemoved = 2
    AnyModel = AnyModel
    ObjectIds = {0, 1, 2}
    Shapes = {h}
    Surfaces = {1, 2}
    Skins = {s1}
    Bare = Bare
    Props = {o1, o2}
    NoProp = NoProp
    RideIds = {v2}
    Rides = {q1, q2}
    Aside = Aside
    Wearer = Wearer
    MaxOrphans = 1
INVARIANTS PoolsAsShown TexturesOwned TextToItsField NotStuck CarsAsOrdered PicturesTrue SettingsKept WorldAsOrdered
PROPERTY PickupsTold
