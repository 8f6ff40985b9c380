CONSTANTS
    DEVICE_COUNT = 3
    AddressPages = 16
    shared_buffer_address <- MCAddress
    shared_buffer_size <- MCSize
    Users = {u1, u2}
SPECIFICATION Spec
SYMMETRY Alike
INVARIANTS TypeOK NothingLeaked UsersServed OneOwner MappedInside
